------------------------- MODULE NotificationProofs -------------------------
(***************************************************************************)
(* Proofs about the notification group: an object that is destroyed is     *)
(* left alone, events outlive their uses, and an object gets its events in *)
(* the order they were queued for it, for any clients, notifiers, objects  *)
(* and events.                                                             *)
(*                                                                         *)
(* The inductive invariant has five parts.  Registered: who is registered  *)
(* with whom, under which lock, and what that says of an object's life.    *)
(* Counted: the event thread's uses.  LeftAlone: what the queue and the    *)
(* thread may have of an object that is being destroyed.  Referenced: the  *)
(* uses of each event.  Ordered: where events are between Notify and       *)
(* OnEvent.                                                                *)
(***************************************************************************)
EXTENDS Notification, SequenceTheorems, FiniteSetTheorems, TLAPS

Records == [evt : Events, obj : Objects]
Busy == evtPc \in {"set", "call", "callback", "release"}

\* What a client does, with what it works on.
Registers   == [kind : {"register"}, n : Notifiers, o : Objects]
Unregisters == [kind : {"unregister"}, n : Notifiers, todo : SUBSET Objects]
Notifies    == [kind : {"notify"}, n : Notifiers, e : Events, todo : SUBSET Objects]
Pushes      == [kind : {"push"}, n : Notifiers, e : Events, todo : SUBSET Objects,
                o : Objects]
Destroys    == [kind : {"destroy"}, o : Objects,
                stage : {"unregister", "spin", "leave", "join"}]

Ops == {Idle} \cup Registers \cup Unregisters \cup Notifies \cup Pushes \cup Destroys

TypeInv ==
  /\ life \in [Objects -> {"unborn", "live", "gone"}]
  /\ mbObsolete \in [Objects -> BOOLEAN]
  /\ pmNotifierObjectList \in [Objects -> SUBSET Notifiers]
  /\ objectList \in [Notifiers -> SUBSET Objects]
  /\ mLockNotifier \in [Notifiers -> Clients \cup {NULL}]
  /\ mLockHidden \in [Objects -> Clients \cup {NULL}]
  /\ mLockLookup \in Clients \cup {NULL}
  /\ op \in [Clients -> Ops]
  /\ mEvtQueue \in Seq(Records)
  /\ requestToStart \in BOOLEAN
  /\ requestToExit \in BOOLEAN
  /\ mnbUses \in Nat
  /\ curr \in Objects \cup {NULL}
  /\ evtPc \in {"none", "wait", "pop", "set", "call", "callback", "release", "exited"}
  /\ Busy => item \in [1 .. 1 -> Records]
  /\ nbUses \in [Events -> Int]
  /\ reposts \in [Objects -> Nat]
  /\ sent \in [Objects -> Seq(Events)]
  /\ delivered \in [Objects -> Seq(Events)]

-----------------------------------------------------------------------------
\* The client holds the lock of notifier n.
Holds(c, n) == op[c].kind \in {"register", "unregister", "notify", "push"} /\ op[c].n = n

Destroying(c, o) == Doing(c, "destroy") /\ op[c].o = o

\* The object has purged the queue.
Past(o) ==
  life[o] = "gone" \/ \E c \in Clients : Destroying(c, o) /\ op[c].stage # "unregister"

NotifierLocked == \A c \in Clients, n \in Notifiers : Holds(c, n) => mLockNotifier[n] = c

\* A destructor of each object, and only of living ones.
OneDestroyer ==
  \A c \in Clients, o \in Objects : Destroying(c, o) =>
    life[o] = "live" /\ \A d \in Clients : Destroying(d, o) => c = d

ObsoleteIffDestroyed ==
  \A o \in Objects :
    mbObsolete[o] <=> life[o] = "gone" \/ \E c \in Clients : Destroying(c, o)

RegisteringAlive ==
  \A c \in Clients : Doing(c, "register") =>
    life[op[c].o] = "live" /\ \A d \in Clients : ~Destroying(d, op[c].o)

\* Both lists say the same ...
Mutual ==
  \A n \in Notifiers, o \in Objects : o \in objectList[n] <=> n \in pmNotifierObjectList[o]

\* ... and no object is in one that is unborn or has purged the queue.
RegisteredAlive ==
  \A n \in Notifiers, o \in Objects : o \in objectList[n] => life[o] = "live" /\ ~Past(o)

TodoRegistered ==
  \A c \in Clients :
    /\ op[c].kind \in {"unregister", "notify", "push"} => op[c].todo \subseteq objectList[op[c].n]
    /\ Doing(c, "push") => op[c].o \in objectList[op[c].n]

Registered ==
  /\ NotifierLocked /\ OneDestroyer /\ ObsoleteIffDestroyed /\ RegisteringAlive
  /\ Mutual /\ RegisteredAlive /\ TodoRegistered

-----------------------------------------------------------------------------
\* The objects that the event thread counts.
Users == {o \in Objects : life[o] = "live" /\
            \A c \in Clients : At(c, "join") => op[c].o # o}

Counted ==
  /\ IsFiniteSet(Users) /\ mnbUses = Cardinality(Users)
  /\ \A c \in Clients : At(c, "join") => mLockLookup = c /\ mnbUses = 0
  /\ requestToExit \/ evtPc = "exited" => \E c \in Clients : At(c, "join")
  /\ mnbUses > 0 => evtPc \notin {"none", "exited"}

-----------------------------------------------------------------------------
QueueLeftAlone ==
  /\ \A i \in DOMAIN mEvtQueue : life[mEvtQueue[i].obj] # "unborn"
  /\ \A o \in Objects : reposts[o] = 0 /\ Past(o) =>
       \A i \in DOMAIN mEvtQueue : mEvtQueue[i].obj # o

\* The destructor that waits for the object's callback is not past that.
Waits(o) ==
  life[o] = "live" /\ \A c \in Clients : Destroying(c, o) => op[c].stage \in {"unregister", "spin"}

ThreadLeftAlone ==
  /\ Busy => life[item[1].obj] # "unborn"
  /\ evtPc \in {"call", "callback", "release"} => curr = item[1].obj
  /\ evtPc = "callback" => Waits(item[1].obj)

LeftAlone == QueueLeftAlone /\ ThreadLeftAlone

-----------------------------------------------------------------------------
\* The uses of event e: in queue q, by clients, by the thread.
Queued(q, e)  == {i \in DOMAIN q : q[i].evt = e}
Sends(x, e)   == x.kind \in {"notify", "push"} /\ x.e = e
Senders(e)    == {c \in Clients : Sends(op[c], e)}
ThreadUses(e) == IF Busy /\ item[1].evt = e THEN 1 ELSE 0

Uses(e) == Cardinality(Queued(mEvtQueue, e)) + Cardinality(Senders(e)) + ThreadUses(e)

\* The event has one sender at most, and is counted for each use.
Covered(e) ==
  /\ \A c, d \in Senders(e) : c = d
  /\ nbUses[e] >= Uses(e) \/ (nbUses[e] = -1 /\ Uses(e) = 0)

Referenced == \A e \in Events : Covered(e)

-----------------------------------------------------------------------------
\* Of the events s that were queued, x is one, and comes before y.
IsSent(s, x) == \E m \in DOMAIN s : s[m] = x
Before(s, x, y) == \E m, n \in DOMAIN s : m < n /\ s[m] = x /\ s[n] = y

\* The thread has taken an event for o that o has not got.
Taken(o) == evtPc \in {"set", "call"} /\ item[1].obj = o

AreSent(o) ==
  /\ \A i \in DOMAIN delivered[o] : IsSent(sent[o], delivered[o][i])
  /\ \A k \in DOMAIN mEvtQueue : mEvtQueue[k].obj = o => IsSent(sent[o], mEvtQueue[k].evt)
  /\ Busy /\ item[1].obj = o => IsSent(sent[o], item[1].evt)

InOrder(o) ==
  /\ \A i, j \in DOMAIN delivered[o] :
       i < j => Before(sent[o], delivered[o][i], delivered[o][j])
  /\ \A i \in DOMAIN delivered[o], k \in DOMAIN mEvtQueue :
       mEvtQueue[k].obj = o => Before(sent[o], delivered[o][i], mEvtQueue[k].evt)
  /\ \A k, l \in DOMAIN mEvtQueue :
       k < l /\ mEvtQueue[k].obj = o /\ mEvtQueue[l].obj = o
         => Before(sent[o], mEvtQueue[k].evt, mEvtQueue[l].evt)
  /\ Taken(o) =>
       /\ \A i \in DOMAIN delivered[o] : Before(sent[o], delivered[o][i], item[1].evt)
       /\ \A k \in DOMAIN mEvtQueue :
            mEvtQueue[k].obj = o => Before(sent[o], item[1].evt, mEvtQueue[k].evt)

Ordered == \A o \in Objects : AreSent(o) /\ (reposts[o] = 0 => InOrder(o))

\* The inductive invariant.
IInv == TypeInv /\ Registered /\ Counted /\ LeftAlone /\ Referenced /\ Ordered

-----------------------------------------------------------------------------
\* What a client does, by its kind.
LEMMA OpKind ==
  ASSUME NEW x \in Ops
  PROVE  /\ x.kind \in {"idle", "register", "unregister", "notify", "push", "destroy"}
         /\ x.kind = "idle" => x = Idle
         /\ x.kind = "register" => x \in Registers
         /\ x.kind = "unregister" => x \in Unregisters
         /\ x.kind = "notify" => x \in Notifies
         /\ x.kind = "push" => x \in Pushes
         /\ x.kind = "destroy" => x \in Destroys
BY DEF Ops, Idle, Registers, Unregisters, Notifies, Pushes, Destroys

\* A client goes on with fewer objects to do.
LEMMA TodoExcept ==
  ASSUME NEW x \in Unregisters \cup Notifies, NEW S
  PROVE  LET y == [x EXCEPT !.todo = S] IN
         /\ x \in Unregisters => y = [kind |-> "unregister", n |-> x.n, todo |-> S]
         /\ x \in Notifies => y = [kind |-> "notify", n |-> x.n, e |-> x.e, todo |-> S]
BY DEF Unregisters, Notifies

-----------------------------------------------------------------------------
\* The queue after a purge: kept are the positions of the events for other
\* objects, and the new queue has them in their order.
Kept(o) == {i \in DOMAIN mEvtQueue : mEvtQueue[i].obj # o}

\* Queue r has elements of q in their order, but for the one at position p.
Embeds(f, r, q, p) ==
  /\ f \in [DOMAIN r -> DOMAIN q \ {p}]
  /\ \A k \in DOMAIN r : r[k] = q[f[k]]
  /\ \A k, l \in DOMAIN r : k < l => f[k] < f[l]

\* Ranks of the members of a finite set of positions.
LEMMA Ranks ==
  ASSUME NEW n \in Nat, NEW S \in SUBSET (1 .. n)
  PROVE  /\ IsFiniteSet(S) /\ Cardinality(S) \in Nat
         /\ \A k \in 1 .. Cardinality(S) :
              \E i \in S : Cardinality({j \in S : j <= i}) = k
         /\ \A i, l \in S : i < l =>
              Cardinality({j \in S : j <= i}) < Cardinality({j \in S : j <= l})
<1> DEFINE Below(i) == {j \in S : j <= i}
           R == [i \in S |-> Cardinality(Below(i))]
           N == Cardinality(S)
<1>1. IsFiniteSet(S) /\ N \in Nat
  <2>1. IsFiniteSet(1 .. n)
    BY FS_Interval, 1 \in Int, n \in Int
  <2>2. IsFiniteSet(S)
    BY <2>1, FS_Subset
  <2> QED
    BY <2>2, FS_CardinalityType
<1>2. ASSUME NEW i \in S, NEW l \in S, i < l
      PROVE  Cardinality(Below(i)) < Cardinality(Below(l))
  <2>1. IsFiniteSet(Below(l))
    BY <1>1, FS_Subset, Below(l) \subseteq S
  <2>3. S \subseteq Int
    OBVIOUS
  <2>6. Below(i) \subseteq Below(l) /\ l \in Below(l) /\ l \notin Below(i)
    <3>1. i \in Int /\ l \in Int /\ ~(l <= i) /\ l <= l
      BY <1>2, <2>3
    <3>2. \A j \in S : j <= i => j <= l
      BY <1>2, <2>3
    <3> QED
      BY <3>1, <3>2
  <2> HIDE DEF Below
  <2>4. /\ IsFiniteSet(Below(i)) /\ Cardinality(Below(i)) <= Cardinality(Below(l))
        /\ Cardinality(Below(l)) = Cardinality(Below(i)) => Below(l) = Below(i)
    BY <2>1, <2>6, FS_Subset
  <2>5. Cardinality(Below(i)) \in Nat /\ Cardinality(Below(l)) \in Nat
    BY <2>1, <2>4, FS_CardinalityType
  <2> QED
    BY <2>6, <2>4, <2>5
<1>3. R \in [S -> 1 .. N]
  <2> SUFFICES ASSUME NEW i \in S PROVE Cardinality(Below(i)) \in 1 .. N
    OBVIOUS
  <2>1. i \in Below(i) /\ Below(i) \subseteq S
    OBVIOUS
  <2>2. IsFiniteSet(Below(i)) /\ Cardinality(Below(i)) \in Nat /\ Cardinality(Below(i)) <= N
    BY <1>1, <2>1, FS_Subset, FS_CardinalityType
  <2>3. Cardinality(Below(i)) # 0
    BY <2>1, <2>2, FS_EmptySet
  <2> QED
    BY <1>1, <2>2, <2>3
<1>4. R \in Injection(S, 1 .. N)
  <2>1. \A i, l \in S : i # l => R[i] # R[l]
    BY <1>2, <1>3
  <2> QED
    BY <1>3, <2>1 DEF Injection, IsInjective
<1>5. R \in Surjection(S, 1 .. N)
  <2>1. IsFiniteSet(1 .. N) /\ Cardinality(1 .. N) = N
    BY <1>1, FS_Interval
  <2> QED
    BY <1>1, <1>4, <2>1, FS_Injection
<1> QED
  BY <1>1, <1>2, <1>5 DEF Surjection

\* What a purge leaves.
LEMMA PurgedQueue ==
  ASSUME NEW o, mEvtQueue \in Seq(Records)
  PROVE  /\ Purged(o) \in Seq(Records)
         /\ \E f : Embeds(f, Purged(o), mEvtQueue, 0)
         /\ \A k \in DOMAIN Purged(o) : Purged(o)[k].obj # o
<1> DEFINE S == Kept(o)
           N == Cardinality(S)
           Kth(k) == CHOOSE i \in S : Cardinality({j \in S : j <= i}) = k
           f == [k \in 1 .. N |-> Kth(k)]
<1>1. Len(mEvtQueue) \in Nat /\ DOMAIN mEvtQueue = 1 .. Len(mEvtQueue)
      /\ \A i \in 1 .. Len(mEvtQueue) : mEvtQueue[i] \in Records
  BY LenProperties, ElementOfSeq
<1>2. S \in SUBSET (1 .. Len(mEvtQueue))
  BY <1>1 DEF Kept
<1>3. /\ IsFiniteSet(S) /\ N \in Nat
      /\ \A k \in 1 .. N : \E i \in S : Cardinality({j \in S : j <= i}) = k
      /\ \A i, l \in S : i < l =>
           Cardinality({j \in S : j <= i}) < Cardinality({j \in S : j <= l})
  BY <1>1, <1>2, Ranks
<1>4. \A k \in 1 .. N : Kth(k) \in S /\ Cardinality({j \in S : j <= Kth(k)}) = k
  BY <1>3
<1>5. Purged(o) = [k \in 1 .. N |-> mEvtQueue[Kth(k)]]
  BY Zenon DEF Purged, Kept
<1> HIDE DEF Kth
<1>6. \A k, l \in 1 .. N : k < l => Kth(k) < Kth(l)
  <2> TAKE k, l \in 1 .. N
  <2> HAVE k < l
  <2> DEFINE Rank(i) == Cardinality({j \in S : j <= i})
  <2>1. /\ Kth(k) \in S /\ Rank(Kth(k)) = k
        /\ Kth(l) \in S /\ Rank(Kth(l)) = l
    BY <1>4
  <2>2. Kth(k) \in Nat /\ Kth(l) \in Nat
    BY <1>2, <2>1
  <2>3. Kth(l) < Kth(k) => Rank(Kth(l)) < Rank(Kth(k))
    BY <1>3, <2>1
  <2> HIDE DEF Rank
  <2>4. k \in Nat /\ l \in Nat
    BY <1>3
  <2> QED
    BY <2>1, <2>2, <2>3, <2>4
<1>7. DOMAIN Purged(o) = 1 .. N /\ \A k \in 1 .. N : Purged(o)[k] = mEvtQueue[Kth(k)]
  BY <1>5
<1>8. Purged(o) \in Seq(Records)
  <2>1. \A k \in 1 .. N : mEvtQueue[Kth(k)] \in Records
    BY <1>1, <1>2, <1>4
  <2> QED
    BY <1>3, <1>5, <2>1, IsASeq
<1>9. \A k \in 1 .. N : Kth(k) \in DOMAIN mEvtQueue /\ Kth(k) # 0 /\ mEvtQueue[Kth(k)].obj # o
  <2>1. \A i \in S : i \in DOMAIN mEvtQueue /\ i # 0 /\ mEvtQueue[i].obj # o
    BY <1>1 DEF Kept
  <2> HIDE DEF S
  <2> QED
    BY <1>4, <2>1
<1>10. Embeds(f, Purged(o), mEvtQueue, 0)
  BY <1>6, <1>7, <1>9 DEF Embeds
<1> QED
  BY <1>7, <1>8, <1>9, <1>10

\* Queue r is queue q with another element, at position p.
Inserts(g, r, q, p) ==
  /\ p \in DOMAIN r
  /\ g \in [DOMAIN r \ {p} -> DOMAIN q]
  /\ \A k \in DOMAIN r \ {p} : r[k] = q[g[k]]
  /\ \A k, l \in DOMAIN r \ {p} : k < l => g[k] < g[l]

\* The queued uses of an event are finitely many.
LEMMA QueuedFinite ==
  ASSUME NEW q \in Seq(Records), NEW e
  PROVE  /\ IsFiniteSet(Queued(q, e)) /\ Cardinality(Queued(q, e)) \in Nat
         /\ Cardinality(Queued(q, e)) = 0 => \A i \in DOMAIN q : q[i].evt # e
<1>1. IsFiniteSet(1 .. Len(q)) /\ DOMAIN q = 1 .. Len(q)
  <2>1. Len(q) \in Int /\ DOMAIN q = 1 .. Len(q)
    BY LenProperties
  <2> QED
    BY <2>1, FS_Interval, 1 \in Int
<1>2. Queued(q, e) \subseteq 1 .. Len(q)
  BY <1>1 DEF Queued
<1>3. IsFiniteSet(Queued(q, e)) /\ Cardinality(Queued(q, e)) \in Nat
  BY <1>1, <1>2, FS_Subset, FS_CardinalityType
<1>4. Cardinality(Queued(q, e)) = 0 => Queued(q, e) = {}
  BY <1>3, FS_EmptySet
<1> QED
  BY <1>3, <1>4 DEF Queued

\* Without an element, the queue has no more uses of any event, and one less of
\* the event of that element.
LEMMA CountEmbedded ==
  ASSUME NEW q \in Seq(Records), NEW r \in Seq(Records), NEW p, NEW f, Embeds(f, r, q, p),
         NEW e
  PROVE  /\ Cardinality(Queued(r, e)) <= Cardinality(Queued(q, e))
         /\ p \in DOMAIN q /\ q[p].evt = e =>
              Cardinality(Queued(r, e)) <= Cardinality(Queued(q, e)) - 1
<1> DEFINE T == Queued(q, e) \ {p}
           g == [k \in Queued(r, e) |-> f[k]]
<1>1. /\ IsFiniteSet(Queued(q, e)) /\ Cardinality(Queued(q, e)) \in Nat
      /\ IsFiniteSet(Queued(r, e)) /\ Cardinality(Queued(r, e)) \in Nat
  BY QueuedFinite
<1>2. \A k \in Queued(r, e) : k \in DOMAIN r /\ f[k] \in T
  BY DEF Embeds, Queued
<1>3. DOMAIN r \subseteq Int
  BY LenProperties
<1>4. \A k, l \in Queued(r, e) : k # l => f[k] # f[l]
  <2> TAKE k, l \in Queued(r, e)
  <2> HAVE k # l
  <2>1. k \in DOMAIN r /\ l \in DOMAIN r /\ (k < l \/ l < k)
    BY <1>2, <1>3
  <2>2. f[k] < f[l] \/ f[l] < f[k]
    BY <2>1 DEF Embeds
  <2>3. f[k] \in Int /\ f[l] \in Int
    BY <2>1, LenProperties DEF Embeds
  <2> QED
    BY <2>2, <2>3
<1>5. g \in Injection(Queued(r, e), T)
  BY <1>2, <1>4 DEF Injection, IsInjective
<1>6. /\ IsFiniteSet(T) /\ Cardinality(T) \in Nat /\ Cardinality(T) <= Cardinality(Queued(q, e))
      /\ p \in Queued(q, e) => Cardinality(T) = Cardinality(Queued(q, e)) - 1
  <2>1. IsFiniteSet(T) /\ Cardinality(T) <= Cardinality(Queued(q, e))
    BY <1>1, FS_Subset
  <2>2. Cardinality(T) \in Nat
    BY <2>1, FS_CardinalityType
  <2>3. p \in Queued(q, e) => Cardinality(T) = Cardinality(Queued(q, e)) - 1
    BY <1>1, FS_RemoveElement
  <2> QED
    BY <2>1, <2>2, <2>3
<1>8. p \in DOMAIN q /\ q[p].evt = e => p \in Queued(q, e)
  BY DEF Queued
<1> HIDE DEF T, g
<1>7. Cardinality(Queued(r, e)) <= Cardinality(T)
  BY <1>5, <1>6, FS_Injection
<1> QED
  BY <1>1, <1>6, <1>7, <1>8

\* Another element is another use of its event.
LEMMA CountInserted ==
  ASSUME NEW q \in Seq(Records), NEW r \in Seq(Records), NEW p, NEW g, Inserts(g, r, q, p),
         NEW e
  PROVE  Cardinality(Queued(r, e)) <= Cardinality(Queued(q, e)) + (IF r[p].evt = e THEN 1 ELSE 0)
<1> DEFINE S == Queued(r, e) \ {p}
           h == [k \in S |-> g[k]]
<1>1. /\ IsFiniteSet(Queued(q, e)) /\ Cardinality(Queued(q, e)) \in Nat
      /\ IsFiniteSet(Queued(r, e)) /\ Cardinality(Queued(r, e)) \in Nat
  BY QueuedFinite
<1>2. \A k \in S : k \in DOMAIN r \ {p} /\ g[k] \in Queued(q, e)
  BY DEF Inserts, Queued
<1>3. DOMAIN r \subseteq Int
  BY LenProperties
<1>4. \A k, l \in S : k # l => g[k] # g[l]
  <2> TAKE k, l \in S
  <2> HAVE k # l
  <2>1. k \in DOMAIN r \ {p} /\ l \in DOMAIN r \ {p} /\ (k < l \/ l < k)
    BY <1>2, <1>3
  <2>2. g[k] < g[l] \/ g[l] < g[k]
    BY <2>1 DEF Inserts
  <2>3. g[k] \in Int /\ g[l] \in Int
    BY <2>1, LenProperties DEF Inserts
  <2> QED
    BY <2>2, <2>3
<1>5. h \in Injection(S, Queued(q, e))
  BY <1>2, <1>4 DEF Injection, IsInjective
<1>7. /\ p \in Queued(r, e) => Cardinality(S) = Cardinality(Queued(r, e)) - 1
      /\ p \notin Queued(r, e) => S = Queued(r, e)
  <2>1. p \in Queued(r, e) => Cardinality(S) = Cardinality(Queued(r, e)) - 1
    BY <1>1, FS_RemoveElement
  <2> QED
    BY <2>1
<1>8. p \in Queued(r, e) <=> r[p].evt = e
  BY DEF Queued, Inserts
<1>9. IsFiniteSet(S) /\ Cardinality(S) \in Nat
  BY <1>1, FS_Subset, FS_CardinalityType
<1> HIDE DEF S, h
<1>6. Cardinality(S) <= Cardinality(Queued(q, e))
  BY <1>1, <1>5, FS_Injection
<1> QED
  BY <1>1, <1>6, <1>7, <1>8, <1>9

\* The head of the queue is taken.
LEMMA TailEmbeds ==
  ASSUME NEW q \in Seq(Records), q # <<>>
  PROVE  /\ Tail(q) \in Seq(Records) /\ Head(q) \in Records /\ Head(q) = q[1]
         /\ 1 \in DOMAIN q
         /\ \E f : Embeds(f, Tail(q), q, 1)
         /\ \A k \in DOMAIN Tail(q) : \E m \in DOMAIN q : m > 1 /\ Tail(q)[k] = q[m]
<1> DEFINE f == [k \in DOMAIN Tail(q) |-> k + 1]
<1>1. /\ Len(q) \in Nat \ {0} /\ DOMAIN q = 1 .. Len(q)
      /\ DOMAIN Tail(q) = 1 .. Len(q) - 1
      /\ \A k \in 1 .. Len(q) - 1 : Tail(q)[k] = q[k + 1]
      /\ Tail(q) \in Seq(Records) /\ Head(q) \in Records /\ Head(q) = q[1]
  OBVIOUS
<1>2. \A k \in 1 .. Len(q) - 1 : k + 1 \in 1 .. Len(q) /\ k + 1 > 1 /\ k + 1 # 1
  BY <1>1
<1>3. Embeds(f, Tail(q), q, 1)
  BY <1>1, <1>2 DEF Embeds
<1>4. 1 \in DOMAIN q
  BY <1>1
<1> QED
  BY <1>1, <1>2, <1>3, <1>4

\* An element is taken out of the queue.
LEMMA RemoveAtEmbeds ==
  ASSUME NEW q \in Seq(Records), NEW i \in DOMAIN q
  PROVE  RemoveAt(q, i) \in Seq(Records) /\ \E f : Embeds(f, RemoveAt(q, i), q, i)
<1> DEFINE u == SubSeq(q, 1, i - 1)
           v == SubSeq(q, i + 1, Len(q))
           r == u \o v
           f == [k \in DOMAIN r |-> IF k < i THEN k ELSE k + 1]
<1>1. Len(q) \in Nat /\ DOMAIN q = 1 .. Len(q) /\ i \in 1 .. Len(q)
  BY LenProperties
<1>2. /\ u \in Seq(Records) /\ Len(u) = i - 1 /\ \A k \in 1 .. i - 1 : u[k] = q[k]
      /\ v \in Seq(Records) /\ Len(v) = Len(q) - i /\ \A k \in 1 .. Len(q) - i : v[k] = q[k + i]
  <2>1. u \in Seq(Records) /\ Len(u) = i - 1 /\ \A k \in 1 .. i - 1 : u[k] = q[k]
    BY <1>1
  <2>2. v \in Seq(Records) /\ Len(v) = Len(q) - i
    BY <1>1
  <2>3. \A k \in 1 .. Len(q) - i : v[k] = q[k + i]
    BY <1>1
  <2> QED
    BY <2>1, <2>2, <2>3
<1> HIDE DEF u, v
<1>3. r \in Seq(Records) /\ Len(r) = Len(q) - 1 /\ DOMAIN r = 1 .. Len(q) - 1
  <2>1. r \in Seq(Records) /\ Len(r) = Len(u) + Len(v)
    BY <1>2, ConcatProperties
  <2>2. Len(u) + Len(v) = Len(q) - 1
    BY <1>1, <1>2
  <2> HIDE DEF r
  <2> QED
    BY <2>1, <2>2, LenProperties
<1>4. \A k \in 1 .. Len(q) - 1 : r[k] = q[IF k < i THEN k ELSE k + 1]
  <2> TAKE k \in 1 .. Len(q) - 1
  <2>1. k \in 1 .. Len(u) + Len(v) /\ k \in Int /\ i \in Int
    BY <1>1, <1>2
  <2>2. r[k] = IF k <= Len(u) THEN u[k] ELSE v[k - Len(u)]
    BY <1>2, <2>1, ConcatProperties
  <2>3. CASE k < i
    <3>1. k <= Len(u) /\ k \in 1 .. i - 1
      BY <1>2, <2>1, <2>3
    <3> QED
      BY <1>2, <2>2, <2>3, <3>1
  <2>4. CASE ~(k < i)
    <3>1. ~(k <= Len(u)) /\ k - Len(u) \in 1 .. Len(q) - i /\ (k - Len(u)) + i = k + 1
      BY <1>1, <1>2, <2>1, <2>4
    <3> QED
      BY <1>2, <2>2, <2>4, <3>1
  <2> QED
    BY <2>3, <2>4
<1>5. \A k \in 1 .. Len(q) - 1 : (IF k < i THEN k ELSE k + 1) \in (1 .. Len(q)) \ {i}
  BY <1>1
<1>6. \A k, l \in 1 .. Len(q) - 1 :
        k < l => (IF k < i THEN k ELSE k + 1) < (IF l < i THEN l ELSE l + 1)
  BY <1>1
<1>7. Embeds(f, r, q, i)
  BY <1>1, <1>3, <1>4, <1>5, <1>6 DEF Embeds
<1>8. RemoveAt(q, i) = r
  BY DEF RemoveAt, u, v
<1> HIDE DEF r, f
<1> QED
  BY <1>3, <1>7, <1>8

\* An element is put behind the queue, or in front of it.
LEMMA EnqueueInserts ==
  ASSUME NEW q \in Seq(Records), NEW x \in Records
  PROVE  /\ Append(q, x) \in Seq(Records) /\ q \o <<x>> = Append(q, x)
         /\ \E g : Inserts(g, Append(q, x), q, Len(q) + 1)
         /\ Append(q, x)[Len(q) + 1] = x
         /\ <<x>> \o q \in Seq(Records)
         /\ \E g : Inserts(g, <<x>> \o q, q, 1)
         /\ (<<x>> \o q)[1] = x
<1> DEFINE n == Len(q)
           a == Append(q, x)
           b == <<x>> \o q
           g == [k \in 1 .. n |-> k]
           h == [k \in 2 .. n + 1 |-> k - 1]
<1>1. n \in Nat /\ DOMAIN q = 1 .. n
  BY LenProperties
<1>2. /\ a \in Seq(Records) /\ DOMAIN a = 1 .. n + 1 /\ a[n + 1] = x
      /\ \A k \in 1 .. n : a[k] = q[k]
      /\ q \o <<x>> = a
  BY AppendProperties, AppendIsConcat, LenProperties
<1>3. b \in Seq(Records) /\ DOMAIN b = 1 .. n + 1 /\ b[1] = x
      /\ \A k \in 2 .. n + 1 : b[k] = q[k - 1]
  <2>1. <<x>> \in Seq(Records) /\ Len(<<x>>) = 1 /\ <<x>>[1] = x
    OBVIOUS
  <2>2. /\ b \in Seq(Records) /\ Len(b) = 1 + n
        /\ \A k \in 1 .. 1 + n : b[k] = IF k <= 1 THEN <<x>>[k] ELSE q[k - 1]
    BY <2>1, ConcatProperties
  <2>3. DOMAIN b = 1 .. 1 + n
    BY <2>2, LenProperties
  <2>4. 1 \in 1 .. 1 + n /\ n + 1 = 1 + n
        /\ \A k \in 2 .. n + 1 : k \in 1 .. 1 + n /\ ~(k <= 1)
    BY <1>1
  <2> HIDE DEF b
  <2> QED
    BY <2>1, <2>2, <2>3, <2>4
<1> HIDE DEF a, b
<1>4. (1 .. n + 1) \ {n + 1} = 1 .. n /\ (1 .. n + 1) \ {1} = 2 .. n + 1
      /\ n + 1 \in 1 .. n + 1 /\ 1 \in 1 .. n + 1
  BY <1>1
<1>5. Inserts(g, a, q, n + 1)
  BY <1>1, <1>2, <1>4 DEF Inserts
<1>6. Inserts(h, b, q, 1)
  <2>1. \A k \in 2 .. n + 1 : k - 1 \in 1 .. n
    BY <1>1
  <2>2. \A k, l \in 2 .. n + 1 : k < l => k - 1 < l - 1
    BY <1>1
  <2> QED
    BY <1>1, <1>3, <1>4, <2>1, <2>2 DEF Inserts
<1> QED
  BY <1>2, <1>3, <1>5, <1>6 DEF a, b

\* Wherever it is put, the queue has one element more.
LEMMA PutInserts ==
  ASSUME NEW q \in Seq(Records), NEW x \in Records, NEW r,
         r = <<x>> \o q \/ r = q \o <<x>> \/ r = Append(q, x)
  PROVE  r \in Seq(Records) /\ \E g, p : Inserts(g, r, q, p) /\ r[p] = x
<1>1. CASE r = <<x>> \o q
  <2>1. r \in Seq(Records) /\ r[1] = x /\ \E g : Inserts(g, r, q, 1)
    BY <1>1, EnqueueInserts
  <2> QED
    BY <2>1
<1>2. CASE r = Append(q, x)
  <2>1. PICK n : n = Len(q) + 1
    OBVIOUS
  <2>2. r \in Seq(Records) /\ r[n] = x /\ \E g : Inserts(g, r, q, n)
    BY <1>2, <2>1, EnqueueInserts
  <2> QED
    BY <2>2
<1>3. q \o <<x>> = Append(q, x)
  BY EnqueueInserts
<1> QED
  BY <1>1, <1>2, <1>3

-----------------------------------------------------------------------------
\* The steps keep the types: the event thread's ...
LEMMA ThreadTypes ==
  ASSUME TypeInv, Evt \/ Handler
  PROVE  TypeInv'
<1> USE NotificationAssumption DEF EvtUnchanged, regs, locks, group, Busy
<1>1. /\ UNCHANGED <<life, mbObsolete, pmNotifierObjectList, objectList>>
      /\ UNCHANGED <<mLockNotifier, mLockHidden, mLockLookup, op, requestToExit, mnbUses, sent>>
  BY DEF Evt, Handler, EvtWake, EvtPop, EvtSet, EvtCall, EvtReturn, EvtRelease, RepostEvent,
         PopEvent
<1>2. requestToStart' \in BOOLEAN
  BY Zenon DEF Evt, Handler, EvtWake, EvtPop, EvtSet, EvtCall, EvtReturn, EvtRelease,
               RepostEvent, PopEvent, TypeInv
<1>3. evtPc' \in {"none", "wait", "pop", "set", "call", "callback", "release", "exited"}
  <2>1. CASE EvtWake
    BY <2>1 DEF EvtWake
  <2>2. CASE EvtPop
    BY <2>2 DEF EvtPop
  <2>3. CASE EvtSet \/ EvtReturn \/ EvtRelease
    BY <2>3 DEF EvtSet, EvtReturn, EvtRelease
  <2>4. CASE EvtCall
    BY <2>4 DEF EvtCall
  <2>5. CASE Handler
    BY <2>5 DEF Handler, RepostEvent, PopEvent, evt, TypeInv
  <2> QED
    BY <2>1, <2>2, <2>3, <2>4, <2>5 DEF Evt
<1>4. Busy' => item' \in [1 .. 1 -> Records]
  <2>1. CASE EvtWake
    BY <2>1 DEF EvtWake
  <2>2. CASE EvtPop
    <3>1. CASE mEvtQueue = <<>>
      BY <2>2, <3>1 DEF EvtPop
    <3>2. CASE mEvtQueue # <<>>
      <4>1. item' = <<Head(mEvtQueue)>> /\ Head(mEvtQueue) \in Records
        BY <2>2, <3>2, TailEmbeds DEF EvtPop, TypeInv
      <4> QED
        BY <4>1
    <3> QED
      BY <3>1, <3>2
  <2>3. CASE EvtSet \/ EvtReturn \/ EvtRelease
    BY <2>3 DEF EvtSet, EvtReturn, EvtRelease, TypeInv
  <2>4. CASE EvtCall
    BY <2>4 DEF EvtCall, TypeInv
  <2>5. CASE Handler
    BY <2>5 DEF Handler, RepostEvent, PopEvent, evt, TypeInv
  <2> QED
    BY <2>1, <2>2, <2>3, <2>4, <2>5 DEF Evt
<1>5. ASSUME Busy PROVE item[1] \in Records /\ item = <<item[1]>>
  <2>1. item \in [1 .. 1 -> Records]
    BY <1>5 DEF TypeInv
  <2> QED
    BY <2>1
<1>6. mEvtQueue' \in Seq(Records)
  <2>1. CASE EvtPop
    BY <2>1, TailEmbeds DEF EvtPop, TypeInv
  <2>2. ASSUME NEW b \in BOOLEAN, RepostEvent(b) PROVE mEvtQueue' \in Seq(Records)
    <3>1. PICK x \in Records : item = <<x>>
      BY <1>5, <2>2 DEF RepostEvent
    <3>2. mEvtQueue' = <<x>> \o mEvtQueue \/ mEvtQueue' = mEvtQueue \o <<x>>
      BY <2>2, <3>1 DEF RepostEvent
    <3>3. mEvtQueue \in Seq(Records)
      BY DEF TypeInv
    <3>4. <<x>> \o mEvtQueue \in Seq(Records) /\ mEvtQueue \o <<x>> \in Seq(Records)
      BY <3>3, EnqueueInserts
    <3> QED
      BY <3>2, <3>4
  <2>3. ASSUME NEW i \in DOMAIN mEvtQueue, PopEvent(i) PROVE mEvtQueue' \in Seq(Records)
    BY <2>3, RemoveAtEmbeds DEF PopEvent, TypeInv
  <2>4. CASE EvtWake \/ EvtSet \/ EvtCall \/ EvtReturn \/ EvtRelease
    BY <2>4 DEF EvtWake, EvtSet, EvtCall, EvtReturn, EvtRelease, TypeInv
  <2> QED
    BY <2>1, <2>2, <2>3, <2>4 DEF Evt, Handler
<1>7. curr' \in Objects \cup {NULL}
  <2>1. CASE EvtSet
    BY <1>5, <2>1 DEF EvtSet, Records
  <2>2. CASE EvtWake \/ EvtPop \/ EvtCall \/ EvtReturn \/ EvtRelease \/ Handler
    BY <2>2 DEF EvtWake, EvtPop, EvtCall, EvtReturn, EvtRelease, Handler, RepostEvent,
                PopEvent, evt, TypeInv
  <2> QED
    BY <2>1, <2>2 DEF Evt
<1>8. nbUses' \in [Events -> Int] /\ reposts' \in [Objects -> Nat]
  <2>1. nbUses \in [Events -> Int] /\ reposts \in [Objects -> Nat]
    BY DEF TypeInv
  <2>2. CASE Evt
    BY <2>1, <2>2 DEF Evt, EvtWake, EvtPop, EvtSet, EvtCall, EvtReturn, EvtRelease
  <2>3. CASE Handler
    BY <2>1, <2>3 DEF Handler, RepostEvent, PopEvent
  <2> QED
    BY <2>2, <2>3
<1>9. delivered' \in [Objects -> Seq(Events)]
  <2>1. delivered \in [Objects -> Seq(Events)]
    BY DEF TypeInv
  <2>2. CASE EvtCall
    <3>1. item[1].evt \in Events /\ item[1].obj \in Objects
      BY <1>5, <2>2 DEF EvtCall, Records
    <3>2. CASE delivered' = delivered
      BY <2>1, <3>2
    <3>3. CASE delivered' = [delivered EXCEPT ![item[1].obj] = Append(@, item[1].evt)]
      BY <2>1, <3>1, <3>3
    <3>4. \/ delivered' = delivered
          \/ delivered' = [delivered EXCEPT ![item[1].obj] = Append(@, item[1].evt)]
      <4>1. CASE mbObsolete[item[1].obj]
        BY <2>2, <4>1 DEF EvtCall
      <4>2. CASE ~mbObsolete[item[1].obj]
        BY <2>2, <4>2 DEF EvtCall
      <4> QED
        BY <4>1, <4>2
    <3> QED
      BY <3>2, <3>3, <3>4
  <2>3. CASE EvtWake \/ EvtPop \/ EvtSet \/ EvtReturn \/ EvtRelease \/ Handler
    BY <2>1, <2>3 DEF EvtWake, EvtPop, EvtSet, EvtReturn, EvtRelease, Handler, RepostEvent,
                PopEvent, evt
  <2> QED
    BY <2>2, <2>3 DEF Evt
<1> HIDE DEF Busy
<1> QED
  BY <1>1, <1>2, <1>3, <1>4, <1>6, <1>7, <1>8, <1>9 DEF TypeInv

\* An object that leaves the event thread is one of its users.
LEMMA LeaverCounted ==
  ASSUME TypeInv, Registered, Counted, NEW c \in Clients, At(c, "leave")
  PROVE  /\ op[c].o \in Objects /\ life[op[c].o] = "live" /\ op[c].o \in Users
         /\ \A d \in Clients : Destroying(d, op[c].o) => c = d
         /\ mnbUses \in Nat \ {0}
<1>1. op[c] \in Destroys
  BY OpKind DEF At, Doing, TypeInv
<1>2. Destroying(c, op[c].o) /\ op[c].o \in Objects /\ op[c].stage = "leave"
  BY <1>1 DEF Destroys, Destroying, Doing, At
<1>3. life[op[c].o] = "live" /\ \A d \in Clients : Destroying(d, op[c].o) => c = d
  BY <1>2 DEF Registered, OneDestroyer
<1>4. op[c].o \in Users
  <2>1. ASSUME NEW d \in Clients, At(d, "join"), op[d].o = op[c].o PROVE FALSE
    BY <1>2, <1>3, <2>1 DEF At, Destroying
  <2> QED
    BY <1>2, <1>3, <2>1 DEF Users
<1>5. mnbUses # 0
  BY <1>4, FS_EmptySet DEF Counted
<1> QED
  BY <1>2, <1>3, <1>4, <1>5 DEF TypeInv

\* ... and the clients'.
LEMMA ClientTypes ==
  ASSUME TypeInv, Registered, Counted, NEW c \in Clients, Begin(c) \/ Continue(c)
  PROVE  TypeInv'
<1> USE NotificationAssumption
    DEF regs, locks, queue, evt, group, Lock, Unlock, Become, Doing, At, Stage
<1>1. ASSUME NEW o \in Objects, Create(c, o) PROVE TypeInv'
  BY <1>1 DEF Create, Register, GetThread, AddRef, TypeInv, Busy
<1>2. ASSUME NEW o \in Objects, DestroyStart(c, o) PROVE TypeInv'
  BY <1>2 DEF DestroyStart, TypeInv, Busy, Ops, Destroys
<1>3. ASSUME NEW o \in Objects, PurgeEvents(c, o) PROVE TypeInv'
  BY <1>3, PurgedQueue DEF PurgeEvents, TypeInv, Busy
<1>4. ASSUME NEW n \in Notifiers, NEW o \in Objects, RegisterStart(c, n, o) PROVE TypeInv'
  BY <1>4 DEF RegisterStart, TypeInv, Busy, Ops, Registers
<1>5. ASSUME NEW n \in Notifiers, NEW S \in SUBSET Objects, UnregisterStart(c, n, S)
      PROVE  TypeInv'
  BY <1>5 DEF UnregisterStart, TypeInv, Busy, Ops, Unregisters
<1>6. ASSUME NEW n \in Notifiers, NEW e \in Events, NotifyStart(c, n, e) PROVE TypeInv'
  BY <1>6 DEF NotifyStart, TypeInv, Busy, Ops, Notifies
<1>7. ASSUME RegisterFinish(c) PROVE TypeInv'
  <2>1. op[c] \in Registers
    BY <1>7, OpKind DEF RegisterFinish, TypeInv
  <2> QED
    BY <1>7, <2>1 DEF RegisterFinish, Remember, TypeInv, Busy, Ops, Registers
<1>8. ASSUME UnregisterEnd(c) PROVE TypeInv'
  BY <1>8 DEF UnregisterEnd, TypeInv, Busy, Ops
<1>9. ASSUME NotifyPush(c) PROVE TypeInv'
  <2>1. op[c] \in Pushes
    BY <1>9, OpKind DEF NotifyPush, TypeInv
  <2>2. op[c].e \in Events /\ op[c].o \in Objects /\ op[c].n \in Notifiers
        /\ op[c].todo \in SUBSET Objects
    BY <2>1 DEF Pushes
  <2>3. mEvtQueue' \in Seq(Records)
    <3>1. [evt |-> op[c].e, obj |-> op[c].o] \in Records
      BY <2>2 DEF Records
    <3> QED
      BY <1>9, <3>1, EnqueueInserts DEF NotifyPush, Enqueued, TypeInv
  <2>4. nbUses' \in [Events -> Int]
    BY <1>9, <2>2 DEF NotifyPush, Enqueued, TypeInv
  <2>6. sent' \in [Objects -> Seq(Events)]
    <3>1. sent \in [Objects -> Seq(Events)] /\ sent' = [sent EXCEPT ![op[c].o] = Append(@, op[c].e)]
      BY <1>9 DEF NotifyPush, Enqueued, TypeInv
    <3> QED
      BY <2>2, <3>1
  <2>5. op' \in [Clients -> Ops]
    BY <1>9, <2>2 DEF NotifyPush, TypeInv, Ops, Notifies
  <2> QED
    BY <1>9, <2>3, <2>4, <2>5, <2>6 DEF NotifyPush, Enqueued, TypeInv, Busy
<1>10. ASSUME NotifyEnd(c) PROVE TypeInv'
  <2>1. op[c].e \in Events
    BY <1>10, OpKind DEF NotifyEnd, TypeInv, Notifies
  <2>2. nbUses' \in [Events -> Int]
    BY <1>10, <2>1 DEF NotifyEnd, TypeInv
  <2>3. op' \in [Clients -> Ops]
    BY <1>10 DEF NotifyEnd, TypeInv, Ops
  <2> QED
    BY <1>10, <2>2, <2>3 DEF NotifyEnd, TypeInv, Busy
<1>11. ASSUME NEW o \in Objects, UnregisterOne(c, o) PROVE TypeInv'
  <2>1. op[c] \in Unregisters
    BY <1>11, OpKind DEF UnregisterOne, TypeInv
  <2>2. op' \in [Clients -> Ops]
    <3>1. [op[c] EXCEPT !.todo = @ \ {o}] \in Unregisters
      BY <2>1 DEF Unregisters
    <3> QED
      BY <1>11, <3>1 DEF UnregisterOne, TypeInv, Ops
  <2>3. /\ objectList' \in [Notifiers -> SUBSET Objects]
        /\ pmNotifierObjectList' \in [Objects -> SUBSET Notifiers]
    BY <1>11, <2>1 DEF UnregisterOne, Forget, TypeInv, Unregisters
  <2> QED
    BY <1>11, <2>2, <2>3 DEF UnregisterOne, Forget, TypeInv, Busy
<1>12. ASSUME NEW o \in Objects, NotifyCheck(c, o) PROVE TypeInv'
  <2>1. op[c] \in Notifies
    BY <1>12, OpKind DEF NotifyCheck, TypeInv
  <2>2. op' \in [Clients -> Ops]
    <3>1. [op[c] EXCEPT !.todo = @ \ {o}] \in Ops
      BY <2>1 DEF Notifies, Ops
    <3>2. [kind |-> "push", n |-> op[c].n, e |-> op[c].e,
           todo |-> op[c].todo \ {o}, o |-> o] \in Ops
      BY <2>1 DEF Notifies, Ops, Pushes
    <3>3. \/ op' = [op EXCEPT ![c] = [op[c] EXCEPT !.todo = @ \ {o}]]
          \/ op' = [op EXCEPT ![c] = [kind |-> "push", n |-> op[c].n, e |-> op[c].e,
                                     todo |-> op[c].todo \ {o}, o |-> o]]
      BY <1>12, Zenon DEF NotifyCheck
    <3>4. op \in [Clients -> Ops]
      BY DEF TypeInv
    <3> QED
      BY <3>1, <3>2, <3>3, <3>4
  <2> QED
    BY <1>12, <2>2 DEF NotifyCheck, TypeInv, Busy
<1>13. ASSUME NEW n \in Notifiers, DestroyUnregister(c, n) PROVE TypeInv'
  <2>1. op[c] \in Destroys
    BY <1>13, OpKind DEF DestroyUnregister, TypeInv
  <2> QED
    BY <1>13, <2>1 DEF DestroyUnregister, Forget, TypeInv, Busy, Destroys
<1>14. ASSUME DestroyPurge(c) PROVE TypeInv'
  <2>1. op[c].o \in Objects
    BY <1>14, OpKind DEF DestroyPurge, TypeInv, Destroys
  <2>2. mEvtQueue' \in Seq(Records)
    BY <1>14, PurgedQueue DEF DestroyPurge, TypeInv
  <2> QED
    BY <1>14, <2>1, <2>2 DEF DestroyPurge, TypeInv, Busy, Ops, Destroys
<1>15. ASSUME DestroySpin(c) PROVE TypeInv'
  <2>1. op[c].o \in Objects
    BY <1>15, OpKind DEF DestroySpin, TypeInv, Destroys
  <2> QED
    BY <1>15, <2>1 DEF DestroySpin, TypeInv, Busy, Ops, Destroys
<1>16. ASSUME DestroyLeave(c) PROVE TypeInv'
  <2>1. op[c].o \in Objects /\ mnbUses \in Nat \ {0}
    BY <1>16, LeaverCounted DEF DestroyLeave
  <2>2. CASE mnbUses = 1
    <3>1. /\ mnbUses' = 0 /\ requestToExit' = TRUE /\ mLockLookup' = c /\ life' = life
          /\ op' = [op EXCEPT ![c] = [kind |-> "destroy", o |-> op[c].o, stage |-> "join"]]
      BY <1>16, <2>2 DEF DestroyLeave, Release
    <3>2. op' \in [Clients -> Ops]
      BY <2>1, <3>1 DEF TypeInv, Ops, Destroys
    <3> QED
      BY <1>16, <3>1, <3>2 DEF DestroyLeave, TypeInv, Busy
  <2>3. CASE mnbUses # 1
    <3>1. /\ mnbUses' \in Nat /\ requestToExit' = requestToExit /\ mLockLookup' = mLockLookup
          /\ life' = [life EXCEPT ![op[c].o] = "gone"]
          /\ op' = [op EXCEPT ![c] = Idle]
      BY <1>16, <2>1, <2>3 DEF DestroyLeave, Release, Unregister
    <3>2. op' \in [Clients -> Ops]
      BY <3>1 DEF TypeInv, Ops
    <3> QED
      BY <1>16, <3>1, <3>2 DEF DestroyLeave, TypeInv, Busy
  <2> QED
    BY <2>2, <2>3
<1>17. ASSUME DestroyJoin(c) PROVE TypeInv'
  <2>1. op[c].o \in Objects
    BY <1>17, OpKind DEF DestroyJoin, TypeInv, Destroys
  <2> QED
    <3>1. op' \in [Clients -> Ops] /\ life' \in [Objects -> {"unborn", "live", "gone"}]
      BY <1>17, <2>1 DEF DestroyJoin, Unregister, TypeInv, Ops
    <3>2. /\ mEvtQueue' = <<>> /\ evtPc' = "none" /\ mLockLookup' = NULL
          /\ requestToStart' = FALSE /\ requestToExit' = FALSE
      BY <1>17 DEF DestroyJoin
    <3>3. mEvtQueue' \in Seq(Records) /\ ~Busy'
      BY <3>2 DEF Busy
    <3> QED
      BY <1>17, <3>1, <3>2, <3>3 DEF DestroyJoin, TypeInv
<1> QED
  BY <1>1, <1>2, <1>3, <1>4, <1>5, <1>6, <1>7, <1>8, <1>9, <1>10, <1>11, <1>12, <1>13,
     <1>14, <1>15, <1>16, <1>17 DEF Begin, Continue

-----------------------------------------------------------------------------
\* Registrations: each action of a client, with what it can disturb.
LEMMA RegisteredSame ==
  ASSUME Registered, UNCHANGED <<regs, op, mLockNotifier>>
  PROVE  Registered'
BY DEF Registered, NotifierLocked, OneDestroyer, ObsoleteIffDestroyed, RegisteringAlive, Mutual,
       RegisteredAlive, TodoRegistered, Holds, Destroying, Doing, Past, regs

\* A new object is in no list.
LEMMA CreateKeepsRegistered ==
  ASSUME TypeInv, Registered, NEW c \in Clients, NEW o \in Objects, Create(c, o)
  PROVE  Registered'
<1>1. /\ life[o] = "unborn" /\ life' = [life EXCEPT ![o] = "live"]
      /\ UNCHANGED <<mbObsolete, pmNotifierObjectList, objectList, mLockNotifier, op>>
  BY DEF Create, Register, locks
<1>2. NotifierLocked' /\ Mutual' /\ TodoRegistered'
  BY <1>1 DEF Registered, NotifierLocked, Mutual, TodoRegistered, Holds, Doing
<1>3. \A p \in Objects : life'[p] = life[p] \/ (p = o /\ life'[p] = "live")
  BY <1>1 DEF TypeInv
<1>4. \A d \in Clients, p \in Objects : Destroying(d, p)' <=> Destroying(d, p)
  BY <1>1 DEF Destroying, Doing
<1>5. OneDestroyer'
  BY <1>1, <1>3, <1>4 DEF Registered, OneDestroyer
<1>6. ObsoleteIffDestroyed'
  BY <1>1, <1>3, <1>4 DEF Registered, ObsoleteIffDestroyed
<1>7. RegisteringAlive'
  BY <1>1, <1>3, <1>4 DEF Registered, RegisteringAlive, Doing, Destroying
<1>8. RegisteredAlive'
  BY <1>1, <1>3, <1>4 DEF Registered, RegisteredAlive, Past
<1> QED
  BY <1>2, <1>5, <1>6, <1>7, <1>8 DEF Registered

\* A client that does not destroy an object, and goes on with something else than
\* that.
LEMMA OtherWork ==
  ASSUME TypeInv, Registered, NEW c \in Clients, NEW w, op[c].kind # "destroy",
         w.kind # "destroy", op' = [op EXCEPT ![c] = w], UNCHANGED <<life, mbObsolete>>
  PROVE  /\ \A d \in Clients : op'[d] = IF d = c THEN w ELSE op[d]
         /\ \A d \in Clients : \A p : Destroying(d, p)' <=> Destroying(d, p)
         /\ \A p : Past(p)' <=> Past(p)
         /\ OneDestroyer' /\ ObsoleteIffDestroyed'
<1>1. \A d \in Clients : op'[d] = IF d = c THEN w ELSE op[d]
  BY DEF TypeInv
<1>2. \A d \in Clients : \A p : Destroying(d, p)' <=> Destroying(d, p)
  BY <1>1 DEF Destroying, Doing
<1>3. \A p : Past(p)' <=> Past(p)
  <2>1. \A d \in Clients : \A p : Destroying(d, p) => op'[d] = op[d]
    BY <1>1 DEF Destroying, Doing
  <2> QED
    BY <1>2, <2>1 DEF Past
<1>4. OneDestroyer' /\ ObsoleteIffDestroyed'
  BY <1>2 DEF Registered, OneDestroyer, ObsoleteIffDestroyed
<1> QED
  BY <1>1, <1>2, <1>3, <1>4

\* A client takes the notifier's lock to register an object ...
LEMMA RegisterStartKeepsRegistered ==
  ASSUME TypeInv, Registered, NEW c \in Clients, NEW n \in Notifiers, NEW o \in Objects,
         RegisterStart(c, n, o)
  PROVE  Registered'
<1> DEFINE w == [kind |-> "register", n |-> n, o |-> o]
<1>1. /\ op[c].kind = "idle" /\ mLockNotifier[n] = NULL
      /\ life[o] = "live" /\ \A d \in Clients : ~Destroying(d, o)
      /\ op' = [op EXCEPT ![c] = w]
      /\ mLockNotifier' = [mLockNotifier EXCEPT ![n] = c]
      /\ UNCHANGED <<life, mbObsolete, pmNotifierObjectList, objectList>>
  BY DEF RegisterStart, Doing, Become, Lock, Usable, Find, Destroying, regs
<1>2. /\ \A d \in Clients : op'[d] = IF d = c THEN w ELSE op[d]
      /\ \A d \in Clients : \A p : Destroying(d, p)' <=> Destroying(d, p)
      /\ \A p : Past(p)' <=> Past(p)
      /\ OneDestroyer' /\ ObsoleteIffDestroyed'
  BY <1>1, OtherWork
<1>4. NotifierLocked'
  <2>1. \A m \in Notifiers : mLockNotifier'[m] = IF m = n THEN c ELSE mLockNotifier[m]
    BY <1>1 DEF TypeInv
  <2>2. \A d \in Clients : NULL # d
    BY NotificationAssumption
  <2> QED
    BY <1>1, <1>2, <2>1, <2>2 DEF Registered, NotifierLocked, Holds
<1>5. Mutual' /\ RegisteredAlive'
  BY <1>1, <1>2 DEF Registered, Mutual, RegisteredAlive
<1>6. TodoRegistered'
  BY <1>1, <1>2 DEF Registered, TodoRegistered, Doing
<1>7. RegisteringAlive'
  BY <1>1, <1>2 DEF Registered, RegisteringAlive, Doing
<1> QED
  BY <1>2, <1>4, <1>5, <1>6, <1>7 DEF Registered

\* ... which goes into both lists, while it cannot be destroyed.
LEMMA RegisterFinishKeepsRegistered ==
  ASSUME TypeInv, Registered, NEW c \in Clients, RegisterFinish(c)
  PROVE  Registered'
<1> DEFINE n == op[c].n
           o == op[c].o
<1>1. n \in Notifiers /\ o \in Objects /\ op[c].kind = "register"
  BY OpKind DEF RegisterFinish, Doing, TypeInv, Registers
<1>2. /\ op' = [op EXCEPT ![c] = Idle]
      /\ mLockNotifier' = [mLockNotifier EXCEPT ![n] = NULL]
      /\ UNCHANGED <<life, mbObsolete>>
      /\ \A m \in Notifiers, p \in Objects :
           /\ p \in objectList'[m] <=> p \in objectList[m] \/ (m = n /\ p = o)
           /\ m \in pmNotifierObjectList'[p] <=> m \in pmNotifierObjectList[p] \/ (m = n /\ p = o)
  BY <1>1 DEF RegisterFinish, Become, Unlock, Remember, TypeInv
<1>3. /\ \A d \in Clients : op'[d] = IF d = c THEN Idle ELSE op[d]
      /\ \A d \in Clients : \A p : Destroying(d, p)' <=> Destroying(d, p)
      /\ \A p : Past(p)' <=> Past(p)
      /\ OneDestroyer' /\ ObsoleteIffDestroyed'
  BY <1>1, <1>2, OtherWork DEF Idle
<1>4. NotifierLocked'
  <2>1. \A m \in Notifiers : mLockNotifier'[m] = IF m = n THEN NULL ELSE mLockNotifier[m]
    BY <1>1, <1>2 DEF TypeInv
  <2>2. mLockNotifier[n] = c
    BY <1>1 DEF Registered, NotifierLocked, Holds
  <2>3. \A d \in Clients : d # c => ~Holds(d, n)
    BY <1>1, <2>2 DEF Registered, NotifierLocked
  <2> HIDE DEF n
  <2> QED
    BY <1>3, <2>1, <2>3 DEF Registered, NotifierLocked, Holds, Idle
<1>5. Mutual'
  BY <1>2 DEF Registered, Mutual
<1>6. life[o] = "live" /\ ~Past(o)
  BY <1>1 DEF Registered, RegisteringAlive, Past, Doing
<1>7. RegisteredAlive'
  BY <1>2, <1>3, <1>6 DEF Registered, RegisteredAlive
<1>8. TodoRegistered'
  <2> SUFFICES ASSUME NEW d \in Clients, op'[d].kind \in {"unregister", "notify", "push"}
               PROVE  /\ op'[d].todo \subseteq objectList'[op'[d].n]
                      /\ op'[d].kind = "push" => op'[d].o \in objectList'[op'[d].n]
    BY DEF TodoRegistered, Doing
  <2>1. op'[d] = op[d] /\ op[d] \in Unregisters \cup Notifies \cup Pushes
    <3>1. op'[d] = op[d] /\ op[d] \in Ops
      BY <1>3 DEF TypeInv, Idle
    <3> QED
      BY <3>1, OpKind
  <2>2. /\ op[d].n \in Notifiers /\ op[d].todo \in SUBSET Objects
        /\ op[d].kind = "push" => op[d].o \in Objects
    BY <2>1 DEF Unregisters, Notifies, Pushes
  <2>3. objectList[op[d].n] \subseteq objectList'[op[d].n]
    <3>1. objectList[op[d].n] \in SUBSET Objects
      BY <2>2 DEF TypeInv
    <3> HIDE DEF n, o
    <3> QED
      BY <1>2, <2>2, <3>1
  <2>4. /\ op[d].todo \subseteq objectList[op[d].n]
        /\ op[d].kind = "push" => op[d].o \in objectList[op[d].n]
    BY <2>1 DEF Registered, TodoRegistered, Doing
  <2> HIDE DEF n, o
  <2> QED
    BY <2>1, <2>3, <2>4
<1>9. RegisteringAlive'
  BY <1>2, <1>3 DEF Registered, RegisteringAlive, Doing, Idle
<1> QED
  BY <1>3, <1>4, <1>5, <1>7, <1>8, <1>9 DEF Registered

\* Clients that hold a notifier's lock, or not any more, and change no list.
LEMMA LockStepsKeepRegistered ==
  ASSUME TypeInv, Registered, NEW c \in Clients, NEW n \in Notifiers, NEW w \in Ops,
         op[c].kind # "destroy", w.kind \in {"idle", "unregister", "notify", "push"},
         op' = [op EXCEPT ![c] = w],
         w.kind # "idle" => w.n = n /\ w.todo \subseteq objectList[n],
         w.kind = "push" => w.o \in objectList[n],
         mLockNotifier[n] = NULL \/ Holds(c, n),
         op[c].kind = "idle" \/ Holds(c, n),
         mLockNotifier' = [mLockNotifier EXCEPT ![n] = IF w.kind = "idle" THEN NULL ELSE c],
         UNCHANGED regs
  PROVE  Registered'
<1>1. UNCHANGED <<life, mbObsolete, pmNotifierObjectList, objectList>>
  BY DEF regs
<1>2. /\ \A d \in Clients : op'[d] = IF d = c THEN w ELSE op[d]
      /\ \A d \in Clients : \A p : Destroying(d, p)' <=> Destroying(d, p)
      /\ \A p : Past(p)' <=> Past(p)
      /\ OneDestroyer' /\ ObsoleteIffDestroyed'
  BY <1>1, OtherWork
<1>3. NotifierLocked'
  <2>1. \A m \in Notifiers : mLockNotifier'[m] =
          IF m = n THEN (IF w.kind = "idle" THEN NULL ELSE c) ELSE mLockNotifier[m]
    BY DEF TypeInv
  <2>2. \A d \in Clients : d # c => ~Holds(d, n)
    BY NotificationAssumption DEF Registered, NotifierLocked
  <2> QED
    BY <1>2, <2>1, <2>2 DEF Registered, NotifierLocked, Holds
<1>4. Mutual' /\ RegisteredAlive'
  BY <1>1, <1>2 DEF Registered, Mutual, RegisteredAlive
<1>5. TodoRegistered'
  BY <1>1, <1>2 DEF Registered, TodoRegistered, Doing
<1>6. RegisteringAlive'
  BY <1>1, <1>2 DEF Registered, RegisteringAlive, Doing
<1> QED
  BY <1>2, <1>3, <1>4, <1>5, <1>6 DEF Registered

\* Calls of Notify, and of Unregister before and after the objects.
LEMMA NotifyKeepsRegistered ==
  ASSUME TypeInv, Registered, NEW c \in Clients,
         \/ \E n \in Notifiers, S \in SUBSET Objects : UnregisterStart(c, n, S)
         \/ \E n \in Notifiers, e \in Events : NotifyStart(c, n, e)
         \/ \E o \in Objects : NotifyCheck(c, o)
         \/ NotifyPush(c) \/ NotifyEnd(c) \/ UnregisterEnd(c)
  PROVE  Registered'
<1> USE DEF Doing, Become, Lock, Unlock, regs, locks
<1>1. ASSUME NEW n \in Notifiers, NEW S \in SUBSET Objects, UnregisterStart(c, n, S)
      PROVE  Registered'
  <2> DEFINE w == [kind |-> "unregister", n |-> n, todo |-> S]
  <2>1. w \in Ops
    BY DEF Ops, Unregisters
  <2> QED
    BY <1>1, <2>1, LockStepsKeepRegistered DEF UnregisterStart
<1>2. ASSUME NEW n \in Notifiers, NEW e \in Events, NotifyStart(c, n, e)
      PROVE  Registered'
  <2> DEFINE w == [kind |-> "notify", n |-> n, e |-> e, todo |-> objectList[n]]
  <2>1. w \in Ops
    BY DEF Ops, Notifies, TypeInv
  <2> QED
    BY <1>2, <2>1, LockStepsKeepRegistered DEF NotifyStart
<1>3. ASSUME NEW o \in Objects, NotifyCheck(c, o) PROVE Registered'
  <2> DEFINE v == [op[c] EXCEPT !.todo = @ \ {o}]
             w == [kind |-> "push", n |-> op[c].n, e |-> op[c].e,
                   todo |-> op[c].todo \ {o}, o |-> o]
  <2>1. /\ op[c] \in Notifies /\ op[c].kind = "notify" /\ o \in op[c].todo
        /\ UNCHANGED <<regs, mLockNotifier>>
    BY <1>3, OpKind DEF NotifyCheck, TypeInv
  <2>2. /\ op[c].n \in Notifiers /\ op[c].e \in Events /\ op[c].todo \in SUBSET Objects
        /\ op[c].todo \subseteq objectList[op[c].n] /\ Holds(c, op[c].n)
    BY <2>1 DEF Notifies, Registered, TodoRegistered, Holds
  <2>3. v = [kind |-> "notify", n |-> op[c].n, e |-> op[c].e, todo |-> op[c].todo \ {o}]
    BY <2>1, TodoExcept
  <2>4. v \in Ops /\ w \in Ops
    BY <2>2, <2>3 DEF Ops, Notifies, Pushes
  <2>5. op' = [op EXCEPT ![c] = v] \/ op' = [op EXCEPT ![c] = w]
    <3>1. CASE mbObsolete[o]
      BY <1>3, <3>1 DEF NotifyCheck
    <3>2. CASE ~mbObsolete[o]
      BY <1>3, <3>2 DEF NotifyCheck
    <3> QED
      BY <3>1, <3>2
  <2>6. mLockNotifier[op[c].n] = c /\ mLockNotifier' = [mLockNotifier EXCEPT ![op[c].n] = c]
    BY <2>1, <2>2 DEF Registered, NotifierLocked, TypeInv
  <2>7. CASE op' = [op EXCEPT ![c] = v]
    BY <2>1, <2>2, <2>3, <2>4, <2>6, <2>7, LockStepsKeepRegistered
  <2>8. CASE op' = [op EXCEPT ![c] = w]
    BY <2>1, <2>2, <2>4, <2>6, <2>8, LockStepsKeepRegistered
  <2> QED
    BY <2>5, <2>7, <2>8
<1>4. ASSUME NotifyPush(c) PROVE Registered'
  <2> DEFINE w == [kind |-> "notify", n |-> op[c].n, e |-> op[c].e, todo |-> op[c].todo]
  <2>1. /\ op[c] \in Pushes /\ op[c].kind = "push" /\ op' = [op EXCEPT ![c] = w]
        /\ UNCHANGED <<regs, mLockNotifier>>
    BY <1>4, OpKind DEF NotifyPush, TypeInv
  <2>2. /\ op[c].n \in Notifiers /\ op[c].e \in Events /\ op[c].todo \in SUBSET Objects
        /\ op[c].todo \subseteq objectList[op[c].n] /\ Holds(c, op[c].n)
    BY <2>1 DEF Pushes, Registered, TodoRegistered, Holds
  <2>3. w \in Ops
    BY <2>2 DEF Ops, Notifies
  <2>4. mLockNotifier[op[c].n] = c /\ mLockNotifier' = [mLockNotifier EXCEPT ![op[c].n] = c]
    BY <2>1, <2>2 DEF Registered, NotifierLocked, TypeInv
  <2> QED
    BY <2>1, <2>2, <2>3, <2>4, LockStepsKeepRegistered
<1>5. ASSUME NotifyEnd(c) \/ UnregisterEnd(c) PROVE Registered'
  <2>1. /\ op[c].kind \in {"notify", "unregister"} /\ op[c] \in Notifies \cup Unregisters
        /\ op' = [op EXCEPT ![c] = Idle] /\ UNCHANGED regs
        /\ mLockNotifier' = [mLockNotifier EXCEPT ![op[c].n] = NULL]
    BY <1>5, OpKind DEF NotifyEnd, UnregisterEnd, TypeInv
  <2>2. op[c].n \in Notifiers /\ Holds(c, op[c].n)
    BY <2>1 DEF Notifies, Unregisters, Holds
  <2>3. Idle \in Ops /\ Idle.kind = "idle"
    BY DEF Ops, Idle
  <2> QED
    BY <2>1, <2>2, <2>3, LockStepsKeepRegistered
<1> QED
  BY <1>1, <1>2, <1>3, <1>4, <1>5

\* An object goes out of both lists.
LEMMA UnregisterOneKeepsRegistered ==
  ASSUME TypeInv, Registered, NEW c \in Clients, NEW o \in Objects, UnregisterOne(c, o)
  PROVE  Registered'
<1> DEFINE n == op[c].n
           w == [kind |-> "unregister", n |-> n, todo |-> op[c].todo \ {o}]
<1>1. /\ op[c] \in Unregisters /\ op[c].kind = "unregister" /\ o \in op[c].todo
      /\ UNCHANGED <<life, mbObsolete, mLockNotifier>>
  BY OpKind DEF UnregisterOne, Doing, Forget, locks, TypeInv
<1>2. n \in Notifiers /\ Holds(c, n) /\ op[c].todo \subseteq objectList[n]
  BY <1>1 DEF Unregisters, Registered, TodoRegistered, Holds
<1>3. op' = [op EXCEPT ![c] = w]
  BY <1>1, TodoExcept DEF UnregisterOne, Become
<1>4. \A m \in Notifiers, p \in Objects :
        /\ p \in objectList'[m] <=> p \in objectList[m] /\ ~(m = n /\ p = o)
        /\ m \in pmNotifierObjectList'[p] <=> m \in pmNotifierObjectList[p] /\ ~(m = n /\ p = o)
  BY <1>2 DEF UnregisterOne, Forget, TypeInv
<1> HIDE DEF n
<1>5. /\ \A d \in Clients : op'[d] = IF d = c THEN w ELSE op[d]
      /\ \A d \in Clients : \A p : Destroying(d, p)' <=> Destroying(d, p)
      /\ \A p : Past(p)' <=> Past(p)
      /\ OneDestroyer' /\ ObsoleteIffDestroyed'
  BY <1>1, <1>3, OtherWork
<1>6. NotifierLocked'
  BY <1>1, <1>2, <1>5 DEF Registered, NotifierLocked, Holds
<1>7. Mutual' /\ RegisteredAlive'
  BY <1>1, <1>4, <1>5 DEF Registered, Mutual, RegisteredAlive
<1>8. TodoRegistered'
  <2> SUFFICES ASSUME NEW d \in Clients, op'[d].kind \in {"unregister", "notify", "push"}
               PROVE  /\ op'[d].todo \subseteq objectList'[op'[d].n]
                      /\ op'[d].kind = "push" => op'[d].o \in objectList'[op'[d].n]
    BY DEF TodoRegistered, Doing
  <2>1. objectList[n] \subseteq Objects
    BY <1>2 DEF TypeInv
  <2>2. CASE d = c
    <3>1. \A p \in op[c].todo \ {o} : p \in objectList'[n]
      BY <1>2, <1>4, <2>1
    <3> QED
      BY <1>5, <2>2, <3>1
  <2>3. CASE d # c
    <3>1. op'[d] = op[d] /\ op[d] \in Unregisters \cup Notifies \cup Pushes
      BY <1>5, <2>3, OpKind DEF TypeInv
    <3>2. /\ op[d].n \in Notifiers /\ op[d].todo \in SUBSET Objects
          /\ op[d].kind = "push" => op[d].o \in Objects
          /\ Holds(d, op[d].n)
      BY <3>1 DEF Unregisters, Notifies, Pushes, Holds
    <3>3. op[d].n # n
      BY <1>2, <2>3, <3>2 DEF Registered, NotifierLocked
    <3>4. \A p \in Objects : p \in objectList[op[d].n] => p \in objectList'[op[d].n]
      BY <1>4, <3>2, <3>3
    <3>5. /\ op[d].todo \subseteq objectList[op[d].n]
          /\ op[d].kind = "push" => op[d].o \in objectList[op[d].n]
      BY <3>1 DEF Registered, TodoRegistered, Doing
    <3> QED
      BY <3>1, <3>2, <3>4, <3>5
  <2> QED
    BY <2>2, <2>3
<1>9. RegisteringAlive'
  BY <1>1, <1>5 DEF Registered, RegisteringAlive, Doing
<1> QED
  BY <1>5, <1>6, <1>7, <1>8, <1>9 DEF Registered

\* The destructor of an object begins ...
LEMMA DestroyStartKeepsRegistered ==
  ASSUME TypeInv, Registered, NEW c \in Clients, NEW o \in Objects, DestroyStart(c, o)
  PROVE  Registered'
<1> DEFINE w == [kind |-> "destroy", o |-> o, stage |-> "unregister"]
<1>1. /\ op[c].kind = "idle" /\ life[o] = "live"
      /\ \A d \in Clients : ~Destroying(d, o)
      /\ \A d \in Clients : op[d].kind = "register" => op[d].o # o
      /\ op' = [op EXCEPT ![c] = w]
      /\ mbObsolete' = [mbObsolete EXCEPT ![o] = TRUE]
      /\ UNCHANGED <<life, pmNotifierObjectList, objectList, mLockNotifier>>
  BY DEF DestroyStart, Usable, Find, Doing, Destroying, Stage, Become
<1>2. \A d \in Clients : op'[d] = IF d = c THEN w ELSE op[d]
  BY <1>1 DEF TypeInv
<1>3. \A d \in Clients : \A p : Destroying(d, p)' <=> Destroying(d, p) \/ (d = c /\ p = o)
  BY <1>1, <1>2 DEF Destroying, Doing
<1>4. \A p : Past(p)' <=> Past(p)
  <2>1. \A d \in Clients : \A p : Destroying(d, p) => op'[d] = op[d]
    BY <1>1, <1>2 DEF Destroying, Doing
  <2>2. op'[c].stage = "unregister"
    BY <1>2
  <2> QED
    BY <1>1, <1>3, <2>1, <2>2 DEF Past
<1>5. NotifierLocked' /\ TodoRegistered'
  BY <1>1, <1>2 DEF Registered, NotifierLocked, TodoRegistered, Holds, Doing
<1>6. OneDestroyer'
  BY <1>1, <1>3 DEF Registered, OneDestroyer
<1>7. ObsoleteIffDestroyed'
  <2> SUFFICES ASSUME NEW p \in Objects
               PROVE  mbObsolete'[p] <=>
                        life'[p] = "gone" \/ \E d \in Clients : Destroying(d, p)'
    BY DEF ObsoleteIffDestroyed
  <2>1. CASE p = o
    <3>1. mbObsolete'[o]
      BY <1>1 DEF TypeInv
    <3> QED
      BY <1>3, <2>1, <3>1
  <2>2. CASE p # o
    <3>1. mbObsolete'[p] <=> mbObsolete[p]
      BY <1>1, <2>2 DEF TypeInv
    <3> QED
      BY <1>1, <1>3, <2>2, <3>1 DEF Registered, ObsoleteIffDestroyed
  <2> QED
    BY <2>1, <2>2
<1>8. RegisteringAlive'
  BY <1>1, <1>2, <1>3 DEF Registered, RegisteringAlive, Doing
<1>9. Mutual' /\ RegisteredAlive'
  BY <1>1, <1>4 DEF Registered, Mutual, RegisteredAlive
<1> QED
  BY <1>5, <1>6, <1>7, <1>8, <1>9 DEF Registered

\* ... takes the object out of the lists ...
LEMMA DestroyUnregisterKeepsRegistered ==
  ASSUME TypeInv, Registered, NEW c \in Clients, NEW n \in Notifiers, DestroyUnregister(c, n)
  PROVE  Registered'
<1> DEFINE o == op[c].o
<1>1. /\ op[c] \in Destroys /\ mLockNotifier[n] = NULL
      /\ UNCHANGED <<life, mbObsolete, mLockNotifier, op>>
  BY OpKind DEF DestroyUnregister, At, Doing, Forget, locks, TypeInv
<1>2. o \in Objects
  BY <1>1 DEF Destroys
<1>3. \A m \in Notifiers, p \in Objects :
        /\ p \in objectList'[m] <=> p \in objectList[m] /\ ~(m = n /\ p = o)
        /\ m \in pmNotifierObjectList'[p] <=> m \in pmNotifierObjectList[p] /\ ~(m = n /\ p = o)
  BY <1>2 DEF DestroyUnregister, Forget, TypeInv
<1> HIDE DEF o
<1>4. NotifierLocked' /\ OneDestroyer' /\ ObsoleteIffDestroyed' /\ RegisteringAlive'
  BY <1>1 DEF Registered, NotifierLocked, OneDestroyer, ObsoleteIffDestroyed, RegisteringAlive,
              Holds, Destroying, Doing
<1>5. Mutual'
  BY <1>3 DEF Registered, Mutual
<1>6. RegisteredAlive'
  BY <1>1, <1>3 DEF Registered, RegisteredAlive, Past, Destroying, Doing
<1>7. TodoRegistered'
  <2> SUFFICES ASSUME NEW d \in Clients, op[d].kind \in {"unregister", "notify", "push"}
               PROVE  /\ op[d].todo \subseteq objectList'[op[d].n]
                      /\ op[d].kind = "push" => op[d].o \in objectList'[op[d].n]
    BY <1>1 DEF TodoRegistered, Doing
  <2>1. op[d] \in Unregisters \cup Notifies \cup Pushes
    BY OpKind DEF TypeInv
  <2>2. /\ op[d].n \in Notifiers /\ op[d].todo \in SUBSET Objects
        /\ op[d].kind = "push" => op[d].o \in Objects
        /\ Holds(d, op[d].n)
    BY <2>1 DEF Unregisters, Notifies, Pushes, Holds
  <2>3. op[d].n # n
    BY <1>1, <2>2, NotificationAssumption DEF Registered, NotifierLocked
  <2>4. \A p \in Objects : p \in objectList[op[d].n] => p \in objectList'[op[d].n]
    BY <1>3, <2>2, <2>3
  <2>5. /\ op[d].todo \subseteq objectList[op[d].n]
        /\ op[d].kind = "push" => op[d].o \in objectList[op[d].n]
    BY DEF Registered, TodoRegistered, Doing
  <2> QED
    BY <2>2, <2>4, <2>5
<1> QED
  BY <1>4, <1>5, <1>6, <1>7 DEF Registered

\* ... and goes on, when it is in none.
LEMMA StagesKeepRegistered ==
  ASSUME TypeInv, Registered, NEW c \in Clients, NEW stage \in {"spin", "leave", "join"},
         Doing(c, "destroy"),
         op[c].stage = "unregister" => pmNotifierObjectList[op[c].o] = {},
         op' = [op EXCEPT ![c] = [kind |-> "destroy", o |-> op[c].o, stage |-> stage]],
         UNCHANGED <<regs, mLockNotifier>>
  PROVE  Registered'
<1> DEFINE o == op[c].o
           w == [kind |-> "destroy", o |-> o, stage |-> stage]
<1>1. UNCHANGED <<life, mbObsolete, pmNotifierObjectList, objectList, mLockNotifier>>
  BY DEF regs
<1>2. \A d \in Clients : op'[d] = IF d = c THEN w ELSE op[d]
  BY DEF TypeInv
<1>3. \A d \in Clients : \A p : Destroying(d, p)' <=> Destroying(d, p)
  BY <1>2 DEF Destroying, Doing
<1>4. op[c] \in Destroys /\ o \in Objects
  BY OpKind DEF Doing, TypeInv, Destroys
<1>5. \A n \in Notifiers : o \notin objectList[n]
  <2>1. CASE op[c].stage = "unregister"
    BY <1>4, <2>1 DEF Registered, Mutual
  <2>2. CASE op[c].stage # "unregister"
    <3>1. Past(o)
      BY <2>2 DEF Past, Destroying
    <3> QED
      BY <1>4, <3>1 DEF Registered, RegisteredAlive
  <2> QED
    BY <2>1, <2>2
<1>6. NotifierLocked' /\ TodoRegistered'
  BY <1>1, <1>2 DEF Registered, NotifierLocked, TodoRegistered, Holds, Doing
<1>7. OneDestroyer' /\ ObsoleteIffDestroyed'
  BY <1>1, <1>3 DEF Registered, OneDestroyer, ObsoleteIffDestroyed
<1>8. RegisteringAlive'
  BY <1>1, <1>2, <1>3 DEF Registered, RegisteringAlive, Doing
<1>9. Mutual'
  BY <1>1 DEF Registered, Mutual
<1>10. RegisteredAlive'
  <2> SUFFICES ASSUME NEW n \in Notifiers, NEW p \in Objects, p \in objectList[n]
               PROVE  life[p] = "live" /\ ~Past(p)'
    BY <1>1 DEF RegisteredAlive
  <2>1. p # o /\ life[p] = "live" /\ ~Past(p)
    BY <1>5 DEF Registered, RegisteredAlive
  <2>2. ASSUME NEW d \in Clients, Destroying(d, p)' PROVE op'[d].stage = "unregister"
    <3>1. Destroying(d, p)
      BY <1>3, <2>2
    <3>2. d # c
      BY <2>1, <3>1 DEF Destroying
    <3> QED
      BY <1>2, <2>1, <3>1, <3>2 DEF Past
  <2> QED
    BY <1>1, <2>1, <2>2 DEF Past
<1> QED
  BY <1>6, <1>7, <1>8, <1>9, <1>10 DEF Registered

\* An object that is destroyed is gone.
LEMMA GoneKeepsRegistered ==
  ASSUME TypeInv, Registered, NEW c \in Clients, Doing(c, "destroy"),
         op[c].stage # "unregister",
         op' = [op EXCEPT ![c] = Idle], life' = [life EXCEPT ![op[c].o] = "gone"],
         UNCHANGED <<mbObsolete, pmNotifierObjectList, objectList, mLockNotifier>>
  PROVE  Registered'
<1> DEFINE o == op[c].o
<1>1. \A d \in Clients : op'[d] = IF d = c THEN Idle ELSE op[d]
  BY DEF TypeInv
<1>2. o \in Objects /\ Past(o) /\ Destroying(c, o)
  BY OpKind DEF Doing, TypeInv, Destroys, Past, Destroying
<1>3. \A p \in Objects : life'[p] = IF p = o THEN "gone" ELSE life[p]
  BY DEF TypeInv
<1>4. \A d \in Clients : \A p : Destroying(d, p)' <=> Destroying(d, p) /\ d # c
  BY <1>1 DEF Destroying, Doing, Idle
<1>5. \A d \in Clients : Destroying(d, o) => d = c
  BY <1>2 DEF Registered, OneDestroyer
<1>6. \A p \in Objects : p # o => ~Destroying(c, p)
  BY DEF Destroying
<1> HIDE DEF o
<1>7. NotifierLocked' /\ TodoRegistered'
  BY <1>1 DEF Registered, NotifierLocked, TodoRegistered, Holds, Doing, Idle
<1>8. OneDestroyer'
  BY <1>3, <1>4, <1>5 DEF Registered, OneDestroyer
<1>9. ObsoleteIffDestroyed'
  BY <1>2, <1>3, <1>4, <1>6 DEF Registered, ObsoleteIffDestroyed
<1>10. RegisteringAlive'
  <2> SUFFICES ASSUME NEW d \in Clients, op'[d].kind = "register"
               PROVE  (/\ life[op[d].o] = "live"
                       /\ \A e \in Clients : ~Destroying(e, op[d].o))'
    BY DEF RegisteringAlive, Doing
  <2>1. op'[d] = op[d] /\ op[d] \in Registers
    <3>1. op'[d] = op[d] /\ op[d] \in Ops
      BY <1>1 DEF TypeInv, Idle
    <3> QED
      BY <3>1, OpKind
  <2>2. /\ op[d].o \in Objects /\ life[op[d].o] = "live"
        /\ \A e \in Clients : ~Destroying(e, op[d].o)
    BY <2>1 DEF Registers, Registered, RegisteringAlive, Doing
  <2>3. op[d].o # o
    BY <1>2, <2>2
  <2>4. \A e \in Clients : ~Destroying(e, op[d].o)'
    <3> TAKE e \in Clients
    <3>1. Destroying(e, op[d].o)' => op'[e] = op[e]
      BY <1>1 DEF Destroying, Doing, Idle
    <3> QED
      BY <2>1, <2>2, <3>1 DEF Destroying, Doing
  <2> QED
    BY <1>3, <2>1, <2>2, <2>3, <2>4
<1>11. Mutual'
  BY DEF Registered, Mutual
<1>12. RegisteredAlive'
  <2> SUFFICES ASSUME NEW n \in Notifiers, NEW p \in Objects, p \in objectList[n]
               PROVE  life'[p] = "live" /\ ~Past(p)'
    BY DEF RegisteredAlive
  <2>1. p # o /\ life[p] = "live" /\ ~Past(p)
    BY <1>2 DEF Registered, RegisteredAlive
  <2> QED
    BY <1>1, <1>3, <1>4, <2>1 DEF Past
<1> QED
  BY <1>7, <1>8, <1>9, <1>10, <1>11, <1>12 DEF Registered

\* Every step keeps the registrations.
LEMMA RegisteredKept ==
  ASSUME TypeInv, Registered, [Next]_vars
  PROVE  Registered'
<1>1. CASE UNCHANGED vars
  BY <1>1, RegisteredSame DEF vars, locks
<1>2. CASE Evt \/ Handler
  <2>1. UNCHANGED <<regs, op, mLockNotifier>>
    BY <1>2 DEF Evt, Handler, EvtWake, EvtPop, EvtSet, EvtCall, EvtReturn, EvtRelease,
           RepostEvent, PopEvent, EvtUnchanged, locks
  <2> QED
    BY <2>1, RegisteredSame
<1>3. ASSUME NEW c \in Clients, Begin(c) PROVE Registered'
  <2>1. ASSUME NEW o \in Objects, PurgeEvents(c, o) PROVE Registered'
    BY <2>1, RegisteredSame DEF PurgeEvents, locks
  <2> QED
    BY <1>3, <2>1, CreateKeepsRegistered, DestroyStartKeepsRegistered,
       RegisterStartKeepsRegistered, NotifyKeepsRegistered DEF Begin
<1>4. ASSUME NEW c \in Clients, Continue(c) PROVE Registered'
  <2> USE DEF At, Stage, Become
  <2>1. CASE DestroyPurge(c)
    BY <2>1, StagesKeepRegistered DEF DestroyPurge
  <2>2. CASE DestroySpin(c)
    BY <2>2, StagesKeepRegistered DEF DestroySpin, locks
  <2>3. CASE DestroyLeave(c)
    <3>1. CASE mnbUses = 1
      BY <2>3, <3>1, StagesKeepRegistered DEF DestroyLeave, regs
    <3>2. CASE mnbUses # 1
      BY <2>3, <3>2, GoneKeepsRegistered DEF DestroyLeave, Unregister
    <3> QED
      BY <3>1, <3>2
  <2>4. CASE DestroyJoin(c)
    BY <2>4, GoneKeepsRegistered DEF DestroyJoin, Unregister
  <2> QED
    BY <1>4, <2>1, <2>2, <2>3, <2>4, RegisterFinishKeepsRegistered, NotifyKeepsRegistered,
       UnregisterOneKeepsRegistered, DestroyUnregisterKeepsRegistered DEF Continue
<1>5. Next => \/ Evt \/ Handler
               \/ \E c \in Clients : Begin(c) \/ Continue(c)
  BY DEF Next
<1> QED
  BY <1>1, <1>2, <1>3, <1>4, <1>5, Zenon

-----------------------------------------------------------------------------
\* The uses of the event thread: steps of no object that joins, comes or leaves.
LEMMA CountedSame ==
  ASSUME Counted, UNCHANGED <<life, mnbUses, mLockLookup, requestToExit>>,
         \A d \in Clients : IF At(d, "join") THEN op'[d] = op[d] ELSE ~At(d, "join")',
         \/ evtPc' = evtPc
         \/ evtPc' \notin {"none", "exited"}
         \/ evtPc' = "exited" /\ requestToExit
  PROVE  Counted'
<1>1. \A d \in Clients : At(d, "join")' <=> At(d, "join")
  BY DEF At, Doing
<1>2. \A d \in Clients : At(d, "join") => op'[d] = op[d]
  OBVIOUS
<1>3. Users' = Users
  BY <1>1, <1>2 DEF Users
<1>4. (requestToExit \/ evtPc = "exited" => \E c \in Clients : At(c, "join"))'
  BY <1>1 DEF Counted
<1>5. (mnbUses > 0 => evtPc \notin {"none", "exited"})'
  BY DEF Counted
<1> QED
  BY <1>1, <1>3, <1>4, <1>5 DEF Counted

\* While an object joins the event thread no other has its uses changed.
LEMMA NoJoiner ==
  ASSUME Counted, mLockLookup = NULL
  PROVE  /\ \A d \in Clients : ~At(d, "join")
         /\ Users = {o \in Objects : life[o] = "live"}
         /\ ~requestToExit /\ evtPc # "exited"
<1>1. \A d \in Clients : ~At(d, "join")
  BY NotificationAssumption DEF Counted
<1> QED
  BY <1>1 DEF Counted, Users

\* A new object uses the event thread.
LEMMA CreateKeepsCounted ==
  ASSUME TypeInv, Counted, NEW c \in Clients, NEW o \in Objects, Create(c, o)
  PROVE  Counted'
<1>1. /\ life[o] = "unborn" /\ life' = [life EXCEPT ![o] = "live"] /\ mLockLookup = NULL
      /\ mnbUses' = mnbUses + 1 /\ evtPc' = IF evtPc = "none" THEN "wait" ELSE evtPc
      /\ UNCHANGED <<op, mLockLookup, requestToExit>>
  BY DEF Create, Register, GetThread, AddRef, locks
<1>2. /\ \A d \in Clients : ~At(d, "join")
      /\ Users = {p \in Objects : life[p] = "live"}
      /\ ~requestToExit /\ evtPc # "exited"
  BY <1>1, NoJoiner
<1>3. \A d \in Clients : ~At(d, "join")'
  BY <1>1, <1>2 DEF At, Doing
<1>4. Users' = Users \cup {o} /\ o \notin Users
  BY <1>1, <1>2, <1>3 DEF Users, TypeInv
<1>5. IsFiniteSet(Users') /\ mnbUses' = Cardinality(Users')
  BY <1>1, <1>4, FS_AddElement DEF Counted
<1> QED
  BY <1>1, <1>2, <1>3, <1>5 DEF Counted

\* An object leaves it, and joins it if it is the last one.
LEMMA LeaveKeepsCounted ==
  ASSUME TypeInv, Registered, Counted, NEW c \in Clients, DestroyLeave(c)
  PROVE  Counted'
<1> DEFINE o == op[c].o
<1>1. /\ At(c, "leave") /\ mLockLookup = NULL /\ mnbUses' = mnbUses - 1 /\ evtPc' = evtPc
  BY DEF DestroyLeave, Release, evt
<1>2. /\ \A d \in Clients : ~At(d, "join")
      /\ Users = {p \in Objects : life[p] = "live"}
      /\ ~requestToExit /\ evtPc # "exited"
  BY <1>1, NoJoiner
<1>3. o \in Objects /\ life[o] = "live" /\ o \in Users /\ mnbUses \in Nat \ {0}
  BY <1>1, LeaverCounted
<1>4. ASSUME Users' = Users \ {o} PROVE IsFiniteSet(Users') /\ mnbUses' = Cardinality(Users')
  BY <1>1, <1>3, <1>4, FS_RemoveElement DEF Counted
<1>5. CASE mnbUses = 1
  <2>1. /\ requestToExit' = TRUE /\ mLockLookup' = c /\ life' = life /\ mnbUses' = 0
        /\ op' = [op EXCEPT ![c] = [kind |-> "destroy", o |-> o, stage |-> "join"]]
    BY <1>1, <1>5 DEF DestroyLeave, Stage, Become
  <2>2. \A d \in Clients :
          op'[d] = IF d = c THEN [kind |-> "destroy", o |-> o, stage |-> "join"] ELSE op[d]
    BY <2>1 DEF TypeInv
  <2>3. \A d \in Clients : At(d, "join")' <=> d = c
    BY <1>2, <2>2 DEF At, Doing
  <2>4. op'[c].o = o
    BY <2>2
  <2>5. Users' = Users \ {o}
    BY <1>2, <2>1, <2>3, <2>4 DEF Users
  <2> QED
    BY <1>4, <2>1, <2>3, <2>5 DEF Counted
<1>6. CASE mnbUses # 1
  <2>1. /\ life' = [life EXCEPT ![o] = "gone"] /\ op' = [op EXCEPT ![c] = Idle]
        /\ UNCHANGED <<requestToExit, mLockLookup>>
    BY <1>6 DEF DestroyLeave, Unregister, Become
  <2>2. \A d \in Clients : op'[d] = IF d = c THEN Idle ELSE op[d]
    BY <2>1 DEF TypeInv
  <2>3. \A d \in Clients : ~At(d, "join")'
    BY <1>2, <2>2 DEF At, Doing, Idle
  <2>4. \A p \in Objects : life'[p] = IF p = o THEN "gone" ELSE life[p]
    BY <2>1 DEF TypeInv
  <2>5. Users' = Users \ {o}
    BY <1>2, <2>3, <2>4 DEF Users
  <2>6. mnbUses' > 0 => mnbUses > 0
    BY <1>1, <1>3
  <2> QED
    BY <1>1, <1>2, <1>4, <2>1, <2>3, <2>5, <2>6 DEF Counted
<1> QED
  BY <1>5, <1>6

\* The object that has joined is gone, and with it the thread.
LEMMA JoinKeepsCounted ==
  ASSUME TypeInv, Counted, NEW c \in Clients, DestroyJoin(c)
  PROVE  Counted'
<1> DEFINE o == op[c].o
<1>1. /\ At(c, "join") /\ evtPc' = "none" /\ ~requestToExit' /\ mLockLookup' = NULL
      /\ life' = [life EXCEPT ![o] = "gone"] /\ op' = [op EXCEPT ![c] = Idle]
      /\ mnbUses' = mnbUses
  BY DEF DestroyJoin, Unregister, Become
<1>2. /\ \A d \in Clients : At(d, "join") => d = c
      /\ mnbUses = 0
  BY <1>1 DEF Counted
<1>3. \A d \in Clients : op'[d] = IF d = c THEN Idle ELSE op[d]
  BY <1>1 DEF TypeInv
<1>4. \A d \in Clients : ~At(d, "join")'
  BY <1>2, <1>3 DEF At, Doing, Idle
<1>5. \A p \in Objects : life'[p] = IF p = o THEN "gone" ELSE life[p]
  BY <1>1 DEF TypeInv
<1>6. Users' = Users
  BY <1>1, <1>2, <1>4, <1>5 DEF Users
<1>7. IsFiniteSet(Users') /\ mnbUses' = Cardinality(Users') /\ mnbUses' = 0
  BY <1>1, <1>2, <1>6 DEF Counted
<1>8. (requestToExit \/ evtPc = "exited" => \E d \in Clients : At(d, "join"))'
  BY <1>1
<1>9. (mnbUses > 0 => evtPc \notin {"none", "exited"})'
  BY <1>7
<1> QED
  BY <1>4, <1>7, <1>8, <1>9 DEF Counted

\* Every step keeps the count.
LEMMA CountedKept ==
  ASSUME TypeInv, Registered, Counted, [Next]_vars
  PROVE  Counted'
<1>1. CASE UNCHANGED vars
  BY <1>1, CountedSame DEF vars, regs, locks, group, evt, At, Doing
<1>2. CASE Evt \/ Handler
  <2>1. UNCHANGED <<life, mnbUses, mLockLookup, requestToExit, op>>
    BY <1>2 DEF Evt, Handler, EvtWake, EvtPop, EvtSet, EvtCall, EvtReturn, EvtRelease,
           RepostEvent, PopEvent, EvtUnchanged, locks, regs, group
  <2>2. \/ evtPc' = evtPc
        \/ evtPc' \notin {"none", "exited"}
        \/ evtPc' = "exited" /\ requestToExit
    <3>1. CASE EvtWake
      <4>1. CASE requestToStart
        BY <3>1, <4>1 DEF EvtWake
      <4>2. CASE ~requestToStart
        BY <3>1, <4>2 DEF EvtWake
      <4> QED
        BY <4>1, <4>2
    <3>2. CASE EvtPop \/ EvtSet \/ EvtReturn \/ EvtRelease
      BY <3>2 DEF EvtPop, EvtSet, EvtReturn, EvtRelease
    <3>3. CASE EvtCall
      BY <3>3 DEF EvtCall
    <3>4. CASE Handler
      BY <3>4 DEF Handler, RepostEvent, PopEvent, evt
    <3> QED
      BY <1>2, <3>1, <3>2, <3>3, <3>4 DEF Evt
  <2> QED
    BY <2>1, <2>2, CountedSame DEF At, Doing
<1>3. ASSUME NEW c \in Clients, NEW w, op' = [op EXCEPT ![c] = w],
             ~At(c, "join"), w.kind = "destroy" => w.stage # "join",
             UNCHANGED <<life, mnbUses, mLockLookup, requestToExit, evtPc>>
      PROVE  Counted'
  <2>1. \A d \in Clients : op'[d] = IF d = c THEN w ELSE op[d]
    BY <1>3 DEF TypeInv
  <2>2. \A d \in Clients : IF At(d, "join") THEN op'[d] = op[d] ELSE ~At(d, "join")'
    BY <1>3, <2>1 DEF At, Doing
  <2> QED
    BY <1>3, <2>2, CountedSame
<1> USE DEF regs, locks, evt, group, Become, Stage, At, Doing
<1>4. ASSUME NEW c \in Clients, Begin(c) PROVE Counted'
  <2>1. ASSUME NEW o \in Objects, Create(c, o) PROVE Counted'
    BY <2>1, CreateKeepsCounted
  <2>2. ASSUME NEW o \in Objects, PurgeEvents(c, o) PROVE Counted'
    BY <2>2, CountedSame DEF PurgeEvents
  <2>3. ASSUME NEW o \in Objects, DestroyStart(c, o) PROVE Counted'
    BY <2>3, <1>3 DEF DestroyStart
  <2>4. ASSUME NEW n \in Notifiers, NEW o \in Objects, RegisterStart(c, n, o) PROVE Counted'
    BY <2>4, <1>3 DEF RegisterStart
  <2>5. ASSUME NEW n \in Notifiers, NEW S \in SUBSET Objects, UnregisterStart(c, n, S)
        PROVE  Counted'
    BY <2>5, <1>3 DEF UnregisterStart
  <2>6. ASSUME NEW n \in Notifiers, NEW e \in Events, NotifyStart(c, n, e) PROVE Counted'
    BY <2>6, <1>3 DEF NotifyStart
  <2> QED
    BY <1>4, <2>1, <2>2, <2>3, <2>4, <2>5, <2>6 DEF Begin
<1>5. ASSUME NEW c \in Clients, Continue(c) PROVE Counted'
  <2>1. ASSUME RegisterFinish(c) \/ UnregisterEnd(c) \/ NotifyEnd(c) PROVE Counted'
    <3>1. /\ op' = [op EXCEPT ![c] = Idle] /\ op[c].kind # "destroy"
          /\ UNCHANGED <<life, mnbUses, mLockLookup, requestToExit, evtPc>>
      BY <2>1 DEF RegisterFinish, UnregisterEnd, NotifyEnd, Remember
    <3> QED
      BY <3>1, <1>3 DEF Idle
  <2>2. ASSUME NotifyPush(c) PROVE Counted'
    BY <2>2, <1>3 DEF NotifyPush
  <2>3. ASSUME NEW o \in Objects, UnregisterOne(c, o) \/ NotifyCheck(c, o) PROVE Counted'
    <3>1. /\ op[c].kind # "destroy"
          /\ UNCHANGED <<life, mnbUses, mLockLookup, requestToExit, evtPc>>
      BY <2>3 DEF UnregisterOne, NotifyCheck, Forget
    <3>2. op[c] \in Unregisters \cup Notifies
      BY <2>3, OpKind DEF UnregisterOne, NotifyCheck, TypeInv
    <3>3. \E w : op' = [op EXCEPT ![c] = w] /\ w.kind # "destroy"
      <4>1. [op[c] EXCEPT !.todo = @ \ {o}].kind # "destroy"
        BY <3>2 DEF Unregisters, Notifies
      <4>2. CASE UnregisterOne(c, o)
        BY <4>1, <4>2 DEF UnregisterOne
      <4>3. CASE NotifyCheck(c, o)
        <5>1. CASE mbObsolete[o]
          BY <4>1, <4>3, <5>1 DEF NotifyCheck
        <5>2. CASE ~mbObsolete[o]
          <6> DEFINE v == [kind |-> "push", n |-> op[c].n, e |-> op[c].e,
                           todo |-> op[c].todo \ {o}, o |-> o]
          <6>1. op' = [op EXCEPT ![c] = v]
            BY <4>3, <5>2 DEF NotifyCheck
          <6>2. v.kind # "destroy"
            OBVIOUS
          <6> HIDE DEF v
          <6> QED
            BY <6>1, <6>2
        <5> QED
          BY <5>1, <5>2
      <4> QED
        BY <2>3, <4>2, <4>3
    <3> QED
      BY <3>1, <3>3, <1>3
  <2>4. ASSUME NEW n \in Notifiers, DestroyUnregister(c, n) PROVE Counted'
    BY <2>4, CountedSame DEF DestroyUnregister, Forget
  <2>5. ASSUME DestroyPurge(c) PROVE Counted'
    BY <2>5, <1>3 DEF DestroyPurge
  <2>6. ASSUME DestroySpin(c) PROVE Counted'
    BY <2>6, <1>3 DEF DestroySpin
  <2>7. ASSUME DestroyLeave(c) PROVE Counted'
    BY <2>7, LeaveKeepsCounted
  <2>8. ASSUME DestroyJoin(c) PROVE Counted'
    BY <2>8, JoinKeepsCounted
  <2> QED
    BY <1>5, <2>1, <2>2, <2>3, <2>4, <2>5, <2>6, <2>7, <2>8 DEF Continue
<1>6. Next => Evt \/ Handler \/ \E c \in Clients : Begin(c) \/ Continue(c)
  BY DEF Next
<1> QED
  BY <1>1, <1>2, <1>4, <1>5, <1>6, Zenon

-----------------------------------------------------------------------------
\* No destructor goes on, and no object dies.
NoDestructor ==
  /\ \A d \in Clients : \A p : Destroying(d, p)' <=> Destroying(d, p)
  /\ \A d \in Clients : Doing(d, "destroy") => op'[d] = op[d]
  /\ \A p \in Objects : life'[p] = life[p] \/ (life[p] = "unborn" /\ life'[p] = "live")

\* Only the stages of destruction change what is destroyed.
LEMMA Destructors ==
  ASSUME TypeInv, NEW c \in Clients, Begin(c) \/ Continue(c)
  PROVE  \/ NoDestructor
         \/ DestroyPurge(c) \/ DestroySpin(c) \/ DestroyLeave(c) \/ DestroyJoin(c)
         \/ \E o \in Objects : DestroyStart(c, o)
<1>1. ASSUME NEW w, op[c].kind # "destroy", w.kind # "destroy", op' = [op EXCEPT ![c] = w],
             life' = life
      PROVE  NoDestructor
  <2>1. \A d \in Clients : op'[d] = IF d = c THEN w ELSE op[d]
    BY <1>1 DEF TypeInv
  <2> QED
    BY <1>1, <2>1 DEF NoDestructor, Destroying, Doing
<1>2. ASSUME op' = op, \A p \in Objects : life'[p] = life[p] \/ (life[p] = "unborn" /\ life'[p] = "live")
      PROVE  NoDestructor
  BY <1>2 DEF NoDestructor, Destroying, Doing
<1> USE DEF regs, Become, Doing
<1>3. ASSUME NEW o \in Objects, Create(c, o) PROVE NoDestructor
  BY <1>2, <1>3 DEF Create, Register, TypeInv
<1>4. ASSUME NEW o \in Objects, PurgeEvents(c, o) PROVE NoDestructor
  BY <1>2, <1>4 DEF PurgeEvents
<1>5. ASSUME NEW n \in Notifiers, NEW o \in Objects, RegisterStart(c, n, o) PROVE NoDestructor
  BY <1>1, <1>5 DEF RegisterStart
<1>6. ASSUME NEW n \in Notifiers, NEW S \in SUBSET Objects, UnregisterStart(c, n, S)
      PROVE  NoDestructor
  BY <1>1, <1>6 DEF UnregisterStart
<1>7. ASSUME NEW n \in Notifiers, NEW e \in Events, NotifyStart(c, n, e) PROVE NoDestructor
  BY <1>1, <1>7 DEF NotifyStart
<1>8. ASSUME RegisterFinish(c) \/ UnregisterEnd(c) \/ NotifyEnd(c) PROVE NoDestructor
  <2>1. op' = [op EXCEPT ![c] = Idle] /\ op[c].kind # "destroy" /\ life' = life
    BY <1>8 DEF RegisterFinish, UnregisterEnd, NotifyEnd, Remember
  <2> QED
    BY <2>1, <1>1 DEF Idle
<1>9. ASSUME NotifyPush(c) PROVE NoDestructor
  BY <1>1, <1>9 DEF NotifyPush
<1>10. ASSUME NEW o \in Objects, UnregisterOne(c, o) \/ NotifyCheck(c, o) PROVE NoDestructor
  <2> DEFINE u == [op[c] EXCEPT !.todo = @ \ {o}]
             v == [kind |-> "push", n |-> op[c].n, e |-> op[c].e,
                   todo |-> op[c].todo \ {o}, o |-> o]
  <2>1. op[c].kind # "destroy" /\ life' = life
    BY <1>10 DEF UnregisterOne, NotifyCheck, Forget
  <2>2. op[c] \in Unregisters \cup Notifies
    BY <1>10, OpKind DEF UnregisterOne, NotifyCheck, TypeInv
  <2>3. u.kind # "destroy" /\ v.kind # "destroy"
    BY <2>2 DEF Unregisters, Notifies
  <2>4. op' = [op EXCEPT ![c] = u] \/ op' = [op EXCEPT ![c] = v]
    <3>1. CASE UnregisterOne(c, o)
      BY <3>1 DEF UnregisterOne
    <3>2. CASE NotifyCheck(c, o)
      <4>1. CASE mbObsolete[o]
        BY <3>2, <4>1 DEF NotifyCheck
      <4>2. CASE ~mbObsolete[o]
        BY <3>2, <4>2 DEF NotifyCheck
      <4> QED
        BY <4>1, <4>2
    <3> QED
      BY <1>10, <3>1, <3>2
  <2> HIDE DEF u, v
  <2> QED
    BY <2>1, <2>3, <2>4, <1>1
<1>11. ASSUME NEW n \in Notifiers, DestroyUnregister(c, n) PROVE NoDestructor
  BY <1>2, <1>11 DEF DestroyUnregister, Forget
<1> QED
  BY <1>3, <1>4, <1>5, <1>6, <1>7, <1>8, <1>9, <1>10, <1>11 DEF Begin, Continue

\* An object purges the queue before it is gone, and is not born again.
LEMMA PastSteps ==
  ASSUME TypeInv, [Next]_vars, NEW p \in Objects
  PROVE  /\ life[p] # "unborn" => life'[p] # "unborn"
         /\ reposts'[p] = 0 => reposts[p] = 0
         /\ Past(p)' => Past(p) \/ \E c \in Clients : DestroyPurge(c) /\ op[c].o = p
<1> USE DEF regs, locks, At, Stage, Become
<1>1. CASE Evt \/ Handler \/ UNCHANGED vars
  <2>1. UNCHANGED <<life, op>>
    BY <1>1 DEF Evt, Handler, EvtWake, EvtPop, EvtSet, EvtCall, EvtReturn, EvtRelease,
           RepostEvent, PopEvent, EvtUnchanged, vars
  <2>2. reposts'[p] = 0 => reposts[p] = 0
    <3>1. CASE reposts' = reposts
      BY <3>1
    <3>2. ASSUME NEW b \in BOOLEAN, RepostEvent(b) PROVE reposts'[p] = 0 => reposts[p] = 0
      BY <3>2 DEF RepostEvent, TypeInv
    <3> QED
      BY <1>1, <3>1, <3>2 DEF Evt, Handler, EvtWake, EvtPop, EvtSet, EvtCall, EvtReturn, EvtRelease,
           PopEvent, vars
  <2> QED
    BY <2>1, <2>2 DEF Past, Destroying, Doing
<1>2. ASSUME NEW c \in Clients, Begin(c) \/ Continue(c)
      PROVE  /\ life[p] # "unborn" => life'[p] # "unborn"
             /\ reposts'[p] = 0 => reposts[p] = 0
             /\ Past(p)' => Past(p) \/ (DestroyPurge(c) /\ op[c].o = p)
  <2>1. reposts' = reposts
    BY <1>2 DEF Begin, Continue, Create, DestroyStart, PurgeEvents, RegisterStart, UnregisterStart,
       NotifyStart, RegisterFinish, UnregisterEnd, NotifyPush, NotifyEnd, UnregisterOne, NotifyCheck,
       DestroyUnregister, DestroyPurge, DestroySpin, DestroyLeave, DestroyJoin
  <2>2. CASE NoDestructor
    BY <2>1, <2>2 DEF NoDestructor, Past, Destroying
  <2>3. ASSUME NEW w \in Ops, op' = [op EXCEPT ![c] = w], UNCHANGED life,
               w.kind = "destroy" => w.stage = "unregister"
                 \/ (w.o = op[c].o /\ Doing(c, "destroy") /\ op[c].stage # "unregister")
                 \/ (w.o = op[c].o /\ DestroyPurge(c))
        PROVE  Past(p)' => Past(p) \/ (DestroyPurge(c) /\ op[c].o = p)
    <3>1. \A d \in Clients : op'[d] = IF d = c THEN w ELSE op[d]
      BY <2>3 DEF TypeInv
    <3> QED
      BY <2>3, <3>1 DEF Past, Destroying, Doing
  <2>4. ASSUME NEW stage \in {"spin", "leave", "join"}, NEW o \in Objects
        PROVE  [kind |-> "destroy", o |-> o, stage |-> stage] \in Ops
    BY DEF Ops, Destroys
  <2>5. ASSUME NEW o \in Objects, DestroyStart(c, o)
        PROVE  /\ life[p] # "unborn" => life'[p] # "unborn"
               /\ Past(p)' => Past(p) \/ (DestroyPurge(c) /\ op[c].o = p)
    <3>1. [kind |-> "destroy", o |-> o, stage |-> "unregister"] \in Ops
      BY DEF Ops, Destroys
    <3> QED
      BY <2>3, <2>5, <3>1 DEF DestroyStart
  <2>6. ASSUME Doing(c, "destroy") PROVE op[c].o \in Objects
    BY <2>6, OpKind DEF Doing, TypeInv, Destroys
  <2>7. CASE DestroyPurge(c)
    BY <2>1, <2>3, <2>4, <2>6, <2>7 DEF DestroyPurge
  <2>8. CASE DestroySpin(c)
    BY <2>1, <2>3, <2>4, <2>6, <2>8 DEF DestroySpin
  <2>9. ASSUME life' = [life EXCEPT ![op[c].o] = "gone"], op' = [op EXCEPT ![c] = Idle],
               Doing(c, "destroy"), op[c].stage # "unregister"
        PROVE  /\ life[p] # "unborn" => life'[p] # "unborn"
               /\ Past(p)' => Past(p)
    <3>1. \A d \in Clients : op'[d] = IF d = c THEN Idle ELSE op[d]
      BY <2>9 DEF TypeInv
    <3>2. life'[p] = IF p = op[c].o THEN "gone" ELSE life[p]
      BY <2>9 DEF TypeInv
    <3>3. p = op[c].o => Past(p)
      BY <2>9 DEF Past, Destroying
    <3>4. \A d \in Clients : Destroying(d, p)' => Destroying(d, p) /\ op'[d] = op[d]
      BY <3>1 DEF Destroying, Doing, Idle
    <3> QED
      BY <3>2, <3>3, <3>4 DEF Past
  <2>10. CASE DestroyLeave(c)
    <3>1. CASE mnbUses = 1
      BY <2>1, <2>3, <2>4, <2>6, <2>10, <3>1 DEF DestroyLeave
    <3>2. CASE mnbUses # 1
      BY <2>1, <2>9, <2>10, <3>2 DEF DestroyLeave, Unregister
    <3> QED
      BY <3>1, <3>2
  <2>11. CASE DestroyJoin(c)
    BY <2>1, <2>9, <2>11 DEF DestroyJoin, Unregister
  <2> QED
    BY <1>2, <2>1, <2>2, <2>5, <2>7, <2>8, <2>10, <2>11, Destructors
<1>3. Next => Evt \/ Handler \/ \E c \in Clients : Begin(c) \/ Continue(c)
  BY DEF Next
<1> QED
  BY <1>1, <1>2, <1>3, Zenon

-----------------------------------------------------------------------------
\* What becomes of the queue: a client puts an event into it by Notify ...
LEMMA ClientQueue ==
  ASSUME TypeInv, NEW c \in Clients, Begin(c) \/ Continue(c)
  PROVE  NotifyPush(c) \/ \E f : Embeds(f, mEvtQueue', mEvtQueue, 0)
<1> DEFINE Less == \E f : Embeds(f, mEvtQueue', mEvtQueue, 0)
<1>1. mEvtQueue \in Seq(Records) /\ DOMAIN mEvtQueue = 1 .. Len(mEvtQueue) /\ Len(mEvtQueue) \in Nat
  BY LenProperties DEF TypeInv
<1>2. ASSUME mEvtQueue' = mEvtQueue PROVE Less
  <2>1. Embeds([k \in DOMAIN mEvtQueue |-> k], mEvtQueue', mEvtQueue, 0)
    BY <1>1, <1>2 DEF Embeds
  <2> QED
    BY <2>1
<1>3. ASSUME NEW o, mEvtQueue' = Purged(o) PROVE Less
  BY <1>1, <1>3, PurgedQueue
<1>4. ASSUME mEvtQueue' = <<>> PROVE Less
  <2>1. DOMAIN mEvtQueue' = {}
    BY <1>4
  <2>2. Embeds([k \in {} |-> 1], mEvtQueue', mEvtQueue, 0)
    BY <2>1 DEF Embeds
  <2> QED
    BY <2>2
<1> HIDE DEF Less
<1>6. CASE Begin(c)
  <2>1. ASSUME NEW o \in Objects, PurgeEvents(c, o) PROVE Less
    BY <1>3, <2>1 DEF PurgeEvents
  <2>2. mEvtQueue' = mEvtQueue \/ \E o \in Objects : PurgeEvents(c, o)
    BY <1>6 DEF Begin, Create, DestroyStart, RegisterStart, UnregisterStart, NotifyStart, queue
  <2> QED
    BY <1>2, <2>1, <2>2 DEF Less
<1>7. CASE Continue(c)
  <2>1. CASE DestroyPurge(c)
    BY <1>3, <2>1 DEF DestroyPurge, Less
  <2>2. CASE DestroyJoin(c)
    BY <1>4, <2>2 DEF DestroyJoin, Less
  <2>3. mEvtQueue' = mEvtQueue \/ DestroyPurge(c) \/ DestroyJoin(c) \/ NotifyPush(c)
    BY <1>7 DEF Continue, RegisterFinish, UnregisterEnd, NotifyEnd, UnregisterOne, NotifyCheck,
                DestroyUnregister, DestroySpin, DestroyLeave, queue
  <2> QED
    BY <1>2, <2>1, <2>2, <2>3 DEF Less
<1> QED
  BY <1>6, <1>7

\* ... and the event thread by RepostEvent.
LEMMA QueueSteps ==
  ASSUME TypeInv, [Next]_vars
  PROVE  \/ \E f : Embeds(f, mEvtQueue', mEvtQueue, 0)
         \/ EvtPop /\ mEvtQueue # <<>>
         \/ \E i \in DOMAIN mEvtQueue : PopEvent(i)
         \/ \E c \in Clients : NotifyPush(c)
         \/ \E b \in BOOLEAN : RepostEvent(b)
<1>1. ASSUME mEvtQueue' = mEvtQueue PROVE \E f : Embeds(f, mEvtQueue', mEvtQueue, 0)
  <2>1. DOMAIN mEvtQueue = 1 .. Len(mEvtQueue) /\ Len(mEvtQueue) \in Nat
    BY LenProperties DEF TypeInv
  <2>2. Embeds([k \in DOMAIN mEvtQueue |-> k], mEvtQueue', mEvtQueue, 0)
    BY <1>1, <2>1 DEF Embeds
  <2> QED
    BY <2>2
<1>2. Evt \/ UNCHANGED vars => mEvtQueue' = mEvtQueue \/ (EvtPop /\ mEvtQueue # <<>>)
  <2>1. CASE EvtPop
    BY <2>1 DEF EvtPop
  <2> QED
    BY <2>1 DEF Evt, EvtWake, EvtSet, EvtCall, EvtReturn, EvtRelease, vars, queue
<1>3. Next => Evt \/ Handler \/ \E c \in Clients : Begin(c) \/ Continue(c)
  BY DEF Next
<1> QED
  BY <1>1, <1>2, <1>3, ClientQueue DEF Handler

\* The event that is delivered is for an object of the group.
LEMMA ItemType ==
  ASSUME TypeInv, Busy
  PROVE  item[1] \in Records /\ item[1].obj \in Objects /\ item[1].evt \in Events
         /\ item = <<item[1]>>
<1>1. item \in [1 .. 1 -> Records]
  BY DEF TypeInv
<1> QED
  BY <1>1 DEF Records

\* Nothing comes into the queue for an object that has purged it.
LEMMA QueueLeftAloneKept ==
  ASSUME TypeInv, TypeInv', Registered, LeftAlone, [Next]_vars
  PROVE  QueueLeftAlone'
<1>1. /\ mEvtQueue \in Seq(Records)
      /\ \A i \in DOMAIN mEvtQueue : mEvtQueue[i] \in Records /\ mEvtQueue[i].obj \in Objects
      /\ mEvtQueue' \in Seq(Records)
      /\ \A i \in DOMAIN mEvtQueue' : mEvtQueue'[i] \in Records /\ mEvtQueue'[i].obj \in Objects
  <2>1. mEvtQueue \in Seq(Records) /\ mEvtQueue' \in Seq(Records)
    BY DEF TypeInv
  <2>2. ASSUME NEW q \in Seq(Records), NEW i \in DOMAIN q PROVE q[i] \in Records
    <3>1. DOMAIN q = 1 .. Len(q)
      BY LenProperties
    <3> QED
      BY <2>2, <3>1, ElementOfSeq
  <2>3. \A x \in Records : x.obj \in Objects
    BY DEF Records
  <2> QED
    BY <2>1, <2>2, <2>3
<1>2. \A p \in Objects :
        /\ life[p] # "unborn" => life'[p] # "unborn"
        /\ reposts'[p] = 0 => reposts[p] = 0
        /\ Past(p)' => Past(p) \/ \E c \in Clients : DestroyPurge(c) /\ op[c].o = p
  BY PastSteps
<1> DEFINE Welcome(o) == life'[o] # "unborn" /\ (reposts'[o] = 0 => ~Past(o)')
           Fits(k) == \E o \in Objects : o = mEvtQueue'[k].obj /\ Welcome(o)
<1>3. SUFFICES \A k \in DOMAIN mEvtQueue' : Fits(k)
  <2> SUFFICES ASSUME \A k \in DOMAIN mEvtQueue' : Fits(k) PROVE QueueLeftAlone'
    OBVIOUS
  <2>1. (\A i \in DOMAIN mEvtQueue : life[mEvtQueue[i].obj] # "unborn")'
    OBVIOUS
  <2>2. ASSUME NEW o \in Objects, reposts'[o] = 0, Past(o)', NEW k \in DOMAIN mEvtQueue'
        PROVE  mEvtQueue'[k].obj # o
    BY <2>2
  <2> QED
    BY <2>1, <2>2 DEF QueueLeftAlone
<1>4. \A m \in DOMAIN mEvtQueue : LET o == mEvtQueue[m].obj IN
         life[o] # "unborn" /\ (reposts[o] = 0 => ~Past(o))
  BY <1>1 DEF LeftAlone, QueueLeftAlone
<1>5. ASSUME NEW k \in DOMAIN mEvtQueue', NEW m \in DOMAIN mEvtQueue, mEvtQueue'[k] = mEvtQueue[m],
             \A c \in Clients : DestroyPurge(c) => mEvtQueue'[k].obj # op[c].o
      PROVE  Fits(k)
  <2>1. PICK o \in Objects : o = mEvtQueue[m].obj
    BY <1>1
  <2>2. life[o] # "unborn" /\ (reposts[o] = 0 => ~Past(o))
    BY <1>4, <2>1
  <2>3. mEvtQueue'[k].obj = o
    BY <1>5, <2>1
  <2>4. Past(o)' => Past(o)
    BY <1>2, <1>5, <2>3
  <2>5. Welcome(o)
    BY <1>2, <2>2, <2>4
  <2> QED
    BY <2>3, <2>5
<1>6. ASSUME NEW k \in DOMAIN mEvtQueue', NEW c \in Clients, DestroyPurge(c)
      PROVE  mEvtQueue'[k].obj # op[c].o
  BY <1>1, <1>6, PurgedQueue DEF DestroyPurge
<1>7. ASSUME NEW p, NEW f, Embeds(f, mEvtQueue', mEvtQueue, p)
      PROVE  \A k \in DOMAIN mEvtQueue' : Fits(k)
  <2>1. \A k \in DOMAIN mEvtQueue' : f[k] \in DOMAIN mEvtQueue /\ mEvtQueue'[k] = mEvtQueue[f[k]]
    BY <1>7 DEF Embeds
  <2> HIDE DEF Fits
  <2> QED
    BY <2>1, <1>5, <1>6
<1>8. ASSUME NEW p, NEW g, Inserts(g, mEvtQueue', mEvtQueue, p), Fits(p),
             \A c \in Clients : ~DestroyPurge(c)
      PROVE  \A k \in DOMAIN mEvtQueue' : Fits(k)
  <2>1. \A k \in DOMAIN mEvtQueue' \ {p} :
          g[k] \in DOMAIN mEvtQueue /\ mEvtQueue'[k] = mEvtQueue[g[k]]
    BY <1>8 DEF Inserts
  <2> HIDE DEF Fits
  <2> QED
    BY <2>1, <1>5, <1>8
<1>9. CASE EvtPop /\ mEvtQueue # <<>>
  BY <1>1, <1>7, <1>9, TailEmbeds DEF EvtPop
<1>10. ASSUME NEW i \in DOMAIN mEvtQueue, PopEvent(i) PROVE \A k \in DOMAIN mEvtQueue' : Fits(k)
  BY <1>1, <1>7, <1>10, RemoveAtEmbeds DEF PopEvent
<1>11. ASSUME NEW c \in Clients, NotifyPush(c) PROVE \A k \in DOMAIN mEvtQueue' : Fits(k)
  <2> DEFINE x == [evt |-> op[c].e, obj |-> op[c].o]
  <2>1. /\ op[c] \in Pushes /\ mEvtQueue' = Append(mEvtQueue, x)
        /\ UNCHANGED life
        /\ op' = [op EXCEPT ![c] = [kind |-> "notify", n |-> op[c].n, e |-> op[c].e,
                                    todo |-> op[c].todo]]
    BY <1>11, OpKind DEF NotifyPush, Enqueued, Doing, Become, regs, TypeInv
  <2>2. /\ op[c].o \in objectList[op[c].n] /\ op[c].n \in Notifiers /\ op[c].o \in Objects
        /\ x \in Records
    BY <2>1 DEF Pushes, Registered, TodoRegistered, Doing, Records
  <2>3. life[op[c].o] = "live" /\ ~Past(op[c].o)
    BY <2>2 DEF Registered, RegisteredAlive
  <2>4. \A d \in Clients : ~DestroyPurge(d)
    <3> SUFFICES ASSUME NEW d \in Clients, DestroyPurge(d) PROVE FALSE
      OBVIOUS
    <3>1. op'[c].kind = "notify" /\ op[c].kind = "push"
      BY <2>1 DEF TypeInv, Pushes
    <3>2. op[d].kind = "destroy" /\ (d # c => op'[c] = op[c])
      BY DEF DestroyPurge, At, Doing, Stage, Become, TypeInv
    <3> QED
      BY <3>1, <3>2
  <2>5. PICK g, n : Inserts(g, mEvtQueue', mEvtQueue, n) /\ mEvtQueue'[n] = x
    <3>1. PICK v \in Records : v = x
      BY <2>2
    <3>2. PICK q \in Seq(Records) : q = mEvtQueue
      BY <1>1
    <3>3. PICK r : r = mEvtQueue' /\ r = Append(q, v)
      BY <2>1, <3>1, <3>2
    <3>4. PICK k : k = Len(q) + 1
      OBVIOUS
    <3>5. r[k] = v /\ \E g : Inserts(g, r, q, k)
      BY <3>3, <3>4, EnqueueInserts
    <3> QED
      BY <3>1, <3>2, <3>3, <3>5
  <2>6. PICK o \in Objects : o = op[c].o
    BY <2>2
  <2>7. Fits(n)
    <3>1. Past(o)' => Past(o)
      BY <1>2, <2>4
    <3>2. Welcome(o)
      BY <2>1, <2>3, <2>6, <3>1
    <3>3. mEvtQueue'[n].obj = o
      BY <2>5, <2>6
    <3> QED
      BY <3>2, <3>3
  <2> HIDE DEF Fits
  <2> QED
    BY <1>8, <2>4, <2>5, <2>7
<1>12. ASSUME NEW b \in BOOLEAN, RepostEvent(b) PROVE \A k \in DOMAIN mEvtQueue' : Fits(k)
  <2> DEFINE x == item[1]
  <2>1. /\ evtPc = "callback" /\ UNCHANGED <<life, op>>
        /\ reposts' = [reposts EXCEPT ![x.obj] = @ + 1]
        /\ mEvtQueue' = item \o mEvtQueue \/ mEvtQueue' = mEvtQueue \o item
    BY <1>12 DEF RepostEvent, EvtUnchanged, regs
  <2>2. Busy /\ x \in Records /\ x.obj \in Objects /\ item = <<x>>
    BY <2>1, ItemType DEF Busy
  <2>3. life[x.obj] # "unborn" /\ reposts'[x.obj] # 0
    BY <2>1, <2>2 DEF LeftAlone, ThreadLeftAlone, TypeInv
  <2>4. \A d \in Clients : ~DestroyPurge(d)
    <3> SUFFICES ASSUME NEW d \in Clients, DestroyPurge(d) PROVE FALSE
      OBVIOUS
    <3>1. op[d].stage = "unregister" /\ op'[d].stage = "spin"
      BY DEF DestroyPurge, At, Doing, Stage, Become, TypeInv
    <3> QED
      BY <2>1, <3>1
  <2> HIDE DEF x
  <2>5. PICK g, n : Inserts(g, mEvtQueue', mEvtQueue, n) /\ mEvtQueue'[n] = x
    <3>1. mEvtQueue' = <<x>> \o mEvtQueue \/ mEvtQueue' = mEvtQueue \o <<x>>
      BY <2>1, <2>2
    <3>2. mEvtQueue \in Seq(Records) /\ x \in Records
      BY <1>1, <2>2
    <3> QED
      BY <3>1, <3>2, PutInserts
  <2>6. Fits(n)
    BY <2>1, <2>2, <2>3, <2>5
  <2> QED
    BY <1>8, <2>4, <2>5, <2>6
<1> HIDE DEF Fits
<1> QED
  BY <1>7, <1>9, <1>10, <1>11, <1>12, QueueSteps

\* Only the event thread goes from event to event.
LEMMA ClientsLeaveThread ==
  ASSUME TypeInv, Counted, NEW c \in Clients, Begin(c) \/ Continue(c)
  PROVE  /\ UNCHANGED <<curr, item, delivered, reposts>>
         /\ evtPc' = evtPc \/ (evtPc' \in {"none", "wait"} /\ evtPc \in {"none", "exited"})
<1> USE DEF evt
<1>1. UNCHANGED <<curr, item, delivered, reposts>>
  BY DEF Begin, Continue, Create, DestroyStart, PurgeEvents, RegisterStart, UnregisterStart,
       NotifyStart, RegisterFinish, UnregisterEnd, NotifyPush, NotifyEnd, UnregisterOne, NotifyCheck,
       DestroyUnregister, DestroyPurge, DestroySpin, DestroyLeave, DestroyJoin
<1>2. ASSUME NEW o \in Objects, Create(c, o)
      PROVE  evtPc' = evtPc \/ (evtPc' \in {"none", "wait"} /\ evtPc \in {"none", "exited"})
  BY <1>2 DEF Create, GetThread
<1>3. CASE DestroyJoin(c)
  BY <1>3 DEF DestroyJoin
<1>4. evtPc' = evtPc \/ DestroyJoin(c) \/ \E o \in Objects : Create(c, o)
  BY DEF Begin, Continue, DestroyStart, PurgeEvents, RegisterStart, UnregisterStart,
       NotifyStart, RegisterFinish, UnregisterEnd, NotifyPush, NotifyEnd, UnregisterOne, NotifyCheck,
       DestroyUnregister, DestroyPurge, DestroySpin, DestroyLeave
<1> QED
  BY <1>1, <1>2, <1>3, <1>4

\* An object waits in its destructor for the callback that the thread is in.
LEMMA WaitsKept ==
  ASSUME TypeInv, NEW c \in Clients, Begin(c) \/ Continue(c), Waits(curr), curr \in Objects
  PROVE  Waits(curr)'
<1>0. PICK o \in Objects : o = curr
  OBVIOUS
<1>1. curr' = curr
  BY DEF Begin, Continue, Create, DestroyStart, PurgeEvents, RegisterStart, UnregisterStart,
       NotifyStart, RegisterFinish, UnregisterEnd, NotifyPush, NotifyEnd, UnregisterOne, NotifyCheck,
       DestroyUnregister, DestroyPurge, DestroySpin, DestroyLeave, DestroyJoin, evt
<1>2. life[o] = "live" /\ \A d \in Clients : Destroying(d, o) => op[d].stage \in {"unregister", "spin"}
  BY <1>0 DEF Waits
<1> SUFFICES life'[o] = "live" /\ \A d \in Clients : Destroying(d, o)' => op'[d].stage \in {"unregister", "spin"}
  BY <1>0, <1>1 DEF Waits, Destroying, Doing
<1>3. CASE NoDestructor
  <2>1. \A d \in Clients : Destroying(d, o)' => Destroying(d, o) /\ op'[d] = op[d]
    BY <1>3 DEF NoDestructor, Destroying
  <2>2. life'[o] = "live"
    BY <1>2, <1>3 DEF NoDestructor
  <2> QED
    BY <1>2, <2>1, <2>2
<1>4. ASSUME NEW w, op' = [op EXCEPT ![c] = w], life' = life,
             w.kind = "destroy" /\ w.o = o => w.stage \in {"unregister", "spin"}
      PROVE  life'[o] = "live" /\ \A d \in Clients : Destroying(d, o)' => op'[d].stage \in {"unregister", "spin"}
  <2>1. \A d \in Clients : op'[d] = IF d = c THEN w ELSE op[d]
    BY <1>4 DEF TypeInv
  <2> QED
    BY <1>2, <1>4, <2>1 DEF Destroying, Doing
<1>5. ASSUME NEW p \in Objects, DestroyStart(c, p)
      PROVE  life'[o] = "live" /\ \A d \in Clients : Destroying(d, o)' => op'[d].stage \in {"unregister", "spin"}
  BY <1>4, <1>5 DEF DestroyStart, Stage, Become
<1>6. CASE DestroyPurge(c)
  BY <1>4, <1>6 DEF DestroyPurge, Stage, Become, regs
<1>7. CASE DestroySpin(c)
  <2>1. o # op[c].o
    BY <1>0, <1>7 DEF DestroySpin
  <2> QED
    BY <1>4, <1>7, <2>1 DEF DestroySpin, Stage, Become, regs
<1>8. ASSUME At(c, "leave") \/ At(c, "join") PROVE o # op[c].o
  BY <1>2, <1>8 DEF At, Doing, Destroying
<1>9. ASSUME o # op[c].o, life' = [life EXCEPT ![op[c].o] = "gone"], op' = [op EXCEPT ![c] = Idle]
      PROVE  life'[o] = "live" /\ \A d \in Clients : Destroying(d, o)' => op'[d].stage \in {"unregister", "spin"}
  <2>1. \A d \in Clients : op'[d] = IF d = c THEN Idle ELSE op[d]
    BY <1>9 DEF TypeInv
  <2>2. life'[o] = life[o]
    BY <1>9 DEF TypeInv
  <2>3. Idle.kind # "destroy"
    BY DEF Idle
  <2> QED
    BY <1>2, <2>1, <2>2, <2>3 DEF Destroying, Doing
<1>10. CASE DestroyLeave(c)
  <2>1. o # op[c].o
    BY <1>8, <1>10 DEF DestroyLeave
  <2>2. CASE mnbUses = 1
    BY <1>4, <1>10, <2>1, <2>2 DEF DestroyLeave, Stage, Become
  <2>3. CASE mnbUses # 1
    BY <1>9, <1>10, <2>1, <2>3 DEF DestroyLeave, Unregister, Become
  <2> QED
    BY <2>2, <2>3
<1>11. CASE DestroyJoin(c)
  BY <1>8, <1>9, <1>11 DEF DestroyJoin, Unregister, Become
<1> QED
  BY <1>3, <1>5, <1>6, <1>7, <1>10, <1>11, Destructors

\* A callback begins only for an object whose destructor has not begun, and the
\* destructor then waits for it.
LEMMA ThreadLeftAloneKept ==
  ASSUME TypeInv, TypeInv', Registered, Counted, LeftAlone, [Next]_vars
  PROVE  ThreadLeftAlone'
<1> USE DEF EvtUnchanged, regs
<1>0. /\ Busy => life[item[1].obj] # "unborn"
      /\ evtPc \in {"call", "callback", "release"} => curr = item[1].obj
      /\ evtPc = "callback" => Waits(item[1].obj)
  BY DEF LeftAlone, ThreadLeftAlone
<1>1. CASE UNCHANGED vars
  BY <1>0, <1>1 DEF ThreadLeftAlone, Busy, Waits, Destroying, Doing, vars, evt
<1>2. CASE EvtWake
  <2>1. ~Busy' /\ evtPc' # "callback"
    BY <1>2 DEF EvtWake, Busy
  <2> QED
    BY <2>1 DEF ThreadLeftAlone, Busy
<1>3. CASE EvtPop
  <2>1. CASE mEvtQueue = <<>>
    BY <1>3, <2>1 DEF EvtPop, ThreadLeftAlone, Busy
  <2>2. CASE mEvtQueue # <<>>
    <3>1. /\ evtPc' = "set" /\ item' = <<Head(mEvtQueue)>> /\ life' = life
          /\ 1 \in DOMAIN mEvtQueue /\ Head(mEvtQueue) = mEvtQueue[1]
      BY <1>3, <2>2, TailEmbeds DEF EvtPop, TypeInv
    <3>2. life[mEvtQueue[1].obj] # "unborn" /\ item'[1] = mEvtQueue[1]
      BY <3>1 DEF LeftAlone, QueueLeftAlone
    <3> QED
      BY <3>1, <3>2 DEF ThreadLeftAlone
  <2> QED
    BY <2>1, <2>2
<1>4. CASE EvtSet
  BY <1>0, <1>4 DEF EvtSet, ThreadLeftAlone, Busy
<1>5. CASE EvtCall
  <2>1. /\ Busy /\ UNCHANGED <<life, op, item, curr>> /\ evtPc = "call"
        /\ curr = item[1].obj
    BY <1>0, <1>5 DEF EvtCall, Busy
  <2>2. item[1].obj \in Objects
    BY <2>1, ItemType
  <2>3. CASE mbObsolete[item[1].obj]
    <3>1. evtPc' = "release"
      BY <1>5, <2>3 DEF EvtCall
    <3> QED
      BY <1>0, <2>1, <3>1 DEF ThreadLeftAlone
  <2>4. CASE ~mbObsolete[item[1].obj]
    <3>1. evtPc' = "callback"
      BY <1>5, <2>4 DEF EvtCall
    <3>2. life[item[1].obj] # "gone" /\ \A c \in Clients : ~Destroying(c, item[1].obj)
      BY <2>2, <2>4 DEF Registered, ObsoleteIffDestroyed
    <3>3. Waits(item[1].obj)
      BY <1>0, <2>1, <2>2, <3>2 DEF Waits, TypeInv
    <3>4. Waits(item[1].obj)'
      BY <2>1, <3>3 DEF Waits, Destroying, Doing
    <3> QED
      BY <1>0, <2>1, <3>1, <3>4 DEF ThreadLeftAlone
  <2> QED
    BY <2>3, <2>4
<1>6. CASE EvtReturn \/ EvtRelease
  BY <1>0, <1>6 DEF EvtReturn, EvtRelease, ThreadLeftAlone, Busy
<1>7. CASE Handler
  <2>1. UNCHANGED <<life, op, item, curr, evtPc>>
    BY <1>7 DEF Handler, RepostEvent, PopEvent, evt
  <2> QED
    BY <1>0, <2>1 DEF ThreadLeftAlone, Busy, Waits, Destroying, Doing
<1>8. ASSUME NEW c \in Clients, Begin(c) \/ Continue(c) PROVE ThreadLeftAlone'
  <2>1. /\ UNCHANGED <<curr, item>>
        /\ evtPc' = evtPc \/ evtPc' \in {"none", "wait"}
    BY <1>8, ClientsLeaveThread
  <2>2. CASE evtPc' \in {"none", "wait"}
    BY <2>2 DEF ThreadLeftAlone, Busy
  <2>3. CASE evtPc' = evtPc
    <3>1. Busy => item[1].obj \in Objects
      BY ItemType
    <3>2. Busy' => life'[item'[1].obj] # "unborn"
      <4>1. Busy' => Busy
        BY <2>3 DEF Busy
      <4> QED
        BY <1>0, <1>8, <2>1, <3>1, <4>1, PastSteps DEF Next
    <3>3. ASSUME evtPc = "callback" PROVE Waits(item[1].obj)'
      <4>1. curr \in Objects /\ Waits(curr) /\ curr = item[1].obj
        BY <1>0, <3>1, <3>3 DEF Busy
      <4>2. Waits(curr)'
        BY <1>8, <4>1, WaitsKept
      <4> QED
        BY <2>1, <4>1, <4>2 DEF Waits, Destroying, Doing
    <3> QED
      BY <1>0, <2>1, <2>3, <3>2, <3>3 DEF ThreadLeftAlone
  <2> QED
    BY <2>1, <2>2, <2>3
<1>9. Next => Evt \/ Handler \/ \E c \in Clients : Begin(c) \/ Continue(c)
  BY DEF Next
<1>10. Evt => EvtWake \/ EvtPop \/ EvtSet \/ EvtCall \/ EvtReturn \/ EvtRelease
  BY DEF Evt
<1> QED
  BY <1>1, <1>2, <1>3, <1>4, <1>5, <1>6, <1>7, <1>8, <1>9, <1>10, Zenon

-----------------------------------------------------------------------------
\* A set of one at most.
LEMMA AtMostOne ==
  ASSUME NEW S, \A c, d \in S : c = d
  PROVE  IsFiniteSet(S) /\ Cardinality(S) \in {0, 1} /\ (Cardinality(S) = 0 <=> S = {})
<1>1. CASE S = {}
  BY <1>1, FS_EmptySet
<1>2. ASSUME NEW c \in S PROVE IsFiniteSet(S) /\ Cardinality(S) = 1
  <2>1. S = {c}
    BY <1>2
  <2> QED
    BY <2>1, FS_Singleton
<1> QED
  BY <1>1, <1>2

\* Uses are counted in naturals.
LEMMA UsesType ==
  ASSUME TypeInv, NEW e, \A c, d \in Senders(e) : c = d
  PROVE  /\ Cardinality(Queued(mEvtQueue, e)) \in Nat
         /\ Cardinality(Senders(e)) \in {0, 1} /\ (Cardinality(Senders(e)) = 0 <=> Senders(e) = {})
         /\ ThreadUses(e) \in {0, 1}
         /\ Uses(e) \in Nat
<1>1. Cardinality(Queued(mEvtQueue, e)) \in Nat
  BY QueuedFinite DEF TypeInv
<1>2. Cardinality(Senders(e)) \in {0, 1} /\ (Cardinality(Senders(e)) = 0 <=> Senders(e) = {})
  BY AtMostOne
<1>3. ThreadUses(e) \in {0, 1}
  BY DEF ThreadUses
<1> QED
  BY <1>1, <1>2, <1>3 DEF Uses

\* A client sends an event from NotifyStart to NotifyEnd.
LEMMA SendersSteps ==
  ASSUME TypeInv, NEW c \in Clients, Begin(c) \/ Continue(c), NEW e
  PROVE  \/ Senders(e)' = Senders(e)
         \/ (\E n \in Notifiers : NotifyStart(c, n, e)) /\ Senders(e)' = Senders(e) \cup {c}
         \/ NotifyEnd(c) /\ op[c].e = e /\ c \in Senders(e) /\ Senders(e)' = Senders(e) \ {c}
<1> DEFINE Same == Senders(e)' = Senders(e)
<1>1. ASSUME NEW w, op' = [op EXCEPT ![c] = w]
      PROVE  /\ (Sends(w, e) <=> Sends(op[c], e)) => Same
             /\ Sends(w, e) => Senders(e)' = Senders(e) \cup {c}
             /\ ~Sends(w, e) => Senders(e)' = Senders(e) \ {c}
  <2>1. \A d \in Clients : op'[d] = IF d = c THEN w ELSE op[d]
    BY <1>1 DEF TypeInv
  <2> QED
    BY <2>1 DEF Senders
<1>2. ASSUME op' = op PROVE Same
  BY <1>2 DEF Senders
<1>3. ASSUME NEW w, op' = [op EXCEPT ![c] = w], ~Sends(w, e), ~Sends(op[c], e) PROVE Same
  BY <1>1, <1>3
<1> USE DEF Become, Doing, Stage, At
<1>4. ASSUME NEW o \in Objects, Create(c, o) \/ PurgeEvents(c, o) PROVE Same
  BY <1>2, <1>4 DEF Create, PurgeEvents
<1>5. ASSUME NEW n \in Notifiers, DestroyUnregister(c, n) PROVE Same
  BY <1>2, <1>5 DEF DestroyUnregister
<1>6. ASSUME NEW n \in Notifiers, NEW o \in Objects, RegisterStart(c, n, o) PROVE Same
  BY <1>3, <1>6 DEF RegisterStart, Sends
<1>7. ASSUME NEW n \in Notifiers, NEW S \in SUBSET Objects, UnregisterStart(c, n, S) PROVE Same
  BY <1>3, <1>7 DEF UnregisterStart, Sends
<1>8. ASSUME NEW o \in Objects, DestroyStart(c, o) PROVE Same
  BY <1>3, <1>8 DEF DestroyStart, Sends
<1>9. CASE RegisterFinish(c) \/ UnregisterEnd(c)
  <2>1. op' = [op EXCEPT ![c] = Idle] /\ ~Sends(op[c], e)
    BY <1>9 DEF RegisterFinish, UnregisterEnd, Sends
  <2>2. ~Sends(Idle, e)
    BY DEF Idle, Sends
  <2> QED
    BY <1>3, <2>1, <2>2
<1>10. CASE DestroyPurge(c) \/ DestroySpin(c)
  <2>1. /\ op' = [op EXCEPT ![c] = [kind |-> "destroy", o |-> op[c].o, stage |-> "spin"]]
           \/ op' = [op EXCEPT ![c] = [kind |-> "destroy", o |-> op[c].o, stage |-> "leave"]]
        /\ ~Sends(op[c], e)
    BY <1>10 DEF DestroyPurge, DestroySpin, Sends
  <2> QED
    BY <1>3, <2>1 DEF Sends
<1>11. CASE DestroyLeave(c) \/ DestroyJoin(c)
  <2>1. /\ op' = [op EXCEPT ![c] = [kind |-> "destroy", o |-> op[c].o, stage |-> "join"]]
           \/ op' = [op EXCEPT ![c] = Idle]
        /\ ~Sends(op[c], e)
    BY <1>11 DEF DestroyLeave, DestroyJoin, Sends
  <2> QED
    BY <1>3, <2>1 DEF Sends, Idle
<1>12. ASSUME NEW o \in Objects, UnregisterOne(c, o) PROVE Same
  <2>1. op[c] \in Unregisters
    BY <1>12, OpKind DEF UnregisterOne, TypeInv
  <2>2. op' = [op EXCEPT ![c] = [kind |-> "unregister", n |-> op[c].n, todo |-> op[c].todo \ {o}]]
    BY <1>12, <2>1, TodoExcept DEF UnregisterOne
  <2> QED
    BY <1>3, <2>1, <2>2 DEF Sends, Unregisters
<1>13. ASSUME NEW o \in Objects, NotifyCheck(c, o) PROVE Same
  <2> DEFINE v == [op[c] EXCEPT !.todo = @ \ {o}]
             w == [kind |-> "push", n |-> op[c].n, e |-> op[c].e,
                   todo |-> op[c].todo \ {o}, o |-> o]
  <2>1. op[c] \in Notifies
    BY <1>13, OpKind DEF NotifyCheck, TypeInv
  <2>2. v = [kind |-> "notify", n |-> op[c].n, e |-> op[c].e, todo |-> op[c].todo \ {o}]
    BY <2>1, TodoExcept
  <2>3. (Sends(v, e) <=> Sends(op[c], e)) /\ (Sends(w, e) <=> Sends(op[c], e))
    BY <2>1, <2>2 DEF Sends, Notifies
  <2>4. op' = [op EXCEPT ![c] = v] \/ op' = [op EXCEPT ![c] = w]
    <3>1. CASE mbObsolete[o]
      BY <1>13, <3>1 DEF NotifyCheck
    <3>2. CASE ~mbObsolete[o]
      BY <1>13, <3>2 DEF NotifyCheck
    <3> QED
      BY <3>1, <3>2
  <2> HIDE DEF v, w, Same
  <2> QED
    BY <1>1, <2>3, <2>4
<1>14. CASE NotifyPush(c)
  <2> DEFINE w == [kind |-> "notify", n |-> op[c].n, e |-> op[c].e, todo |-> op[c].todo]
  <2>1. op[c].kind = "push" /\ op' = [op EXCEPT ![c] = w]
    BY <1>14 DEF NotifyPush
  <2>2. Sends(w, e) <=> Sends(op[c], e)
    BY <2>1 DEF Sends
  <2>3. PICK v : v = w
    OBVIOUS
  <2>4. op' = [op EXCEPT ![c] = v] /\ (Sends(v, e) <=> Sends(op[c], e))
    BY <2>1, <2>2, <2>3
  <2>5. Same
    BY <1>1, <2>4
  <2> QED
    BY <2>5
<1>15. ASSUME NEW n \in Notifiers, NEW f \in Events, NotifyStart(c, n, f)
       PROVE  Same \/ (NotifyStart(c, n, e) /\ Senders(e)' = Senders(e) \cup {c})
  <2> DEFINE w == [kind |-> "notify", n |-> n, e |-> f, todo |-> objectList[n]]
  <2>1. op[c].kind = "idle" /\ op' = [op EXCEPT ![c] = w]
    BY <1>15 DEF NotifyStart
  <2>2. ~Sends(op[c], e) /\ (Sends(w, e) <=> f = e)
    BY <2>1 DEF Sends
  <2> HIDE DEF w, Same
  <2> QED
    BY <1>1, <1>15, <2>1, <2>2
<1>16. CASE NotifyEnd(c)
  <2>1. op[c].kind = "notify" /\ op' = [op EXCEPT ![c] = Idle]
    BY <1>16 DEF NotifyEnd
  <2>2. ~Sends(Idle, e) /\ (Sends(op[c], e) <=> op[c].e = e)
    BY <2>1 DEF Sends, Idle
  <2> HIDE DEF Same
  <2> QED
    BY <1>1, <1>16, <2>1, <2>2 DEF Senders
<1> HIDE DEF Same, Become, Doing, Stage, At
<1>17. CASE Begin(c)
  BY <1>4, <1>6, <1>7, <1>8, <1>15, <1>17 DEF Begin, Same
<1>18. CASE Continue(c)
  BY <1>5, <1>9, <1>10, <1>11, <1>12, <1>13, <1>14, <1>16, <1>18 DEF Continue, Same
<1> QED
  BY <1>17, <1>18

\* A step that counts the uses it adds, and adds one only to an event in use.
LEMMA UsesStep ==
  ASSUME TypeInv, TypeInv', NEW e \in Events, Covered(e), \A c, d \in Senders(e)' : c = d,
         NEW dq \in Int, NEW ds \in Int, NEW dt \in Int, NEW du \in Int,
         Cardinality(Queued(mEvtQueue', e)) <= Cardinality(Queued(mEvtQueue, e)) + dq,
         Cardinality(Senders(e)') = Cardinality(Senders(e)) + ds,
         ThreadUses(e)' = ThreadUses(e) + dt,
         nbUses'[e] = nbUses[e] + du,
         dq + ds + dt <= du,
         du # 0 => Uses(e) > 0
  PROVE  Covered(e)'
<1> DEFINE q == Cardinality(Queued(mEvtQueue, e))
           s == Cardinality(Senders(e))
           t == ThreadUses(e)
           n == nbUses[e]
<1>1. q \in Nat /\ s \in Nat /\ t \in Nat /\ Uses(e) = q + s + t /\ n \in Int
  <2>1. \A c, d \in Senders(e) : c = d
    BY DEF Covered
  <2>2. q \in Nat /\ s \in {0, 1} /\ t \in {0, 1}
    BY <2>1, UsesType
  <2>3. Uses(e) = q + s + t
    BY DEF Uses
  <2>4. n \in Int
    BY DEF TypeInv
  <2> HIDE DEF q, s, t, n
  <2> QED
    BY <2>2, <2>3, <2>4
<1>2. PICK q2 \in Nat, s2 \in Nat, t2 \in Nat, n2 \in Int :
        /\ q2 = Cardinality(Queued(mEvtQueue', e)) /\ s2 = Cardinality(Senders(e)')
        /\ t2 = ThreadUses(e)' /\ n2 = nbUses'[e] /\ Uses(e)' = q2 + s2 + t2
  <2>1. Cardinality(Queued(mEvtQueue', e)) \in Nat
    BY QueuedFinite DEF TypeInv
  <2>2. Cardinality(Senders(e)') \in Nat
    BY AtMostOne
  <2>3. ThreadUses(e)' \in Nat
    BY DEF ThreadUses
  <2>4. nbUses'[e] \in Int
    BY DEF TypeInv
  <2>5. Uses(e)' = Cardinality(Queued(mEvtQueue', e)) + Cardinality(Senders(e)') + ThreadUses(e)'
    BY DEF Uses
  <2> QED
    BY <2>1, <2>2, <2>3, <2>4, <2>5
<1>3. n >= q + s + t \/ (n = -1 /\ q + s + t = 0)
  BY <1>1 DEF Covered
<1>4. q2 <= q + dq /\ s2 = s + ds /\ t2 = t + dt /\ n2 = n + du
      /\ (du # 0 => q + s + t > 0)
  BY <1>1, <1>2
<1> HIDE DEF q, s, t, n
<1>5. n2 >= q2 + s2 + t2 \/ (n2 = -1 /\ q2 + s2 + t2 = 0)
  <2>1. CASE n >= q + s + t
    BY <1>1, <1>4, <2>1
  <2>2. CASE n = -1 /\ q + s + t = 0
    BY <1>1, <1>4, <2>2
  <2> QED
    BY <1>3, <2>1, <2>2
<1> QED
  BY <1>2, <1>5 DEF Covered

\* Every step keeps the uses of every event counted: the event thread's ...
LEMMA ThreadKeepsCovered ==
  ASSUME TypeInv, TypeInv', Evt \/ Handler, NEW e \in Events, Covered(e)
  PROVE  Covered(e)'
<1> DEFINE q == Cardinality(Queued(mEvtQueue, e))
           t == ThreadUses(e)
<1> USE DEF EvtUnchanged
<1>1. /\ mEvtQueue \in Seq(Records) /\ mEvtQueue' \in Seq(Records)
      /\ q \in Nat /\ t \in {0, 1} /\ Uses(e) = q + Cardinality(Senders(e)) + t
      /\ Cardinality(Senders(e)) \in Nat
      /\ nbUses[e] \in Int
  <2>1. \A c, d \in Senders(e) : c = d
    BY DEF Covered
  <2>2. q \in Nat /\ t \in {0, 1} /\ Cardinality(Senders(e)) \in Nat
    BY <2>1, UsesType
  <2>3. Uses(e) = q + Cardinality(Senders(e)) + t
    BY DEF Uses
  <2>4. mEvtQueue \in Seq(Records) /\ mEvtQueue' \in Seq(Records) /\ nbUses[e] \in Int
    BY DEF TypeInv
  <2> QED
    BY <2>2, <2>3, <2>4
<1>2. op' = op
  BY DEF Evt, Handler, EvtWake, EvtPop, EvtSet, EvtCall, EvtReturn, EvtRelease, RepostEvent,
         PopEvent
<1>3. Senders(e)' = Senders(e) /\ \A c, d \in Senders(e)' : c = d
  BY <1>2 DEF Senders, Covered
<1>4. ASSUME NEW dq \in Int, NEW dt \in Int, NEW du \in Int,
             Cardinality(Queued(mEvtQueue', e)) <= q + dq, ThreadUses(e)' = t + dt,
             nbUses'[e] = nbUses[e] + du, dq + dt <= du, du # 0 => q > 0 \/ t > 0
      PROVE  Covered(e)'
  <2>1. Cardinality(Senders(e)') = Cardinality(Senders(e)) + 0
    BY <1>1, <1>3
  <2>2. du # 0 => Uses(e) > 0
    BY <1>1, <1>4
  <2>3. dq + 0 + dt <= du
    BY <1>4
  <2>4. Cardinality(Queued(mEvtQueue', e)) <= Cardinality(Queued(mEvtQueue, e)) + dq
        /\ ThreadUses(e)' = ThreadUses(e) + dt /\ nbUses'[e] = nbUses[e] + du
    BY <1>4
  <2>5. 0 \in Int
    OBVIOUS
  <2> HIDE DEF q, t
  <2> QED
    BY <1>3, <2>1, <2>2, <2>3, <2>4, <2>5, UsesStep
<1>5. q <= q + 0 /\ t = t + 0 /\ nbUses[e] = nbUses[e] + 0
  BY <1>1
<1> HIDE DEF q, t
<1>6. ASSUME mEvtQueue' = mEvtQueue, ThreadUses(e)' = t, nbUses' = nbUses PROVE Covered(e)'
  <2>1. Cardinality(Queued(mEvtQueue', e)) <= q + 0
    BY <1>5, <1>6 DEF q
  <2> QED
    BY <1>4, <1>5, <1>6, <2>1
<1>7. CASE EvtWake \/ EvtSet \/ EvtCall \/ EvtReturn
  <2>1. UNCHANGED <<mEvtQueue, nbUses>>
    BY <1>7 DEF EvtWake, EvtSet, EvtCall, EvtReturn
  <2>2. ThreadUses(e)' = t
    <3>1. CASE EvtWake
      BY <3>1 DEF EvtWake, ThreadUses, Busy, t
    <3>2. CASE EvtCall
      BY <3>2 DEF EvtCall, ThreadUses, Busy, t
    <3>3. CASE EvtSet \/ EvtReturn
      BY <3>3 DEF EvtSet, EvtReturn, ThreadUses, Busy, t
    <3> QED
      BY <1>7, <3>1, <3>2, <3>3
  <2> QED
    BY <1>6, <2>1, <2>2
<1>8. CASE EvtPop
  <2>0. evtPc = "pop" /\ nbUses' = nbUses
    BY <1>8 DEF EvtPop
  <2>1. t = 0
    BY <2>0 DEF ThreadUses, Busy, t
  <2>2. CASE mEvtQueue = <<>>
    <3>1. mEvtQueue' = mEvtQueue /\ ThreadUses(e)' = 0
      BY <1>8, <2>2 DEF EvtPop, ThreadUses, Busy
    <3> QED
      BY <1>6, <2>0, <2>1, <3>1
  <2>3. CASE mEvtQueue # <<>>
    <3>1. /\ evtPc' = "set" /\ item' = <<Head(mEvtQueue)>> /\ mEvtQueue' = Tail(mEvtQueue)
          /\ Head(mEvtQueue) = mEvtQueue[1] /\ 1 \in DOMAIN mEvtQueue
          /\ \E f : Embeds(f, Tail(mEvtQueue), mEvtQueue, 1)
      BY <1>1, <1>8, <2>3, TailEmbeds DEF EvtPop
    <3>2. CASE mEvtQueue[1].evt = e
      <4>1. ThreadUses(e)' = 1
        BY <3>1, <3>2 DEF ThreadUses, Busy
      <4>2. Cardinality(Queued(mEvtQueue', e)) <= q - 1
        BY <1>1, <3>1, <3>2, CountEmbedded DEF q
      <4>3. Cardinality(Queued(mEvtQueue', e)) <= q + (-1)
        BY <1>1, <4>2
      <4> QED
        BY <1>1, <1>4, <1>5, <2>0, <2>1, <4>1, <4>3
    <3>3. CASE mEvtQueue[1].evt # e
      <4>1. ThreadUses(e)' = t
        BY <2>1, <3>1, <3>3 DEF ThreadUses
      <4>2. Cardinality(Queued(mEvtQueue', e)) <= q
        BY <1>1, <3>1, CountEmbedded DEF q
      <4> QED
        BY <1>1, <1>4, <1>5, <2>0, <4>1, <4>2
    <3> QED
      BY <3>2, <3>3
  <2> QED
    BY <2>2, <2>3
<1>9. CASE EvtRelease
  <2>1. /\ evtPc = "release" /\ evtPc' = "pop" /\ mEvtQueue' = mEvtQueue
        /\ nbUses' = [nbUses EXCEPT ![item[1].evt] = @ - 1]
    BY <1>9 DEF EvtRelease
  <2>2. Busy /\ ~Busy' /\ ThreadUses(e)' = 0
    BY <2>1 DEF Busy, ThreadUses
  <2>3. CASE item[1].evt = e
    <3>1. t = 1 /\ nbUses'[e] = nbUses[e] + (-1)
      BY <1>1, <2>1, <2>2, <2>3 DEF ThreadUses, TypeInv, t
    <3> QED
      BY <1>4, <1>5, <2>1, <2>2, <3>1 DEF q
  <2>4. CASE item[1].evt # e
    <3>1. t = 0 /\ nbUses'[e] = nbUses[e]
      BY <2>1, <2>4 DEF ThreadUses, TypeInv, t
    <3> QED
      BY <1>4, <1>5, <2>1, <2>2, <3>1 DEF q
  <2> QED
    BY <2>3, <2>4
<1>10. ASSUME NEW b \in BOOLEAN, RepostEvent(b) PROVE Covered(e)'
  <2> DEFINE x == item[1]
  <2>1. /\ evtPc = "callback" /\ UNCHANGED <<evtPc, item>>
        /\ nbUses' = [nbUses EXCEPT ![x.evt] = @ + 1]
        /\ mEvtQueue' = item \o mEvtQueue \/ mEvtQueue' = mEvtQueue \o item
    BY <1>10 DEF RepostEvent, evt
  <2>2. Busy /\ x \in Records /\ item = <<x>> /\ ThreadUses(e)' = t
    BY <2>1, ItemType DEF Busy, ThreadUses, t
  <2>3. x.evt = e => t = 1
    BY <2>2 DEF ThreadUses, t
  <2> HIDE DEF x
  <2>4. PICK g, p : Inserts(g, mEvtQueue', mEvtQueue, p) /\ mEvtQueue'[p] = x
    <3>1. mEvtQueue' = <<x>> \o mEvtQueue \/ mEvtQueue' = mEvtQueue \o <<x>>
      BY <2>1, <2>2
    <3>2. mEvtQueue \in Seq(Records) /\ x \in Records
      BY <1>1, <2>2
    <3> QED
      BY <3>1, <3>2, PutInserts
  <2>5. Cardinality(Queued(mEvtQueue', e)) <= q + (IF x.evt = e THEN 1 ELSE 0)
    <3>1. Cardinality(Queued(mEvtQueue', e)) <= q + (IF mEvtQueue'[p].evt = e THEN 1 ELSE 0)
      BY <1>1, <2>4, CountInserted DEF q
    <3> QED
      BY <2>4, <3>1
  <2>6. CASE x.evt = e
    <3>1. nbUses'[e] = nbUses[e] + 1
      BY <2>1, <2>6 DEF TypeInv
    <3>2. Cardinality(Queued(mEvtQueue', e)) <= q + 1 /\ t > 0
      BY <2>3, <2>5, <2>6
    <3>3. ThreadUses(e)' = t + 0
      BY <1>5, <2>2
    <3> QED
      BY <1>4, <3>1, <3>2, <3>3
  <2>7. CASE x.evt # e
    <3>1. nbUses'[e] = nbUses[e] + 0
      BY <1>1, <2>1, <2>7 DEF TypeInv
    <3>2. Cardinality(Queued(mEvtQueue', e)) <= q + 0
      BY <2>5, <2>7
    <3>3. ThreadUses(e)' = t + 0
      BY <1>5, <2>2
    <3> QED
      BY <1>4, <3>1, <3>2, <3>3
  <2> QED
    BY <2>6, <2>7
<1>11. ASSUME NEW i \in DOMAIN mEvtQueue, PopEvent(i) PROVE Covered(e)'
  <2>1. /\ mEvtQueue' = RemoveAt(mEvtQueue, i) /\ UNCHANGED <<evtPc, item>>
        /\ nbUses' = [nbUses EXCEPT ![mEvtQueue[i].evt] = @ - 1]
    BY <1>11 DEF PopEvent, evt
  <2>2. \E f : Embeds(f, mEvtQueue', mEvtQueue, i)
    BY <1>1, <2>1, RemoveAtEmbeds
  <2>3. ThreadUses(e)' = t
    BY <2>1 DEF ThreadUses, Busy, t
  <2>4. CASE mEvtQueue[i].evt = e
    <3>1. nbUses'[e] = nbUses[e] + (-1)
      BY <1>1, <2>1, <2>4 DEF TypeInv
    <3>2. Cardinality(Queued(mEvtQueue', e)) <= q - 1
      BY <1>1, <2>2, <2>4, CountEmbedded DEF q
    <3>3. Cardinality(Queued(mEvtQueue', e)) \in Nat
      BY <1>1, QueuedFinite
    <3>4. q > 0 /\ Cardinality(Queued(mEvtQueue', e)) <= q + (-1)
      BY <1>1, <3>2, <3>3
    <3> QED
      BY <1>1, <1>4, <1>5, <2>3, <3>1, <3>4
  <2>5. CASE mEvtQueue[i].evt # e
    <3>1. nbUses'[e] = nbUses[e] + 0
      BY <1>1, <2>1, <2>5 DEF TypeInv
    <3>2. Cardinality(Queued(mEvtQueue', e)) <= q
      BY <1>1, <2>2, CountEmbedded DEF q
    <3>3. Cardinality(Queued(mEvtQueue', e)) <= q + 0 /\ ThreadUses(e)' = t + 0
      BY <1>1, <1>5, <2>3, <3>2
    <3> QED
      BY <1>4, <3>1, <3>3
  <2> QED
    BY <2>4, <2>5
<1> QED
  BY <1>7, <1>8, <1>9, <1>10, <1>11 DEF Evt, Handler

\* ... and the clients'.
LEMMA ClientKeepsCovered ==
  ASSUME TypeInv, TypeInv', Counted, NEW c \in Clients, Begin(c) \/ Continue(c),
         NEW e \in Events, Covered(e)
  PROVE  Covered(e)'
<1> DEFINE q == Cardinality(Queued(mEvtQueue, e))
           s == Cardinality(Senders(e))
           t == ThreadUses(e)
<1>1. /\ mEvtQueue \in Seq(Records) /\ mEvtQueue' \in Seq(Records)
      /\ q \in Nat /\ t \in {0, 1} /\ Uses(e) = q + s + t
      /\ s \in {0, 1} /\ (s = 0 <=> Senders(e) = {})
      /\ nbUses[e] \in Int
  <2>1. \A d, f \in Senders(e) : d = f
    BY DEF Covered
  <2>2. q \in Nat /\ t \in {0, 1} /\ s \in {0, 1} /\ (s = 0 <=> Senders(e) = {})
    BY <2>1, UsesType
  <2>3. Uses(e) = q + s + t
    BY DEF Uses
  <2>4. mEvtQueue \in Seq(Records) /\ mEvtQueue' \in Seq(Records) /\ nbUses[e] \in Int
    BY DEF TypeInv
  <2> QED
    BY <2>2, <2>3, <2>4
<1>2. ThreadUses(e)' = t
  <2>1. UNCHANGED item /\ (evtPc' = evtPc \/ (evtPc' \in {"none", "wait"} /\ evtPc \in {"none", "exited"}))
    BY ClientsLeaveThread
  <2> QED
    BY <2>1 DEF ThreadUses, Busy
<1>3. ASSUME NEW dq \in Int, NEW ds \in Int, NEW du \in Int, \A d, f \in Senders(e)' : d = f,
             Cardinality(Queued(mEvtQueue', e)) <= q + dq, Cardinality(Senders(e)') = s + ds,
             nbUses'[e] = nbUses[e] + du, dq + ds <= du, du # 0 => s > 0
      PROVE  Covered(e)'
  <2>1. ThreadUses(e)' = ThreadUses(e) + 0
    BY <1>1, <1>2
  <2>2. du # 0 => Uses(e) > 0
    BY <1>1, <1>3
  <2>3. dq + ds + 0 <= du
    BY <1>3
  <2> QED
    BY <1>3, <2>1, <2>2, <2>3, UsesStep
<1> HIDE DEF q, s, t
<1>4. ~NotifyPush(c) => Cardinality(Queued(mEvtQueue', e)) <= q
  BY <1>1, ClientQueue, CountEmbedded DEF q
<1>5. CASE \E n \in Notifiers : NotifyStart(c, n, e)
  <2>1. nbUses[e] = -1 /\ nbUses' = [nbUses EXCEPT ![e] = 1] /\ op[c].kind = "idle"
    BY <1>5 DEF NotifyStart, Doing
  <2>2. Uses(e) = 0 /\ q = 0 /\ s = 0 /\ t = 0
    BY <1>1, <2>1 DEF Covered
  <2>3. Senders(e) = {}
    BY <1>1, <2>2
  <2>4. Senders(e)' \subseteq {c}
    BY <2>3, SendersSteps
  <2>5. \A d, f \in Senders(e)' : d = f
    BY <2>4
  <2>6. IsFiniteSet(Senders(e)') /\ Cardinality(Senders(e)') \in {0, 1}
    BY <2>5, AtMostOne
  <2>7. Cardinality(Queued(mEvtQueue', e)) \in Nat /\ Cardinality(Queued(mEvtQueue', e)) <= 0
    <3>1. ~NotifyPush(c)
      BY <2>1 DEF NotifyPush, Doing
    <3> QED
      BY <1>1, <1>4, <2>2, <3>1, QueuedFinite
  <2>8. nbUses'[e] = 1
    BY <2>1 DEF TypeInv
  <2>9. Uses(e)' = Cardinality(Queued(mEvtQueue', e)) + Cardinality(Senders(e)') + ThreadUses(e)'
    BY DEF Uses
  <2>10. nbUses'[e] >= Uses(e)'
    BY <1>2, <2>2, <2>6, <2>7, <2>8, <2>9
  <2> QED
    BY <2>5, <2>10 DEF Covered
<1>6. CASE NotifyPush(c)
  <2> DEFINE x == [evt |-> op[c].e, obj |-> op[c].o]
  <2>1. /\ op[c] \in Pushes /\ op[c].kind = "push" /\ mEvtQueue' = Append(mEvtQueue, x)
        /\ nbUses' = [nbUses EXCEPT ![x.evt] = @ + 1]
    BY <1>6, OpKind DEF NotifyPush, Enqueued, Doing, TypeInv
  <2>2. x \in Records
    BY <2>1 DEF Pushes, Records
  <2>3. PICK g, p : Inserts(g, mEvtQueue', mEvtQueue, p) /\ mEvtQueue'[p] = x
    <3>1. mEvtQueue \in Seq(Records) /\ x \in Records
      BY <1>1, <2>2
    <3>2. \/ mEvtQueue' = <<x>> \o mEvtQueue \/ mEvtQueue' = mEvtQueue \o <<x>>
          \/ mEvtQueue' = Append(mEvtQueue, x)
      BY <2>1
    <3> HIDE DEF x
    <3> QED
      BY <3>1, <3>2, PutInserts
  <2>4. Senders(e)' = Senders(e)
    <3>1. ~NotifyEnd(c) /\ \A n \in Notifiers : ~NotifyStart(c, n, e)
      BY <2>1 DEF NotifyEnd, NotifyStart, Doing
    <3> QED
      BY <3>1, SendersSteps
  <2>5. (\A d, f \in Senders(e)' : d = f) /\ Cardinality(Senders(e)') = s + 0
    BY <1>1, <2>4 DEF s, Covered
  <2>6. x.evt = e => s > 0
    <3>1. x.evt = e => c \in Senders(e)
      BY <2>1 DEF Senders, Sends
    <3> QED
      BY <1>1, <3>1
  <2> HIDE DEF x
  <2>7. Cardinality(Queued(mEvtQueue', e)) <= q + (IF x.evt = e THEN 1 ELSE 0)
    <3>1. Cardinality(Queued(mEvtQueue', e)) <= q + (IF mEvtQueue'[p].evt = e THEN 1 ELSE 0)
      BY <1>1, <2>3, CountInserted DEF q
    <3> QED
      BY <2>3, <3>1
  <2>8. CASE x.evt = e
    <3>1. nbUses'[e] = nbUses[e] + 1
      BY <2>1, <2>8 DEF TypeInv
    <3>2. Cardinality(Queued(mEvtQueue', e)) <= q + 1
      BY <2>7, <2>8
    <3> QED
      BY <1>3, <2>5, <2>6, <2>8, <3>1, <3>2
  <2>9. CASE x.evt # e
    <3>1. nbUses'[e] = nbUses[e] + 0
      BY <1>1, <2>1, <2>9 DEF TypeInv
    <3>2. Cardinality(Queued(mEvtQueue', e)) <= q + 0
      BY <2>7, <2>9
    <3> QED
      BY <1>3, <2>5, <3>1, <3>2
  <2> QED
    BY <2>8, <2>9
<1>7. CASE NotifyEnd(c) /\ op[c].e = e /\ c \in Senders(e) /\ Senders(e)' = Senders(e) \ {c}
  <2>1. op[c].kind = "notify" /\ nbUses' = [nbUses EXCEPT ![e] = @ - 1]
    BY <1>7 DEF NotifyEnd, Doing
  <2>2. Senders(e)' = {}
    BY <1>7 DEF Covered
  <2>3. (\A d, f \in Senders(e)' : d = f) /\ s = 1 /\ Cardinality(Senders(e)') = s + (-1)
    <3>1. s = 1
      BY <1>1, <1>7
    <3>2. Cardinality(Senders(e)') = 0
      BY <2>2, FS_EmptySet
    <3>3. 1 + (-1) = 0
      OBVIOUS
    <3> QED
      BY <2>2, <3>1, <3>2, <3>3
  <2>4. nbUses'[e] = nbUses[e] + (-1)
    BY <1>1, <2>1 DEF TypeInv
  <2>5. Cardinality(Queued(mEvtQueue', e)) <= q + 0
    <3>1. ~NotifyPush(c)
      BY <2>1 DEF NotifyPush, Doing
    <3> QED
      BY <1>1, <1>4, <3>1
  <2> QED
    BY <1>3, <2>3, <2>4, <2>5
<1>8. CASE /\ ~NotifyPush(c) /\ Senders(e)' = Senders(e)
           /\ \A n \in Notifiers : ~NotifyStart(c, n, e)
           /\ NotifyEnd(c) => op[c].e # e
  <2>1. nbUses'[e] = nbUses[e] + 0
    <3>1. ASSUME NEW n \in Notifiers, NEW f \in Events, NotifyStart(c, n, f)
          PROVE  nbUses'[e] = nbUses[e]
      <4>1. f # e /\ nbUses' = [nbUses EXCEPT ![f] = 1]
        BY <1>8, <3>1 DEF NotifyStart
      <4> QED
        BY <4>1 DEF TypeInv
    <3>2. CASE NotifyEnd(c)
      BY <1>8, <3>2 DEF NotifyEnd, TypeInv
    <3>3. \/ nbUses' = nbUses \/ NotifyEnd(c) \/ NotifyPush(c)
          \/ \E n \in Notifiers, f \in Events : NotifyStart(c, n, f)
      BY DEF Begin, Continue, Create, DestroyStart, PurgeEvents, RegisterStart, UnregisterStart,
         RegisterFinish, UnregisterEnd, UnregisterOne, NotifyCheck, DestroyUnregister,
         DestroyPurge, DestroySpin, DestroyLeave, DestroyJoin, queue
    <3> QED
      BY <1>1, <1>8, <3>1, <3>2, <3>3
  <2>2. Cardinality(Queued(mEvtQueue', e)) <= q + 0
    BY <1>1, <1>4, <1>8
  <2>3. (\A d, f \in Senders(e)' : d = f) /\ Cardinality(Senders(e)') = s + 0
    BY <1>1, <1>8 DEF s, Covered
  <2> QED
    BY <1>3, <2>1, <2>2, <2>3
<1>9. NotifyEnd(c) /\ op[c].e = e => c \in Senders(e) /\ Senders(e)' = Senders(e) \ {c}
  <2> SUFFICES ASSUME NotifyEnd(c), op[c].e = e
               PROVE  c \in Senders(e) /\ Senders(e)' = Senders(e) \ {c}
    OBVIOUS
  <2>1. op[c].kind = "notify" /\ op' = [op EXCEPT ![c] = Idle]
    BY DEF NotifyEnd, Doing, Become
  <2>2. \A d \in Clients : op'[d] = IF d = c THEN Idle ELSE op[d]
    BY <2>1 DEF TypeInv
  <2>3. Sends(op[c], e) /\ ~Sends(Idle, e)
    BY <2>1 DEF Sends, Idle
  <2> QED
    BY <2>2, <2>3 DEF Senders
<1> QED
  BY <1>5, <1>6, <1>7, <1>8, <1>9, SendersSteps

\* The uses of events, all together.
LEMMA ReferencedKept ==
  ASSUME TypeInv, TypeInv', Counted, Referenced, [Next]_vars
  PROVE  Referenced'
<1> SUFFICES ASSUME NEW e \in Events PROVE Covered(e)'
  BY DEF Referenced
<1>1. Covered(e)
  BY DEF Referenced
<1>2. CASE UNCHANGED vars
  BY <1>1, <1>2 DEF Covered, Senders, Uses, Queued, ThreadUses, Busy, vars, queue, evt
<1>3. Next => Evt \/ Handler \/ \E c \in Clients : Begin(c) \/ Continue(c)
  BY DEF Next
<1> QED
  BY <1>1, <1>2, <1>3, ThreadKeepsCovered, ClientKeepsCovered

-----------------------------------------------------------------------------
\* What was queued stays so, and what is queued is behind it.
LEMMA SentGrows ==
  ASSUME NEW s \in Seq(Events), NEW e \in Events
  PROVE  /\ \A x : IsSent(s, x) => IsSent(Append(s, e), x) /\ Before(Append(s, e), x, e)
         /\ \A x, y : Before(s, x, y) => Before(Append(s, e), x, y)
         /\ IsSent(Append(s, e), e)
<1> DEFINE r == Append(s, e)
           n == Len(s) + 1
<1>1. /\ \A m \in DOMAIN s : m \in DOMAIN r /\ r[m] = s[m] /\ m < n
      /\ n \in DOMAIN r /\ r[n] = e
  <2>1. Len(s) \in Nat /\ DOMAIN s = 1 .. Len(s)
    BY LenProperties
  <2>2. DOMAIN r = 1 .. n /\ r[n] = e /\ \A m \in 1 .. Len(s) : r[m] = s[m]
    BY AppendProperties, LenProperties
  <2> HIDE DEF r
  <2> QED
    BY <2>1, <2>2
<1> HIDE DEF r, n
<1>2. IsSent(r, e)
  BY <1>1 DEF IsSent
<1>3. \A x : IsSent(s, x) => IsSent(r, x) /\ Before(r, x, e)
  BY <1>1 DEF IsSent, Before
<1>4. \A x, y : Before(s, x, y) => Before(r, x, y)
  BY <1>1 DEF Before
<1> QED
  BY <1>2, <1>3, <1>4 DEF r

\* Events for o stay in their order, h being where each was in the queue.
LEMMA OrderCarries ==
  ASSUME NEW o, InOrder(o), NEW h, sent'[o] = sent[o], delivered'[o] = delivered[o],
         \A k \in DOMAIN mEvtQueue' : mEvtQueue'[k].obj = o =>
           h[k] \in DOMAIN mEvtQueue /\ mEvtQueue'[k] = mEvtQueue[h[k]],
         \A k, l \in DOMAIN mEvtQueue' :
           k < l /\ mEvtQueue'[k].obj = o /\ mEvtQueue'[l].obj = o => h[k] < h[l],
         Taken(o)' => Taken(o) /\ item' = item
  PROVE  InOrder(o)'
<1>1. (\A i, j \in DOMAIN delivered[o] :
         i < j => Before(sent[o], delivered[o][i], delivered[o][j]))'
  BY DEF InOrder
<1>2. (\A i \in DOMAIN delivered[o], k \in DOMAIN mEvtQueue :
         mEvtQueue[k].obj = o => Before(sent[o], delivered[o][i], mEvtQueue[k].evt))'
  BY DEF InOrder
<1>3. (\A k, l \in DOMAIN mEvtQueue :
         k < l /\ mEvtQueue[k].obj = o /\ mEvtQueue[l].obj = o
           => Before(sent[o], mEvtQueue[k].evt, mEvtQueue[l].evt))'
  BY DEF InOrder
<1>4. Taken(o)' =>
        (/\ \A i \in DOMAIN delivered[o] : Before(sent[o], delivered[o][i], item[1].evt)
         /\ \A k \in DOMAIN mEvtQueue :
              mEvtQueue[k].obj = o => Before(sent[o], item[1].evt, mEvtQueue[k].evt))'
  BY DEF InOrder
<1> QED
  BY <1>1, <1>2, <1>3, <1>4 DEF InOrder

\* Events for o that were queued: what was queued, taken or delivered still was.
LEMMA SentCarries ==
  ASSUME NEW o, AreSent(o), \A x : IsSent(sent[o], x) => IsSent(sent'[o], x),
         \A i \in DOMAIN delivered'[o] : IsSent(sent[o], delivered'[o][i]),
         \A k \in DOMAIN mEvtQueue' : mEvtQueue'[k].obj = o => IsSent(sent'[o], mEvtQueue'[k].evt),
         Busy' /\ item'[1].obj = o => IsSent(sent[o], item'[1].evt)
  PROVE  AreSent(o)'
<1>1. (\A i \in DOMAIN delivered[o] : IsSent(sent[o], delivered[o][i]))'
  OBVIOUS
<1>2. (\A k \in DOMAIN mEvtQueue : mEvtQueue[k].obj = o => IsSent(sent[o], mEvtQueue[k].evt))'
  OBVIOUS
<1>3. (Busy /\ item[1].obj = o => IsSent(sent[o], item[1].evt))'
  OBVIOUS
<1> QED
  BY <1>1, <1>2, <1>3 DEF AreSent

\* Steps that put nothing into the queue, and deliver nothing.
LEMMA EmbeddedKeepsOrdered ==
  ASSUME TypeInv, Ordered, NEW o \in Objects, NEW f, NEW p, Embeds(f, mEvtQueue', mEvtQueue, p),
         UNCHANGED <<sent, delivered>>, Busy' => Busy /\ item' = item,
         Taken(o)' => Taken(o), reposts'[o] = 0 => reposts[o] = 0
  PROVE  AreSent(o)' /\ (reposts'[o] = 0 => InOrder(o)')
<1>1. AreSent(o) /\ (reposts[o] = 0 => InOrder(o))
  BY DEF Ordered
<1>2. \A k \in DOMAIN mEvtQueue' : f[k] \in DOMAIN mEvtQueue /\ mEvtQueue'[k] = mEvtQueue[f[k]]
  BY DEF Embeds
<1>3. \A k, l \in DOMAIN mEvtQueue' : k < l => f[k] < f[l]
  BY DEF Embeds
<1>4. Taken(o)' => Taken(o) /\ item' = item
  BY DEF Taken, Busy
<1>5. InOrder(o) => InOrder(o)'
  BY <1>2, <1>3, <1>4, OrderCarries
<1>6. \A k \in DOMAIN mEvtQueue' : mEvtQueue'[k].obj = o => IsSent(sent'[o], mEvtQueue'[k].evt)
  BY <1>1, <1>2 DEF AreSent
<1>7. AreSent(o)'
  BY <1>1, <1>6, SentCarries DEF AreSent
<1> QED
  BY <1>1, <1>5, <1>7

\* The thread takes the first event.
LEMMA PopKeepsOrdered ==
  ASSUME TypeInv, Ordered, NEW o \in Objects, EvtPop, mEvtQueue # <<>>
  PROVE  AreSent(o)' /\ (reposts'[o] = 0 => InOrder(o)')
<1>1. AreSent(o) /\ (reposts[o] = 0 => InOrder(o))
  BY DEF Ordered
<1>2. /\ mEvtQueue' = Tail(mEvtQueue) /\ item' = <<mEvtQueue[1]>> /\ evtPc' = "set"
      /\ UNCHANGED <<sent, delivered, reposts>> /\ 1 \in DOMAIN mEvtQueue
      /\ \E f : Embeds(f, mEvtQueue', mEvtQueue, 1)
      /\ \A k \in DOMAIN mEvtQueue' : \E m \in DOMAIN mEvtQueue : m > 1 /\ mEvtQueue'[k] = mEvtQueue[m]
  <2>1. /\ mEvtQueue' = Tail(mEvtQueue) /\ item' = <<Head(mEvtQueue)>> /\ evtPc' = "set"
        /\ UNCHANGED <<sent, delivered, reposts>>
    BY DEF EvtPop, EvtUnchanged
  <2>2. mEvtQueue \in Seq(Records)
    BY DEF TypeInv
  <2> QED
    BY <2>1, <2>2, TailEmbeds
<1>3. Busy' /\ item'[1] = mEvtQueue[1] /\ (Taken(o)' <=> mEvtQueue[1].obj = o)
  BY <1>2 DEF Busy, Taken
<1>4. \A k \in DOMAIN mEvtQueue' : mEvtQueue'[k].obj = o => IsSent(sent'[o], mEvtQueue'[k].evt)
  BY <1>1, <1>2 DEF AreSent
<1>5. AreSent(o)'
  BY <1>1, <1>2, <1>3, <1>4, SentCarries DEF AreSent
<1>6. ASSUME InOrder(o) PROVE InOrder(o)'
  <2>1. PICK f : Embeds(f, mEvtQueue', mEvtQueue, 1)
    BY <1>2
  <2>2. /\ \A k \in DOMAIN mEvtQueue' : f[k] \in DOMAIN mEvtQueue /\ mEvtQueue'[k] = mEvtQueue[f[k]]
        /\ \A k, l \in DOMAIN mEvtQueue' : k < l => f[k] < f[l]
    BY <2>1 DEF Embeds
  <2>3. CASE mEvtQueue[1].obj # o
    BY <1>2, <1>3, <1>6, <2>2, <2>3, OrderCarries
  <2>4. CASE mEvtQueue[1].obj = o
    <3>1. /\ \A i, j \in DOMAIN delivered[o] :
               i < j => Before(sent[o], delivered[o][i], delivered[o][j])
          /\ \A i \in DOMAIN delivered[o], k \in DOMAIN mEvtQueue :
               mEvtQueue[k].obj = o => Before(sent[o], delivered[o][i], mEvtQueue[k].evt)
          /\ \A k, l \in DOMAIN mEvtQueue :
               k < l /\ mEvtQueue[k].obj = o /\ mEvtQueue[l].obj = o
                 => Before(sent[o], mEvtQueue[k].evt, mEvtQueue[l].evt)
      BY <1>6 DEF InOrder
    <3>2. (\A i, j \in DOMAIN delivered[o] :
             i < j => Before(sent[o], delivered[o][i], delivered[o][j]))'
      BY <1>2, <3>1
    <3>3. (\A i \in DOMAIN delivered[o], k \in DOMAIN mEvtQueue :
             mEvtQueue[k].obj = o => Before(sent[o], delivered[o][i], mEvtQueue[k].evt))'
      BY <1>2, <2>2, <3>1
    <3>4. (\A k, l \in DOMAIN mEvtQueue :
             k < l /\ mEvtQueue[k].obj = o /\ mEvtQueue[l].obj = o
               => Before(sent[o], mEvtQueue[k].evt, mEvtQueue[l].evt))'
      <4> SUFFICES ASSUME NEW k \in DOMAIN mEvtQueue', NEW l \in DOMAIN mEvtQueue', k < l,
                          mEvtQueue'[k].obj = o, mEvtQueue'[l].obj = o
                   PROVE  Before(sent'[o], mEvtQueue'[k].evt, mEvtQueue'[l].evt)
        OBVIOUS
      <4>1. /\ f[k] \in DOMAIN mEvtQueue /\ mEvtQueue'[k] = mEvtQueue[f[k]]
            /\ f[l] \in DOMAIN mEvtQueue /\ mEvtQueue'[l] = mEvtQueue[f[l]] /\ f[k] < f[l]
        BY <2>2
      <4> QED
        BY <1>2, <3>1, <4>1
    <3>5. (\A i \in DOMAIN delivered[o] : Before(sent[o], delivered[o][i], item[1].evt))'
      BY <1>2, <1>3, <2>4, <3>1
    <3>6. (\A k \in DOMAIN mEvtQueue :
             mEvtQueue[k].obj = o => Before(sent[o], item[1].evt, mEvtQueue[k].evt))'
      <4> SUFFICES ASSUME NEW k \in DOMAIN mEvtQueue', mEvtQueue'[k].obj = o
                   PROVE  Before(sent'[o], item'[1].evt, mEvtQueue'[k].evt)
        OBVIOUS
      <4>1. PICK m \in DOMAIN mEvtQueue : m > 1 /\ mEvtQueue'[k] = mEvtQueue[m]
        BY <1>2
      <4>2. 1 < m
        BY <4>1, LenProperties DEF TypeInv
      <4> QED
        BY <1>2, <1>3, <2>4, <3>1, <4>1, <4>2
    <3> QED
      BY <3>2, <3>3, <3>4, <3>5, <3>6 DEF InOrder
  <2> QED
    BY <2>3, <2>4
<1> QED
  BY <1>1, <1>2, <1>5, <1>6

\* The object gets the event that the thread has taken.
LEMMA CallKeepsOrdered ==
  ASSUME TypeInv, Ordered, NEW o \in Objects, EvtCall, ~mbObsolete[item[1].obj]
  PROVE  AreSent(o)' /\ (reposts'[o] = 0 => InOrder(o)')
<1> DEFINE p == item[1].obj
           x == item[1].evt
<1>1. AreSent(o) /\ (reposts[o] = 0 => InOrder(o))
  BY DEF Ordered
<1>2. /\ evtPc = "call" /\ evtPc' = "callback" /\ UNCHANGED <<item, mEvtQueue, sent, reposts>>
      /\ delivered' = [delivered EXCEPT ![p] = Append(@, x)]
  BY DEF EvtCall, EvtUnchanged
<1>3. Busy /\ ~Taken(o)' /\ p \in Objects /\ x \in Events /\ (p = o => Taken(o))
  BY <1>2, ItemType DEF Busy, Taken
<1> HIDE DEF p, x
<1>4. CASE p # o
  <2>1. delivered'[o] = delivered[o]
    BY <1>2, <1>4 DEF TypeInv
  <2>2. PICK h : \A k \in DOMAIN mEvtQueue : h[k] = k
    <3>1. \A k \in DOMAIN mEvtQueue : [m \in DOMAIN mEvtQueue |-> m][k] = k
      OBVIOUS
    <3> QED
      BY <3>1
  <2>3. ASSUME InOrder(o) PROVE InOrder(o)'
    <3>1. /\ \A k \in DOMAIN mEvtQueue' : h[k] \in DOMAIN mEvtQueue /\ mEvtQueue'[k] = mEvtQueue[h[k]]
          /\ \A k, l \in DOMAIN mEvtQueue' : k < l => h[k] < h[l]
      BY <1>2, <2>2
    <3> QED
      BY <1>2, <1>3, <2>1, <2>3, <3>1, OrderCarries
  <2>4. AreSent(o)'
    BY <1>1, <1>2, <1>3, <2>1 DEF AreSent, Busy
  <2> QED
    BY <1>1, <1>2, <2>3, <2>4
<1>5. CASE p = o
  <2> DEFINE d == delivered[o]
             n == Len(d) + 1
  <2>1. d \in Seq(Events) /\ delivered'[o] = Append(d, x)
    BY <1>2, <1>5 DEF TypeInv
  <2>2. /\ Len(d) \in Nat /\ DOMAIN d = 1 .. Len(d)
        /\ DOMAIN delivered'[o] = 1 .. n /\ delivered'[o][n] = x
        /\ \A i \in 1 .. Len(d) : delivered'[o][i] = d[i]
    BY <1>3, <2>1, LenProperties, AppendProperties
  <2>3. \A i \in DOMAIN delivered'[o] :
          \/ i = n /\ delivered'[o][i] = x
          \/ i \in DOMAIN d /\ delivered'[o][i] = d[i]
    BY <2>2
  <2>4. \A i, j \in DOMAIN delivered'[o] : i < j => i \in DOMAIN d /\ delivered'[o][i] = d[i]
    BY <2>2
  <2> HIDE DEF n
  <2>5. IsSent(sent[o], x)
    BY <1>1, <1>3, <1>5 DEF AreSent, p, x
  <2>6. AreSent(o)'
    <3>1. \A i \in DOMAIN delivered'[o] : IsSent(sent[o], delivered'[o][i])
      BY <1>1, <2>3, <2>5 DEF AreSent
    <3>2. Busy' /\ item'[1].obj = o => IsSent(sent[o], item'[1].evt)
      BY <1>2, <2>5 DEF x
    <3> QED
      BY <1>1, <1>2, <3>1, <3>2, SentCarries DEF AreSent
  <2>7. ASSUME InOrder(o) PROVE InOrder(o)'
    <3>1. /\ \A i, j \in DOMAIN d : i < j => Before(sent[o], d[i], d[j])
          /\ \A i \in DOMAIN d, k \in DOMAIN mEvtQueue :
               mEvtQueue[k].obj = o => Before(sent[o], d[i], mEvtQueue[k].evt)
          /\ \A i \in DOMAIN d : Before(sent[o], d[i], x)
          /\ \A k \in DOMAIN mEvtQueue : mEvtQueue[k].obj = o => Before(sent[o], x, mEvtQueue[k].evt)
      BY <1>3, <1>5, <2>7 DEF InOrder, x
    <3> HIDE DEF d
    <3>2. (\A i, j \in DOMAIN delivered[o] :
             i < j => Before(sent[o], delivered[o][i], delivered[o][j]))'
      BY <1>2, <2>3, <2>4, <3>1
    <3>3. (\A i \in DOMAIN delivered[o], k \in DOMAIN mEvtQueue :
             mEvtQueue[k].obj = o => Before(sent[o], delivered[o][i], mEvtQueue[k].evt))'
      BY <1>2, <2>3, <3>1
    <3> QED
      BY <1>2, <1>3, <2>7, <3>2, <3>3 DEF InOrder
  <2> QED
    BY <1>1, <1>2, <2>6, <2>7
<1> QED
  BY <1>4, <1>5

\* Steps that put an event for another object into the queue.
LEMMA OthersKeepOrdered ==
  ASSUME TypeInv, Ordered, NEW o \in Objects, NEW g, NEW p, Inserts(g, mEvtQueue', mEvtQueue, p),
         mEvtQueue'[p].obj # o, sent'[o] = sent[o], UNCHANGED <<delivered, evtPc, item>>,
         reposts'[o] = 0 => reposts[o] = 0
  PROVE  AreSent(o)' /\ (reposts'[o] = 0 => InOrder(o)')
<1>1. AreSent(o) /\ (reposts[o] = 0 => InOrder(o))
  BY DEF Ordered
<1>2. \A k \in DOMAIN mEvtQueue' : mEvtQueue'[k].obj = o =>
        k \in DOMAIN mEvtQueue' \ {p} /\ g[k] \in DOMAIN mEvtQueue /\ mEvtQueue'[k] = mEvtQueue[g[k]]
  BY DEF Inserts
<1>3. \A k, l \in DOMAIN mEvtQueue' :
        k < l /\ mEvtQueue'[k].obj = o /\ mEvtQueue'[l].obj = o => g[k] < g[l]
  BY <1>2 DEF Inserts
<1>4. Taken(o)' => Taken(o) /\ item' = item
  BY DEF Taken
<1>5. InOrder(o) => InOrder(o)'
  BY <1>2, <1>3, <1>4, OrderCarries
<1>6. \A k \in DOMAIN mEvtQueue' : mEvtQueue'[k].obj = o => IsSent(sent'[o], mEvtQueue'[k].evt)
  BY <1>1, <1>2 DEF AreSent
<1>7. AreSent(o)'
  BY <1>1, <1>6, SentCarries DEF AreSent, Busy
<1> QED
  BY <1>1, <1>5, <1>7

\* A notifier puts an event behind all that were queued for the object.
LEMMA PushKeepsOrdered ==
  ASSUME TypeInv, Ordered, NEW o \in Objects, NEW c \in Clients, NotifyPush(c)
  PROVE  AreSent(o)' /\ (reposts'[o] = 0 => InOrder(o)')
<1> DEFINE p == op[c].o
           e == op[c].e
           x == [evt |-> e, obj |-> p]
           n == Len(mEvtQueue) + 1
<1>1. AreSent(o) /\ (reposts[o] = 0 => InOrder(o))
  BY DEF Ordered
<1>2. /\ op[c] \in Pushes /\ mEvtQueue' = Append(mEvtQueue, x)
      /\ sent' = [sent EXCEPT ![p] = Append(@, e)]
      /\ UNCHANGED <<delivered, evtPc, item, reposts>>
  BY OpKind DEF NotifyPush, Enqueued, Doing, evt, TypeInv
<1>3. p \in Objects /\ e \in Events /\ x \in Records /\ x.evt = e /\ x.obj = p
      /\ mEvtQueue \in Seq(Records) /\ sent[o] \in Seq(Events)
  BY <1>2 DEF Pushes, Records, TypeInv
<1>4. PICK g : Inserts(g, mEvtQueue', mEvtQueue, n) /\ mEvtQueue'[n] = x
  BY <1>2, <1>3, EnqueueInserts
<1> HIDE DEF p, e
<1>5. CASE p # o
  <2>1. sent'[o] = sent[o]
    BY <1>2, <1>5 DEF TypeInv
  <2> QED
    BY <1>2, <1>3, <1>4, <1>5, <2>1, OthersKeepOrdered
<1>6. CASE p = o
  <2>1. sent'[o] = Append(sent[o], e)
    BY <1>2, <1>6 DEF TypeInv
  <2>2. /\ \A y : IsSent(sent[o], y) => IsSent(sent'[o], y) /\ Before(sent'[o], y, e)
        /\ \A y, z : Before(sent[o], y, z) => Before(sent'[o], y, z)
        /\ IsSent(sent'[o], e)
    BY <1>3, <2>1, SentGrows
  <2>3. /\ \A k \in DOMAIN mEvtQueue' :
             \/ k = n /\ mEvtQueue'[k] = x
             \/ k \in DOMAIN mEvtQueue /\ mEvtQueue'[k] = mEvtQueue[k]
        /\ \A k, l \in DOMAIN mEvtQueue' : k < l =>
             k \in DOMAIN mEvtQueue /\ mEvtQueue'[k] = mEvtQueue[k]
    <3>1. Len(mEvtQueue) \in Nat /\ DOMAIN mEvtQueue = 1 .. Len(mEvtQueue)
      BY <1>3, LenProperties
    <3>2. DOMAIN mEvtQueue' = 1 .. n /\ \A k \in 1 .. Len(mEvtQueue) : mEvtQueue'[k] = mEvtQueue[k]
      BY <1>2, <1>3, AppendProperties, LenProperties
    <3> HIDE DEF x
    <3> QED
      BY <1>4, <3>1, <3>2
  <2> HIDE DEF x, n
  <2>4. AreSent(o)'
    <3>1. \A k \in DOMAIN mEvtQueue' : mEvtQueue'[k].obj = o => IsSent(sent'[o], mEvtQueue'[k].evt)
      BY <1>1, <1>3, <2>2, <2>3 DEF AreSent
    <3> QED
      BY <1>1, <1>2, <2>2, <3>1, SentCarries DEF AreSent, Busy
  <2>5. ASSUME InOrder(o) PROVE InOrder(o)'
    <3>1. /\ \A i, j \in DOMAIN delivered[o] :
               i < j => Before(sent[o], delivered[o][i], delivered[o][j])
          /\ \A i \in DOMAIN delivered[o], k \in DOMAIN mEvtQueue :
               mEvtQueue[k].obj = o => Before(sent[o], delivered[o][i], mEvtQueue[k].evt)
          /\ \A k, l \in DOMAIN mEvtQueue :
               k < l /\ mEvtQueue[k].obj = o /\ mEvtQueue[l].obj = o
                 => Before(sent[o], mEvtQueue[k].evt, mEvtQueue[l].evt)
      BY <2>5 DEF InOrder
    <3>2. (\A i, j \in DOMAIN delivered[o] :
             i < j => Before(sent[o], delivered[o][i], delivered[o][j]))'
      BY <1>2, <2>2, <3>1
    <3>3. (\A i \in DOMAIN delivered[o], k \in DOMAIN mEvtQueue :
             mEvtQueue[k].obj = o => Before(sent[o], delivered[o][i], mEvtQueue[k].evt))'
      BY <1>1, <1>2, <1>3, <2>2, <2>3, <3>1 DEF AreSent
    <3>4. (\A k, l \in DOMAIN mEvtQueue :
             k < l /\ mEvtQueue[k].obj = o /\ mEvtQueue[l].obj = o
               => Before(sent[o], mEvtQueue[k].evt, mEvtQueue[l].evt))'
      BY <1>1, <1>3, <2>2, <2>3, <3>1 DEF AreSent
    <3>5. Taken(o)' => (\A i \in DOMAIN delivered[o] : Before(sent[o], delivered[o][i], item[1].evt))'
      BY <1>2, <2>2, <2>5 DEF InOrder, Taken
    <3>6. Taken(o)' => (\A k \in DOMAIN mEvtQueue :
                          mEvtQueue[k].obj = o => Before(sent[o], item[1].evt, mEvtQueue[k].evt))'
      <4>1. Taken(o)' => Taken(o)
        BY <1>2 DEF Taken
      <4>2. Taken(o) => IsSent(sent[o], item[1].evt)
        BY <1>1 DEF AreSent, Taken, Busy
      <4>3. Taken(o) => \A k \in DOMAIN mEvtQueue :
                          mEvtQueue[k].obj = o => Before(sent[o], item[1].evt, mEvtQueue[k].evt)
        BY <2>5 DEF InOrder
      <4> QED
        BY <1>2, <1>3, <2>2, <2>3, <4>1, <4>2, <4>3
    <3> QED
      BY <3>2, <3>3, <3>4, <3>5, <3>6 DEF InOrder
  <2> QED
    BY <1>1, <1>2, <2>4, <2>5
<1> QED
  BY <1>5, <1>6

\* An object that puts an event back disturbs the order of its own only.
LEMMA RepostKeepsOrdered ==
  ASSUME TypeInv, Ordered, NEW o \in Objects, NEW b \in BOOLEAN, RepostEvent(b)
  PROVE  AreSent(o)' /\ (reposts'[o] = 0 => InOrder(o)')
<1> DEFINE x == item[1]
<1>1. AreSent(o) /\ (reposts[o] = 0 => InOrder(o))
  BY DEF Ordered
<1>2. /\ evtPc = "callback" /\ UNCHANGED <<evtPc, item, delivered, sent>>
      /\ reposts' = [reposts EXCEPT ![x.obj] = @ + 1]
      /\ mEvtQueue' = item \o mEvtQueue \/ mEvtQueue' = mEvtQueue \o item
  BY DEF RepostEvent, EvtUnchanged, evt
<1>3. Busy /\ x \in Records /\ x.obj \in Objects /\ item = <<x>> /\ mEvtQueue \in Seq(Records)
  BY <1>2, ItemType DEF Busy, TypeInv
<1> HIDE DEF x
<1>4. PICK g, p : Inserts(g, mEvtQueue', mEvtQueue, p) /\ mEvtQueue'[p] = x
  <2>1. \/ mEvtQueue' = <<x>> \o mEvtQueue \/ mEvtQueue' = mEvtQueue \o <<x>>
        \/ mEvtQueue' = Append(mEvtQueue, x)
    BY <1>2, <1>3
  <2>2. mEvtQueue \in Seq(Records) /\ x \in Records
    BY <1>3
  <2>3. PICK q, r : q \in Seq(Records) /\ q = mEvtQueue /\ r = mEvtQueue'
    BY <2>2
  <2>4. r = <<x>> \o q \/ r = q \o <<x>> \/ r = Append(q, x)
    BY <2>1, <2>3
  <2>5. \E g, p : Inserts(g, r, q, p) /\ r[p] = x
    <3>1. PICK v \in Records : v = x
      BY <2>2
    <3>2. r = <<v>> \o q \/ r = q \o <<v>> \/ r = Append(q, v)
      BY <2>4, <3>1
    <3>3. \E g, p : Inserts(g, r, q, p) /\ r[p] = v
      BY <2>3, <3>2, PutInserts
    <3> QED
      BY <3>1, <3>3
  <2> QED
    BY <2>3, <2>5
<1>5. CASE x.obj # o
  <2>1. reposts'[o] = reposts[o]
    BY <1>2, <1>5 DEF TypeInv
  <2> QED
    BY <1>2, <1>4, <1>5, <2>1, OthersKeepOrdered
<1>6. CASE x.obj = o
  <2>1. reposts'[o] # 0
    BY <1>2, <1>3, <1>6 DEF TypeInv
  <2>2. IsSent(sent[o], x.evt)
    BY <1>1, <1>3, <1>6 DEF AreSent, x
  <2>3. \A k \in DOMAIN mEvtQueue' :
          k = p \/ (g[k] \in DOMAIN mEvtQueue /\ mEvtQueue'[k] = mEvtQueue[g[k]])
    BY <1>4 DEF Inserts
  <2>4. \A k \in DOMAIN mEvtQueue' : mEvtQueue'[k].obj = o => IsSent(sent'[o], mEvtQueue'[k].evt)
    BY <1>1, <1>2, <1>4, <2>2, <2>3 DEF AreSent
  <2>5. AreSent(o)'
    BY <1>1, <1>2, <2>4, SentCarries DEF AreSent, Busy
  <2> QED
    BY <2>1, <2>5
<1> QED
  BY <1>5, <1>6

\* Every step keeps the order.
LEMMA OrderedKept ==
  ASSUME TypeInv, Counted, Ordered, [Next]_vars
  PROVE  Ordered'
<1> SUFFICES ASSUME NEW o \in Objects PROVE AreSent(o)' /\ (reposts'[o] = 0 => InOrder(o)')
  BY DEF Ordered
<1>1. reposts'[o] = 0 => reposts[o] = 0
  BY PastSteps
<1>2. ASSUME NEW f, NEW p, Embeds(f, mEvtQueue', mEvtQueue, p), UNCHANGED <<sent, delivered>>,
             evtPc' = evtPc \/ ~Busy' \/ (evtPc = "set" /\ evtPc' = "call")
               \/ (evtPc \in {"call", "callback"} /\ evtPc' = "release"),
             Busy' => item' = item
      PROVE  AreSent(o)' /\ (reposts'[o] = 0 => InOrder(o)')
  <2>1. (Busy' => Busy /\ item' = item) /\ (Taken(o)' => Taken(o))
    BY <1>2 DEF Busy, Taken
  <2> QED
    BY <1>1, <1>2, <2>1, EmbeddedKeepsOrdered
<1>3. ASSUME mEvtQueue' = mEvtQueue PROVE \E f : Embeds(f, mEvtQueue', mEvtQueue, 0)
  <2>1. DOMAIN mEvtQueue = 1 .. Len(mEvtQueue) /\ Len(mEvtQueue) \in Nat
    BY LenProperties DEF TypeInv
  <2>2. Embeds([k \in DOMAIN mEvtQueue |-> k], mEvtQueue', mEvtQueue, 0)
    BY <1>3, <2>1 DEF Embeds
  <2> QED
    BY <2>2
<1> DEFINE Goal == AreSent(o)' /\ (reposts'[o] = 0 => InOrder(o)')
<1> USE DEF EvtUnchanged
<1>4. CASE UNCHANGED vars
  BY <1>2, <1>3, <1>4 DEF vars, queue, evt
<1>5. CASE EvtWake
  <2>1. ~Busy'
    BY <1>5 DEF EvtWake, Busy
  <2> QED
    BY <1>2, <1>3, <1>5, <2>1 DEF EvtWake
<1>6. CASE EvtPop
  <2>1. CASE mEvtQueue = <<>>
    <3>1. ~Busy' /\ UNCHANGED <<mEvtQueue, sent, delivered>>
      BY <1>6, <2>1 DEF EvtPop, Busy
    <3> QED
      BY <1>2, <1>3, <3>1 DEF Busy
  <2>2. CASE mEvtQueue # <<>>
    BY <1>6, <2>2, PopKeepsOrdered
  <2> QED
    BY <2>1, <2>2
<1>7. CASE EvtCall
  <2>1. CASE mbObsolete[item[1].obj]
    BY <1>2, <1>3, <1>7, <2>1 DEF EvtCall
  <2>2. CASE ~mbObsolete[item[1].obj]
    BY <1>7, <2>2, CallKeepsOrdered
  <2> QED
    BY <2>1, <2>2
<1>8. CASE EvtSet \/ EvtReturn
  BY <1>2, <1>3, <1>8 DEF EvtSet, EvtReturn
<1>9. CASE EvtRelease
  <2>1. ~Busy' /\ UNCHANGED <<mEvtQueue, sent, delivered>>
    BY <1>9 DEF EvtRelease, Busy
  <2> QED
    BY <1>2, <1>3, <2>1
<1>10. ASSUME NEW i \in DOMAIN mEvtQueue, PopEvent(i) PROVE Goal
  <2>1. \E f : Embeds(f, mEvtQueue', mEvtQueue, i)
    BY <1>10, RemoveAtEmbeds DEF PopEvent, TypeInv
  <2>2. UNCHANGED <<sent, delivered, evtPc, item>>
    BY <1>10 DEF PopEvent, evt
  <2> QED
    BY <1>2, <2>1, <2>2
<1>11. ASSUME NEW b \in BOOLEAN, RepostEvent(b) PROVE Goal
  BY <1>11, RepostKeepsOrdered
<1>12. ASSUME NEW c \in Clients, Begin(c) \/ Continue(c) PROVE Goal
  <2>1. CASE NotifyPush(c)
    BY <2>1, PushKeepsOrdered
  <2>2. CASE ~NotifyPush(c)
    <3>1. UNCHANGED <<item, delivered>> /\ (evtPc' = evtPc \/ ~Busy')
      BY <1>12, ClientsLeaveThread DEF Busy
    <3>2. UNCHANGED sent
      BY <1>12, <2>2 DEF Begin, Continue, Create, DestroyStart, PurgeEvents, RegisterStart,
         UnregisterStart, NotifyStart, RegisterFinish, UnregisterEnd, NotifyEnd, UnregisterOne,
         NotifyCheck, DestroyUnregister, DestroyPurge, DestroySpin, DestroyLeave, DestroyJoin, queue
    <3>3. PICK f : Embeds(f, mEvtQueue', mEvtQueue, 0)
      BY <1>12, <2>2, ClientQueue
    <3> QED
      BY <1>2, <3>1, <3>2, <3>3
  <2> QED
    BY <2>1, <2>2
<1> HIDE DEF Goal
<1>13. Next => Evt \/ Handler \/ \E c \in Clients : Begin(c) \/ Continue(c)
  BY DEF Next
<1>14. (Evt => EvtWake \/ EvtPop \/ EvtSet \/ EvtCall \/ EvtReturn \/ EvtRelease)
       /\ (Handler => (\E b \in BOOLEAN : RepostEvent(b)) \/ \E i \in DOMAIN mEvtQueue : PopEvent(i))
  BY DEF Evt, Handler
<1>15. Goal
  BY <1>4, <1>5, <1>6, <1>7, <1>8, <1>9, <1>10, <1>11, <1>12, <1>13, <1>14, Zenon DEF Goal
<1> QED
  BY <1>15 DEF Goal

-----------------------------------------------------------------------------
\* The invariant holds at first.
LEMMA InitIInv == Init => IInv
<1> SUFFICES ASSUME Init PROVE IInv
  OBVIOUS
<1> USE NotificationAssumption DEF Init
<1>1. TypeInv
  <2>1. /\ life \in [Objects -> {"unborn", "live", "gone"}] /\ mbObsolete \in [Objects -> BOOLEAN]
        /\ pmNotifierObjectList \in [Objects -> SUBSET Notifiers]
        /\ objectList \in [Notifiers -> SUBSET Objects]
        /\ mLockNotifier \in [Notifiers -> Clients \cup {NULL}]
        /\ mLockHidden \in [Objects -> Clients \cup {NULL}]
    OBVIOUS
  <2>2. op \in [Clients -> Ops]
    BY DEF Ops
  <2>3. /\ mEvtQueue \in Seq(Records) /\ mnbUses \in Nat /\ nbUses \in [Events -> Int]
        /\ reposts \in [Objects -> Nat]
    OBVIOUS
  <2>4. sent \in [Objects -> Seq(Events)] /\ delivered \in [Objects -> Seq(Events)]
    OBVIOUS
  <2>5. ~Busy /\ evtPc = "none"
    BY DEF Busy
  <2> QED
    BY <2>1, <2>2, <2>3, <2>4, <2>5 DEF TypeInv
<1>2. /\ \A c \in Clients : op[c] = Idle /\ Idle.kind = "idle"
      /\ \A o \in Objects : life[o] = "unborn" /\ mbObsolete[o] = FALSE
                            /\ pmNotifierObjectList[o] = {}
      /\ \A n \in Notifiers : objectList[n] = {}
  BY DEF Idle
<1>3. Registered
  BY <1>2 DEF Registered, NotifierLocked, OneDestroyer, ObsoleteIffDestroyed, RegisteringAlive,
              Mutual, RegisteredAlive, TodoRegistered, Holds, Destroying, Doing
<1>4. Counted
  <2>1. Users = {}
    BY <1>2 DEF Users
  <2>2. IsFiniteSet(Users) /\ mnbUses = Cardinality(Users)
    BY <2>1, FS_EmptySet
  <2> QED
    BY <1>2, <2>2 DEF Counted, At, Doing
<1>5. DOMAIN mEvtQueue = {} /\ ~Busy /\ evtPc = "none"
  BY DEF Busy
<1>6. LeftAlone
  BY <1>2, <1>5 DEF LeftAlone, QueueLeftAlone, ThreadLeftAlone
<1>7. Referenced
  <2> SUFFICES ASSUME NEW e \in Events PROVE Covered(e)
    BY DEF Referenced
  <2>1. Senders(e) = {}
    BY <1>2 DEF Senders, Sends
  <2>2. Queued(mEvtQueue, e) = {} /\ ThreadUses(e) = 0
    BY <1>5 DEF Queued, ThreadUses
  <2>3. Uses(e) = 0
    <3>1. Cardinality({}) = 0
      BY FS_EmptySet
    <3>2. 0 + 0 + 0 = 0
      OBVIOUS
    <3> QED
      BY <2>1, <2>2, <3>1, <3>2 DEF Uses
  <2>4. nbUses[e] = -1
    OBVIOUS
  <2> QED
    BY <2>1, <2>3, <2>4 DEF Covered
<1>8. Ordered
  BY <1>5 DEF Ordered, AreSent, InOrder, Taken
<1> QED
  BY <1>1, <1>3, <1>4, <1>6, <1>7, <1>8 DEF IInv

\* Every step keeps it.
LEMMA NextIInv == IInv /\ [Next]_vars => IInv'
<1> SUFFICES ASSUME IInv, [Next]_vars PROVE IInv'
  OBVIOUS
<1>1. TypeInv /\ Registered /\ Counted /\ LeftAlone /\ Referenced /\ Ordered
  BY DEF IInv
<1>2. TypeInv'
  <2>1. CASE UNCHANGED vars
    BY <1>1, <2>1 DEF TypeInv, Busy, vars, regs, locks, queue, evt, group
  <2>2. Next => Evt \/ Handler \/ \E c \in Clients : Begin(c) \/ Continue(c)
    BY DEF Next
  <2> QED
    BY <1>1, <2>1, <2>2, ThreadTypes, ClientTypes
<1>3. Registered' /\ Counted'
  BY <1>1, RegisteredKept, CountedKept
<1>4. LeftAlone'
  BY <1>1, <1>2, QueueLeftAloneKept, ThreadLeftAloneKept DEF LeftAlone
<1>5. Referenced' /\ Ordered'
  BY <1>1, <1>2, ReferencedKept, OrderedKept
<1> QED
  BY <1>2, <1>3, <1>4, <1>5 DEF IInv

\* The inductive invariant holds of every behaviour: of who is registered and
\* destroyed, of the queue, the event thread and the uses of events.
THEOREM Invariance == Spec => []IInv
BY InitIInv, NextIInv, PTL DEF Spec

\* Type correctness, and an event that is queued, delivered or still sent is
\* counted for each: cTEvent's Release does not delete it under a user.
THEOREM AllEventsAlive == Spec => []EventsAlive
<1>1. IInv => EventsAlive
  <2> SUFFICES ASSUME IInv PROVE EventsAlive
    OBVIOUS
  <2>1. TypeInv /\ Counted /\ Referenced
    BY DEF IInv
  <2>2. TypeOK
    BY <2>1 DEF TypeOK, TypeInv, Counted, Users, Records
  <2>3. ASSUME NEW e \in Events, nbUses[e] # -1 PROVE nbUses[e] >= Uses(e)
    BY <2>1, <2>3 DEF Referenced, Covered
  <2>4. \A e \in Events : nbUses[e] # -1 =>
          nbUses[e] >= Cardinality({i \in DOMAIN mEvtQueue : mEvtQueue[i].evt = e})
                     + Cardinality({c \in Clients : op[c].kind \in {"notify", "push"}
                                                    /\ op[c].e = e})
                     + (IF evtPc \in {"set", "call", "callback", "release"} /\ item[1].evt = e
                        THEN 1 ELSE 0)
    BY <2>3, Zenon DEF Uses, Queued, Senders, Sends, ThreadUses, Busy
  <2> QED
    BY <2>2, <2>4, Zenon DEF EventsAlive
<1> QED
  BY <1>1, Invariance, PTL

\* Once Disable has purged the queue nothing is queued for an object that does not
\* repost, and no callback of an object is under way when it is gone.
THEOREM DestroyedLeftAlone == Spec => []DestroyedObjectLeftAlone
<1>1. IInv => DestroyedObjectLeftAlone
  <2> SUFFICES ASSUME IInv PROVE PurgedForGood /\ CallbackKeepsObject
    BY DEF DestroyedObjectLeftAlone
  <2>1. LeftAlone
    BY DEF IInv
  <2>2. PurgedForGood
    BY <2>1 DEF PurgedForGood, LeftAlone, QueueLeftAlone, Past, Destroying
  <2>3. CallbackKeepsObject
    BY <2>1 DEF CallbackKeepsObject, LeftAlone, ThreadLeftAlone, Waits
  <2> QED
    BY <2>2, <2>3
<1> QED
  BY <1>1, Invariance, PTL

\* An object that does not repost gets its events in the order they were queued
\* for it, whatever notifiers, purges and other objects do.
THEOREM AllDeliveredInOrder == Spec => []DeliveredInOrder
<1>1. IInv => DeliveredInOrder
  BY DEF IInv, Ordered, InOrder, Before, DeliveredInOrder
<1> QED
  BY <1>1, Invariance, PTL

=============================================================================
