-------------------------- MODULE SharedListProofs --------------------------
(***************************************************************************)
(* SharedList loses, repeats and reorders no record, its semaphore counts  *)
(* what is to be read, and the record a reader has is not written to: for  *)
(* all lists, processes and sizes, until the first mishap.                 *)
(***************************************************************************)
EXTENDS SharedList, FiniteSetTheorems, SequenceTheorems, TLAPS

-----------------------------------------------------------------------------
\* The slots are a ring.

\* The slot n behind slot a, and how far slot b is behind slot a.
At(a, n)    == (a + n) % NbRec
Ahead(a, b) == (b - a) % NbRec

\* The remainder of a number that is at most a round below or above the slots.
LEMMA RemainderIs ==
  ASSUME NEW x \in Int, x >= -NbRec, x < 2 * NbRec
  PROVE  x % NbRec = IF x < 0 THEN x + NbRec ELSE IF x < NbRec THEN x ELSE x - NbRec
<1> DEFINE q == x \div NbRec
           m == x % NbRec
<1>1. NbRec \in Nat \ {0}
  BY SharedListAssumption
<1>2. q \in Int /\ m \in 0 .. NbRec - 1 /\ x = NbRec * q + m
  BY <1>1
<1> HIDE DEF q, m
<1>3. CASE q >= 2
  <2>1. NbRec * q >= NbRec * 2
    BY <1>1, <1>2, <1>3
  <2> QED
    BY <1>1, <1>2, <2>1
<1>4. CASE q <= -2
  <2>1. NbRec * q <= NbRec * (-2)
    BY <1>1, <1>2, <1>4
  <2> QED
    BY <1>1, <1>2, <2>1
<1>5. CASE q = -1
  <2>1. NbRec * q = -NbRec
    BY <1>1, <1>5
  <2> QED
    BY <1>1, <1>2, <2>1 DEF m
<1>6. CASE q = 0
  <2>1. NbRec * q = 0
    BY <1>1, <1>6
  <2> QED
    BY <1>1, <1>2, <2>1 DEF m
<1>7. CASE q = 1
  <2>1. NbRec * q = NbRec
    BY <1>1, <1>7
  <2> QED
    BY <1>1, <1>2, <2>1 DEF m
<1> QED
  BY <1>2, <1>3, <1>4, <1>5, <1>6, <1>7

\* The slot after another, the one n behind it, and the distance of two.
LEMMA Ring ==
  ASSUME NEW a \in Slots, NEW b \in Slots, NEW n \in 0 .. NbRec - 1
  PROVE  /\ After(a) \in Slots /\ At(a, n) \in Slots /\ Ahead(a, b) \in 0 .. NbRec - 1
         /\ At(a, 1) = After(a)
         /\ At(a, Ahead(a, b)) = b /\ Ahead(a, At(a, n)) = n
         /\ Ahead(a, b) = 0 <=> a = b
         /\ After(b) # a => Ahead(a, After(b)) = Ahead(a, b) + 1
         /\ After(b) = a => Ahead(a, b) = NbRec - 1
         /\ a # b => Ahead(After(a), b) = Ahead(a, b) - 1
         /\ Ahead(After(a), a) = NbRec - 1
         /\ n # NbRec - 1 => At(After(a), n) = At(a, n + 1)
<1>1. NbRec \in Nat /\ NbRec > 1
  BY SharedListAssumption
<1>2. /\ a \in 0 .. NbRec - 1 /\ b \in 0 .. NbRec - 1
      /\ After(a) = IF a + 1 < NbRec THEN a + 1 ELSE 0
      /\ After(b) = IF b + 1 < NbRec THEN b + 1 ELSE 0
  BY <1>1, RemainderIs DEF Slots, After
<1>3. \A i \in 0 .. NbRec - 1, k \in 0 .. NbRec - 1 :
        At(i, k) = IF i + k < NbRec THEN i + k ELSE i + k - NbRec
  BY <1>1, RemainderIs DEF At
<1>4. \A i, k \in 0 .. NbRec - 1 : Ahead(i, k) = IF k < i THEN k - i + NbRec ELSE k - i
  BY <1>1, RemainderIs DEF Ahead
<1>5. /\ After(a) \in 0 .. NbRec - 1 /\ After(b) \in 0 .. NbRec - 1
      /\ At(a, n) = IF a + n < NbRec THEN a + n ELSE a + n - NbRec
      /\ At(a, n) \in 0 .. NbRec - 1
      /\ Ahead(a, b) = IF b < a THEN b - a + NbRec ELSE b - a
      /\ Ahead(a, b) \in 0 .. NbRec - 1
  <2>1. /\ After(a) \in 0 .. NbRec - 1 /\ After(b) \in 0 .. NbRec - 1
        /\ At(a, n) = IF a + n < NbRec THEN a + n ELSE a + n - NbRec
        /\ Ahead(a, b) = IF b < a THEN b - a + NbRec ELSE b - a
    BY <1>1, <1>2, <1>3, <1>4
  <2> QED
    BY <1>1, <1>2, <2>1
<1>6. /\ After(a) \in Slots /\ At(a, n) \in Slots
      /\ At(a, 1) = After(a)
      /\ Ahead(a, b) = 0 <=> a = b
  BY <1>1, <1>2, <1>3, <1>5 DEF Slots
<1>7. At(a, Ahead(a, b)) = b /\ Ahead(a, At(a, n)) = n
  BY <1>1, <1>2, <1>3, <1>4, <1>5
<1>8. /\ After(b) # a => Ahead(a, After(b)) = Ahead(a, b) + 1
      /\ After(b) = a => Ahead(a, b) = NbRec - 1
      /\ a # b => Ahead(After(a), b) = Ahead(a, b) - 1
      /\ Ahead(After(a), a) = NbRec - 1
  <2>1. After(b) # a => Ahead(a, After(b)) = Ahead(a, b) + 1
    <3>1. Ahead(a, After(b)) = IF After(b) < a THEN After(b) - a + NbRec ELSE After(b) - a
      BY <1>2, <1>4, <1>5
    <3> QED
      BY <1>1, <1>2, <1>5, <3>1
  <2>2. After(b) = a => Ahead(a, b) = NbRec - 1
    BY <1>1, <1>2, <1>5
  <2>3. a # b => Ahead(After(a), b) = Ahead(a, b) - 1
    <3>1. Ahead(After(a), b) = IF b < After(a) THEN b - After(a) + NbRec ELSE b - After(a)
      BY <1>2, <1>4, <1>5
    <3> QED
      BY <1>1, <1>2, <1>5, <3>1
  <2>4. Ahead(After(a), a) = NbRec - 1
    <3>1. Ahead(After(a), a) = IF a < After(a) THEN a - After(a) + NbRec ELSE a - After(a)
      BY <1>2, <1>4, <1>5
    <3> QED
      BY <1>1, <1>2, <1>5, <3>1
  <2> QED
    BY <2>1, <2>2, <2>3, <2>4
<1>9. n # NbRec - 1 => At(After(a), n) = At(a, n + 1)
  BY <1>1, <1>2, <1>3, <1>5
<1> QED
  BY <1>5, <1>6, <1>7, <1>8, <1>9

\* The distance of two slots.
LEMMA Distances ==
  \A a, b \in Slots :
    /\ Ahead(a, b) \in 0 .. NbRec - 1 /\ Ahead(a, b) \in Nat
    /\ Ahead(a, b) = 0 <=> a = b
    /\ At(a, Ahead(a, b)) = b
    /\ After(b) # a => Ahead(a, After(b)) = Ahead(a, b) + 1
    /\ a # b => Ahead(After(a), b) = Ahead(a, b) - 1
<1> SUFFICES ASSUME NEW a \in Slots, NEW b \in Slots
             PROVE  /\ Ahead(a, b) \in 0 .. NbRec - 1 /\ Ahead(a, b) \in Nat
                    /\ Ahead(a, b) = 0 <=> a = b
                    /\ At(a, Ahead(a, b)) = b
                    /\ After(b) # a => Ahead(a, After(b)) = Ahead(a, b) + 1
                    /\ a # b => Ahead(After(a), b) = Ahead(a, b) - 1
  OBVIOUS
<1>1. 0 \in 0 .. NbRec - 1 /\ NbRec \in Nat
  BY SharedListAssumption
<1> QED
  BY <1>1, Ring

-----------------------------------------------------------------------------
\* The inductive invariant.

Handings == [slot : Slots, record : 0 .. MaxPuts, nth : Nat]

Types ==
  /\ TypeOK
  /\ held \in [Processes -> Handings \cup {NULL}]
  /\ puts \in 0 .. MaxPuts
  /\ uncounted \in Nat
  /\ accepted \in [Lists -> Seq(0 .. MaxPuts)] /\ taken \in [Lists -> Seq(0 .. MaxPuts)]

\* The mutex is held by whoever is in put or flush; who is at no list, or just
\* at one, has no record.
Locks ==
  \A p \in Processes :
    /\ pc[p] \in {"copy", "signal", "flush"} <=> plock = p
    /\ list[p] = NULL => pc[p] = "idle"
    /\ list[p] = NULL \/ pc[p] = "fill" => held[p] = NULL

Copying(l) == \E p \in Processes : list[p] = l /\ pc[p] = "copy"

\* Records in the list that have been copied there.
Copied(l) == Ahead(ir[l], iw[l]) - (IF Copying(l) THEN 1 ELSE 0)

\* A writer copies to the slot written last, and that is not the one read last.
CopiesToLast ==
  \A p \in Processes :
    pc[p] = "copy" => index[p] = iw[list[p]] /\ iw[list[p]] # ir[list[p]]

\* What was put, a, is what was taken, t, and then n records r behind slot s.
Continues(a, t, r, s, n) ==
  /\ Len(a) = Len(t) + n
  /\ \A i \in 1 .. Len(t) : a[i] = t[i]
  /\ \A i \in 1 .. n : a[Len(t) + i] = r[At(s, i)]

Accounted == \A l \in Lists : Continues(accepted[l], taken[l], rec[l], ir[l], Copied(l))

\* There is nothing in a list that nobody uses.
EmptyIfUnused == \A l \in Lists : UsersOf(l) = {} => iw[l] = ir[l]

\* The slots with records to be read, when r was read last and w written.
Waiting(r, w) ==
  {s \in Lists \X Slots : Ahead(r[s[1]], s[2]) \in 1 .. Ahead(r[s[1]], w[s[1]])}

Acting == {p \in Processes : pc[p] \in {"copy", "signal", "take"}}

Counted == psema + uncounted + Cardinality(Acting) = Cardinality(Waiting(ir, iw))

\* The last record taken from a list stays in the slot read last.
Kept ==
  \A p \in Processes : held[p] # NULL =>
    LET l == list[p] IN
    /\ held[p].nth <= Len(taken[l])
    /\ held[p].nth = Len(taken[l]) =>
         held[p].slot = ir[l] /\ rec[l][ir[l]] = held[p].record

SharedIInv ==
  /\ Types
  /\ Locks
  /\ mishaps = {} => CopiesToLast /\ Accounted /\ EmptyIfUnused /\ Counted /\ Kept
-----------------------------------------------------------------------------
\* Sequences, and the number of the records to be read.

\* No record is copied: what was taken is what was put.
LEMMA NothingLeft ==
  ASSUME NEW a, NEW t, NEW r, NEW s, NEW r2, NEW s2, Continues(a, t, r, s, 0)
  PROVE  Continues(a, t, r2, s2, 0)
BY DEF Continues

\* A record is copied behind the others.
LEMMA CopyContinues ==
  ASSUME NEW R, NEW a \in Seq(R), NEW t \in Seq(R), NEW r \in [Slots -> R],
         NEW s \in Slots, NEW n \in 1 .. NbRec - 1, NEW x \in R,
         Continues(a, t, r, s, n - 1)
  PROVE  Continues(Append(a, x), t, [r EXCEPT ![At(s, n)] = x], s, n)
<1> DEFINE r2 == [r EXCEPT ![At(s, n)] = x]
<1>0. NbRec \in Nat
  BY SharedListAssumption
<1>1. At(s, n) \in Slots /\ Ahead(s, At(s, n)) = n
  <2>1. n \in 0 .. NbRec - 1
    BY <1>0
  <2> QED
    BY <2>1, Ring
<1>2. Len(a) = Len(t) + (n - 1) /\ Len(Append(a, x)) = Len(t) + n /\ Len(t) \in Nat
  BY <1>0 DEF Continues
<1>3. ASSUME NEW i \in 1 .. Len(t) PROVE Append(a, x)[i] = t[i]
  BY <1>0, <1>2 DEF Continues
<1>4. ASSUME NEW i \in 1 .. n PROVE Append(a, x)[Len(t) + i] = r2[At(s, i)]
  <2>1. CASE i = n
    <3>1. r2[At(s, n)] = x
      BY <1>1
    <3> QED
      BY <1>2, <2>1, <3>1
  <2>2. CASE i # n
    <3>1. i \in 1 .. n - 1 /\ i \in 0 .. NbRec - 1
      BY <1>0, <2>2
    <3>2. At(s, i) \in Slots /\ Ahead(s, At(s, i)) = i
      BY <3>1, Ring
    <3>3. r2[At(s, i)] = r[At(s, i)]
      BY <1>1, <2>2, <3>2
    <3>4. Append(a, x)[Len(t) + i] = a[Len(t) + i]
      BY <1>0, <1>2, <3>1
    <3> QED
      BY <3>1, <3>3, <3>4 DEF Continues
  <2> QED
    BY <2>1, <2>2
<1> QED
  BY <1>2, <1>3, <1>4 DEF Continues

\* The oldest record is taken.
LEMMA TakeContinues ==
  ASSUME NEW R, NEW a \in Seq(R), NEW t \in Seq(R), NEW r, NEW s \in Slots,
         NEW n \in 1 .. NbRec - 1, Continues(a, t, r, s, n)
  PROVE  Continues(a, Append(t, r[After(s)]), r, After(s), n - 1)
<1> DEFINE x == r[After(s)]
           t2 == Append(t, x)
<1>0. NbRec \in Nat /\ 1 \in 0 .. NbRec - 1
  BY SharedListAssumption
<1>1. At(s, 1) = After(s)
  BY <1>0, Ring
<1>2. /\ Len(t) \in Nat /\ Len(t2) = Len(t) + 1 /\ Len(a) = Len(t) + n
      /\ t2[Len(t) + 1] = x /\ \A i \in 1 .. Len(t) : t2[i] = t[i]
  <2> HIDE DEF x
  <2>1. /\ Len(t) \in Nat /\ Len(t2) = Len(t) + 1 /\ t2[Len(t) + 1] = x
        /\ \A i \in 1 .. Len(t) : t2[i] = t[i]
    BY DEF t2
  <2> QED
    BY <2>1 DEF Continues
<1>3. ASSUME NEW i \in 1 .. Len(t2) PROVE a[i] = t2[i]
  <2>1. CASE i = Len(t) + 1
    <3>1. a[Len(t) + 1] = r[At(s, 1)]
      BY <1>0 DEF Continues
    <3> QED
      BY <1>1, <1>2, <2>1, <3>1
  <2>2. CASE i # Len(t) + 1
    <3>1. i \in 1 .. Len(t)
      BY <1>2, <2>2
    <3> QED
      BY <1>2, <3>1 DEF Continues
  <2> QED
    BY <2>1, <2>2
<1>4. ASSUME NEW i \in 1 .. n - 1 PROVE a[Len(t2) + i] = r[At(After(s), i)]
  <2>1. i \in 0 .. NbRec - 1 /\ i # NbRec - 1 /\ i + 1 \in 1 .. n
    BY <1>0
  <2>2. At(After(s), i) = At(s, i + 1)
    BY <2>1, Ring
  <2>3. a[Len(t) + (i + 1)] = r[At(s, i + 1)]
    BY <2>1 DEF Continues
  <2> QED
    BY <1>2, <2>2, <2>3
<1>5. Len(a) = Len(t2) + (n - 1)
  BY <1>0, <1>2
<1> QED
  BY <1>3, <1>4, <1>5 DEF Continues

\* The semaphore counts up to its maximum.
LEMMA LeastOfTwo ==
  ASSUME NEW i \in Int, NEW k \in Int
  PROVE  Min({i, k}) = IF i <= k THEN i ELSE k
<1> DEFINE m == IF i <= k THEN i ELSE k
<1>1. m \in {i, k} /\ \A x \in {i, k} : m <= x
  OBVIOUS
<1>2. \A n \in {i, k} : (\A x \in {i, k} : n <= x) => n = m
  OBVIOUS
<1> QED
  BY <1>1, <1>2 DEF Min

\* The sets that are counted are finite.
LEMMA FiniteCounts ==
  /\ IsFiniteSet(Acting)
  /\ \A r, w : IsFiniteSet(Waiting(r, w))
<1>1. IsFiniteSet(Lists \X Slots)
  <2>1. IsFiniteSet(Slots)
    <3>1. 0 \in Int /\ NbRec - 1 \in Int
      BY SharedListAssumption
    <3> QED
      BY <3>1, FS_Interval DEF Slots
  <2>2. IsFiniteSet(Lists)
    BY SharedListAssumption
  <2> QED
    BY <2>1, <2>2, FS_Product
<1>2. IsFiniteSet(Acting)
  <2>1. Acting \in SUBSET Processes
    BY DEF Acting
  <2> QED
    BY <2>1, FS_Subset, SharedListAssumption
<1>3. ASSUME NEW r, NEW w PROVE IsFiniteSet(Waiting(r, w))
  <2>1. Waiting(r, w) \in SUBSET (Lists \X Slots)
    BY DEF Waiting
  <2> QED
    BY <1>1, <2>1, FS_Subset
<1> QED
  BY <1>2, <1>3

\* A slot more is written: a record more is to be read.
LEMMA OneWritten ==
  ASSUME NEW r \in [Lists -> Slots], NEW w \in [Lists -> Slots], NEW l \in Lists,
         After(w[l]) # r[l]
  PROVE  Cardinality(Waiting(r, [w EXCEPT ![l] = After(w[l])]))
           = Cardinality(Waiting(r, w)) + 1
<1> DEFINE w2 == [w EXCEPT ![l] = After(w[l])]
           e  == <<l, After(w[l])>>
<1>0. NbRec \in Nat /\ 0 \in 0 .. NbRec - 1
  BY SharedListAssumption
<1>1. /\ After(w[l]) \in Slots /\ Ahead(r[l], w[l]) \in 0 .. NbRec - 1
      /\ Ahead(r[l], After(w[l])) = Ahead(r[l], w[l]) + 1
  BY <1>0, Ring
<1>2. e \in Waiting(r, w2)
  BY <1>0, <1>1 DEF Waiting
<1>3. e \notin Waiting(r, w)
  BY <1>0, <1>1 DEF Waiting
<1>4. ASSUME NEW s \in Lists \X Slots, s # e
      PROVE  s \in Waiting(r, w2) <=> s \in Waiting(r, w)
  <2>1. CASE s[1] # l
    BY <2>1 DEF Waiting
  <2>2. CASE s[1] = l
    <3>1. s[2] \in Slots /\ s[2] # After(w[l])
      BY <1>4, <2>2
    <3>2. Ahead(r[l], s[2]) \in 0 .. NbRec - 1
      BY <1>0, <3>1, Ring
    <3>3. Ahead(r[l], s[2]) # Ahead(r[l], After(w[l]))
      <4>1. At(r[l], Ahead(r[l], s[2])) = s[2]
        BY <1>0, <3>1, Ring
      <4>2. At(r[l], Ahead(r[l], After(w[l]))) = After(w[l])
        BY <1>0, <1>1, Ring
      <4> QED
        BY <3>1, <4>1, <4>2
    <3> QED
      BY <1>0, <1>1, <2>2, <3>2, <3>3 DEF Waiting
  <2> QED
    BY <2>1, <2>2
<1>5. Waiting(r, w2) = Waiting(r, w) \cup {e}
  <2>1. Waiting(r, w2) \subseteq Lists \X Slots /\ Waiting(r, w) \subseteq Lists \X Slots
    BY DEF Waiting
  <2> QED
    BY <1>2, <1>4, <2>1
<1> QED
  BY <1>3, <1>5, FiniteCounts, FS_AddElement

\* A slot more is read.
LEMMA OneRead ==
  ASSUME NEW r \in [Lists -> Slots], NEW w \in [Lists -> Slots], NEW l \in Lists,
         r[l] # w[l]
  PROVE  Cardinality(Waiting([r EXCEPT ![l] = After(r[l])], w))
           = Cardinality(Waiting(r, w)) - 1
<1> DEFINE r2 == [r EXCEPT ![l] = After(r[l])]
           e  == <<l, After(r[l])>>
<1>0. NbRec \in Nat /\ 0 \in 0 .. NbRec - 1 /\ 1 \in 0 .. NbRec - 1
  BY SharedListAssumption
<1>1. /\ After(r[l]) \in Slots /\ Ahead(r[l], w[l]) \in 0 .. NbRec - 1
      /\ Ahead(r[l], w[l]) # 0 /\ Ahead(After(r[l]), w[l]) = Ahead(r[l], w[l]) - 1
  BY <1>0, Ring
<1>2. Ahead(r[l], After(r[l])) = 1 /\ Ahead(After(r[l]), After(r[l])) = 0
  BY <1>0, <1>1, Ring
<1>3. e \in Waiting(r, w)
  BY <1>0, <1>1, <1>2 DEF Waiting
<1>4. e \notin Waiting(r2, w)
  BY <1>0, <1>1, <1>2 DEF Waiting
<1>5. ASSUME NEW s \in Lists \X Slots, s # e
      PROVE  s \in Waiting(r2, w) <=> s \in Waiting(r, w)
  <2>1. CASE s[1] # l
    BY <2>1 DEF Waiting
  <2>2. CASE s[1] = l
    <3>1. s[2] \in Slots /\ s[2] # After(r[l])
      BY <1>5, <2>2
    <3>2. Ahead(r[l], s[2]) \in 0 .. NbRec - 1
      BY <1>0, <3>1, Ring
    <3>3. CASE s[2] = r[l]
      <4>1. Ahead(r[l], s[2]) = 0 /\ Ahead(After(r[l]), s[2]) = NbRec - 1
        BY <1>0, <3>3, Ring
      <4> QED
        BY <1>0, <1>1, <2>2, <4>1 DEF Waiting
    <3>4. CASE s[2] # r[l]
      <4>1. Ahead(After(r[l]), s[2]) = Ahead(r[l], s[2]) - 1
        BY <1>0, <3>1, <3>4, Ring
      <4>2. Ahead(r[l], s[2]) # 1
        <5>1. At(r[l], Ahead(r[l], s[2])) = s[2]
          BY <1>0, <3>1, Ring
        <5>2. At(r[l], 1) = After(r[l])
          BY <1>0, Ring
        <5> QED
          BY <3>1, <5>1, <5>2
      <4>3. Ahead(r[l], s[2]) # 0
        BY <1>0, <3>1, <3>4, Ring
      <4> QED
        BY <1>0, <1>1, <2>2, <3>2, <4>1, <4>2, <4>3 DEF Waiting
    <3> QED
      BY <3>3, <3>4
  <2> QED
    BY <2>1, <2>2
<1>6. Waiting(r2, w) = Waiting(r, w) \ {e}
  <2>1. Waiting(r2, w) \subseteq Lists \X Slots /\ Waiting(r, w) \subseteq Lists \X Slots
    BY DEF Waiting
  <2> QED
    BY <1>4, <1>5, <2>1
<1> QED
  <2>1. IsFiniteSet(Waiting(r, w))
    BY FiniteCounts
  <2>2. Cardinality(Waiting(r, w) \ {e}) = Cardinality(Waiting(r, w)) - 1
    BY <1>3, <2>1, FS_RemoveElement
  <2> QED
    BY <1>6, <2>2

\* In a list that is empty nothing is to be read, wherever its slots are.
LEMMA EmptyListsAlike ==
  ASSUME NEW r \in [Lists -> Slots], NEW w \in [Lists -> Slots],
         NEW r2 \in [Lists -> Slots], NEW w2 \in [Lists -> Slots],
         \A l \in Lists : \/ r2[l] = r[l] /\ w2[l] = w[l]
                          \/ r2[l] = w2[l] /\ r[l] = w[l]
  PROVE  Waiting(r2, w2) = Waiting(r, w)
<1>0. NbRec \in Nat /\ 0 \in 0 .. NbRec - 1
  BY SharedListAssumption
<1>1. \A a \in Slots : Ahead(a, a) = 0
  BY <1>0, Ring
<1>2. ASSUME NEW s \in Lists \X Slots
      PROVE  s \in Waiting(r2, w2) <=> s \in Waiting(r, w)
  <2>1. s[1] \in Lists
    OBVIOUS
  <2>2. CASE r2[s[1]] = r[s[1]] /\ w2[s[1]] = w[s[1]]
    BY <2>2 DEF Waiting
  <2>3. CASE r2[s[1]] = w2[s[1]] /\ r[s[1]] = w[s[1]]
    <3>1. Ahead(r2[s[1]], w2[s[1]]) = 0 /\ Ahead(r[s[1]], w[s[1]]) = 0
      BY <1>1, <2>1, <2>3
    <3> QED
      BY <3>1 DEF Waiting
  <2> QED
    BY <2>1, <2>2, <2>3
<1> QED
  BY <1>2 DEF Waiting

-----------------------------------------------------------------------------
\* The types and the lock.

\* It holds at first.
LEMMA SharedInitIInv == Init => SharedIInv
<1> SUFFICES ASSUME Init PROVE SharedIInv
  OBVIOUS
<1>0. NbRec \in Nat /\ NbRec > 1 /\ {MaxCount, MaxPuts, MaxClients} \subseteq Nat
      /\ 0 \in Slots /\ NULL \notin Lists \cup Processes
  BY SharedListAssumption DEF Slots
<1>1. Types
  <2>1. TypeOK
    BY <1>0 DEF Init, TypeOK, Cleared
  <2>2. <<>> \in Seq(0 .. MaxPuts)
    OBVIOUS
  <2> QED
    BY <1>0, <2>1, <2>2 DEF Init, Types
<1>2. Locks
  BY <1>0 DEF Init, Locks
<1>3. \A l \in Lists : Copied(l) = 0
  <2>1. Ahead(0, 0) = 0
    BY <1>0, Ring
  <2>2. \A l \in Lists : ~Copying(l)
    BY <1>0 DEF Init, Copying
  <2> QED
    BY <2>1, <2>2 DEF Copied, Init
<1>4. CopiesToLast /\ Accounted /\ EmptyIfUnused /\ Kept
  BY <1>3 DEF Init, CopiesToLast, Accounted, Continues, EmptyIfUnused, Kept
<1>5. Counted
  <2>1. Acting = {}
    BY DEF Init, Acting
  <2>2. Waiting(ir, iw) = {}
    <3>1. Ahead(0, 0) = 0
      BY <1>0, Ring
    <3> QED
      BY <3>1 DEF Init, Waiting
  <2>3. Cardinality({}) = 0
    BY FS_EmptySet
  <2>4. psema = 0 /\ uncounted = 0
    BY DEF Init
  <2> QED
    BY <2>1, <2>2, <2>3, <2>4 DEF Counted
<1> QED
  BY <1>1, <1>2, <1>4, <1>5 DEF SharedIInv

\* Every step keeps the types.
LEMMA StepTypes ==
  ASSUME Types, Locks, NEW p \in Processes,
         \/ \E l \in Lists : Construct(p, l)
         \/ Fill(p) \/ ChangeClients(p) \/ Exit(p)
         \/ TakeSlot(p) \/ CopyMemory(p) \/ Signal(p)
         \/ Wait(p) \/ Take(p)
         \/ Flush(p) \/ FlushOne(p)
  PROVE  Types'
<1> DEFINE R == 0 .. MaxPuts
           at == list[p]
<1>0. NbRec \in Nat /\ NbRec > 1 /\ {MaxCount, MaxPuts, MaxClients} \subseteq Nat
      /\ 0 \in Slots /\ NULL \notin Lists \cup Processes
  BY SharedListAssumption DEF Slots
<1>1. \A i \in Slots : After(i) \in Slots
  BY <1>0, Ring
<1>2. Cleared \in [Slots -> R] /\ <<>> \in Seq(R)
  BY <1>0 DEF Cleared
<1>3. pc[p] # "idle" \/ list[p] # NULL => at \in Lists
  BY DEF Locks, Types, TypeOK
<1>4. ASSUME NEW l \in Lists
      PROVE  /\ taken[l] \in Seq(R) /\ accepted[l] \in Seq(R)
             /\ \A x \in R :
                  Append(taken[l], x) \in Seq(R) /\ Append(accepted[l], x) \in Seq(R)
             /\ iw[l] \in Slots /\ ir[l] \in Slots /\ rec[l] \in [Slots -> R]
             /\ After(ir[l]) \in Slots /\ rec[l][After(ir[l])] \in R
  <2>1. /\ taken[l] \in Seq(R) /\ accepted[l] \in Seq(R)
        /\ iw[l] \in Slots /\ ir[l] \in Slots /\ rec[l] \in [Slots -> R]
    BY DEF Types, TypeOK
  <2> QED
    BY <1>1, <2>1
<1>5. CASE \E l \in Lists : Construct(p, l)
  <2>1. PICK l \in Lists : Construct(p, l)
    BY <1>5
  <2>2. /\ list' \in [Processes -> Lists \cup {NULL}]
        /\ pc' \in [Processes -> {"idle", "fill", "copy", "signal", "take", "flush"}]
    BY <2>1 DEF Construct, Types, TypeOK
  <2>3. /\ iw' \in [Lists -> Slots] /\ ir' \in [Lists -> Slots]
        /\ nbClients' \in [Lists -> 0 .. MaxClients]
    <3>1. 0 \in 0 .. MaxClients
      BY <1>0
    <3> QED
      BY <1>0, <2>1, <3>1 DEF Construct, Types, TypeOK
  <2> QED
    BY <2>1, <2>2, <2>3 DEF Construct, Types, TypeOK
<1>6. CASE Fill(p)
  BY <1>0, <1>2, <1>3, <1>6 DEF Fill, Step, header, Types, TypeOK
<1>7. CASE ChangeClients(p)
  <2>1. PICK n \in 0 .. MaxClients : nbClients' = [nbClients EXCEPT ![at] = n]
    BY <1>7 DEF ChangeClients
  <2>2. nbClients' \in [Lists -> 0 .. MaxClients]
    BY <2>1 DEF Types, TypeOK
  <2>3. pc' \in [Processes -> {"idle", "fill", "copy", "signal", "take", "flush"}]
    BY <1>7 DEF ChangeClients, Step, Types, TypeOK
  <2> QED
    BY <1>7, <2>2, <2>3 DEF ChangeClients, past, Types, TypeOK
<1>8. CASE Exit(p)
  <2>1. /\ iw' \in [Lists -> Slots] /\ ir' \in [Lists -> Slots]
        /\ nbClients' \in [Lists -> 0 .. MaxClients]
    <3>1. /\ iw' \in {iw, [iw EXCEPT ![at] = 0]}
          /\ ir' \in {ir, [ir EXCEPT ![at] = 0]}
          /\ nbClients' \in {nbClients, [nbClients EXCEPT ![at] = 0]}
      BY <1>8 DEF Exit
    <3>2. 0 \in 0 .. MaxClients
      BY <1>0
    <3>3. \A S, f, g : 0 \in S /\ f \in [Lists -> S] /\ g \in {f, [f EXCEPT ![at] = 0]}
            => g \in [Lists -> S]
      OBVIOUS
    <3>4. /\ iw \in [Lists -> Slots] /\ ir \in [Lists -> Slots]
          /\ nbClients \in [Lists -> 0 .. MaxClients]
      BY DEF Types, TypeOK
    <3>5. 0 \in Slots
      BY <1>0
    <3> HIDE DEF at
    <3> QED
      BY <3>1, <3>2, <3>3, <3>4, <3>5
  <2>2. rec' \in [Lists -> [Slots -> R]]
    BY <1>2, <1>8 DEF Exit, Types, TypeOK
  <2>3. accepted' \in [Lists -> Seq(R)] /\ taken' \in [Lists -> Seq(R)]
    BY <1>2, <1>8 DEF Exit, Types
  <2>4. psema' \in 0 .. MaxCount /\ uncounted' \in Nat
    <3>1. psema' \in {psema, 0} /\ uncounted' \in {0, uncounted, uncounted + 1}
      BY <1>8 DEF Exit
    <3>2. psema \in 0 .. MaxCount /\ uncounted \in Nat /\ 0 \in 0 .. MaxCount
      BY <1>0 DEF Types, TypeOK
    <3> QED
      BY <3>1, <3>2
  <2>5. /\ list' \in [Processes -> Lists \cup {NULL}]
        /\ pc' \in [Processes -> {"idle", "fill", "copy", "signal", "take", "flush"}]
        /\ held' \in [Processes -> Handings \cup {NULL}]
        /\ plock' \in Processes \cup {NULL}
        /\ index' \in [Processes -> Slots] /\ puts' \in R
    BY <1>8 DEF Exit, Types, TypeOK
  <2> QED
    BY <2>1, <2>2, <2>3, <2>4, <2>5 DEF Types, TypeOK
<1>9. CASE TakeSlot(p)
  <2>1. at \in Lists /\ After(iw[at]) \in Slots
    BY <1>1, <1>3, <1>4, <1>9 DEF TakeSlot, Step
  <2>2. iw' \in [Lists -> Slots] /\ index' \in [Processes -> Slots]
    BY <1>9, <2>1 DEF TakeSlot, Types, TypeOK
  <2>3. puts' \in R
    BY <1>0, <1>9 DEF TakeSlot, Types
  <2>4. pc' \in [Processes -> {"idle", "fill", "copy", "signal", "take", "flush"}]
    BY <1>9 DEF TakeSlot, Step, Types, TypeOK
  <2> QED
    BY <1>9, <2>2, <2>3, <2>4 DEF TakeSlot, Acquire, past, Types, TypeOK
<1>10. CASE CopyMemory(p)
  <2>1. rec' \in [Lists -> [Slots -> R]]
    BY <1>3, <1>4, <1>10 DEF CopyMemory, Step, Types, TypeOK
  <2>2. accepted' \in [Lists -> Seq(R)]
    <3>1. at \in Lists /\ Append(accepted[at], puts) \in Seq(R)
      BY <1>3, <1>4, <1>10 DEF CopyMemory, Step, Types
    <3>2. accepted' = [accepted EXCEPT ![at] = Append(accepted[at], puts)]
      BY <1>10 DEF CopyMemory
    <3> QED
      BY <3>1, <3>2 DEF Types
  <2> QED
    BY <1>10, <2>1, <2>2 DEF CopyMemory, Step, header, Types, TypeOK
<1>11. CASE Signal(p)
  <2>1. psema' \in 0 .. MaxCount
    <3>1. psema \in 0 .. MaxCount /\ psema + 1 \in Int /\ MaxCount \in Int
      BY <1>0 DEF Types, TypeOK
    <3>2. Min({psema + 1, MaxCount}) = IF psema + 1 <= MaxCount THEN psema + 1 ELSE MaxCount
      BY <3>1, LeastOfTwo
    <3>3. psema' = Min({psema + 1, MaxCount})
      BY <1>11 DEF Signal
    <3> QED
      BY <1>0, <3>1, <3>2, <3>3
  <2> QED
    BY <1>0, <1>11, <2>1 DEF Signal, Step, Release, header, Types, TypeOK
<1>12. CASE Wait(p)
  <2>1. psema' \in 0 .. MaxCount
    BY <1>0, <1>12 DEF Wait, Types, TypeOK
  <2>2. held' \in [Processes -> Handings \cup {NULL}]
    BY <1>12 DEF Wait, Types
  <2> QED
    BY <1>12, <2>1, <2>2 DEF Wait, Step, header, past, Types, TypeOK
<1>13. CASE Take(p)
  <2>1. at \in Lists
    BY <1>3, <1>13 DEF Take, Step
  <2>2. Handed(at, After(ir[at])) \in Handings
    <3>1. Len(taken[at]) + 1 \in Nat
      BY <1>4, <2>1
    <3> QED
      BY <1>4, <2>1, <3>1 DEF Handed, Handings
  <2>3. held' \in [Processes -> Handings \cup {NULL}]
    BY <1>13, <2>2 DEF Take, Types
  <2>4. ir' \in [Lists -> Slots] /\ taken' \in [Lists -> Seq(R)]
    BY <1>4, <1>13, <2>1 DEF Take, Advance, Types, TypeOK
  <2> QED
    BY <1>13, <2>3, <2>4 DEF Take, Advance, Step, Types, TypeOK
<1>14. CASE Flush(p)
  BY <1>14 DEF Flush, Step, Acquire, header, past, Types, TypeOK
<1>15. CASE FlushOne(p)
  <2>1. at \in Lists
    BY <1>3, <1>15 DEF FlushOne, Step
  <2>2. ir' \in [Lists -> Slots] /\ taken' \in [Lists -> Seq(R)]
    BY <1>4, <1>15, <2>1 DEF FlushOne, Advance, Types, TypeOK
  <2>3. psema' \in 0 .. MaxCount
    BY <1>0, <1>15 DEF FlushOne, Types, TypeOK
  <2> QED
    BY <1>15, <2>2, <2>3 DEF FlushOne, Advance, Step, Types, TypeOK
<1> QED
  BY <1>5, <1>6, <1>7, <1>8, <1>9, <1>10, <1>11, <1>12, <1>13, <1>14, <1>15

\* Every step keeps what the lock means.
LEMMA StepLocks ==
  ASSUME Types, Locks, NEW p \in Processes,
         \/ \E l \in Lists : Construct(p, l)
         \/ Fill(p) \/ ChangeClients(p) \/ Exit(p)
         \/ TakeSlot(p) \/ CopyMemory(p) \/ Signal(p)
         \/ Wait(p) \/ Take(p)
         \/ Flush(p) \/ FlushOne(p)
  PROVE  Locks'
<1>0. NULL \notin Lists \cup Processes
  BY SharedListAssumption
<1>1. /\ list \in [Processes -> Lists \cup {NULL}]
      /\ pc \in [Processes -> {"idle", "fill", "copy", "signal", "take", "flush"}]
      /\ DOMAIN held = Processes
  BY DEF Types, TypeOK
<1>2. CASE \E l \in Lists : Construct(p, l)
  BY <1>0, <1>1, <1>2 DEF Construct, Locks
<1>3. CASE Fill(p) \/ ChangeClients(p)
  BY <1>0, <1>1, <1>3 DEF Fill, ChangeClients, Step, past, Locks
<1>4. CASE Exit(p)
  BY <1>0, <1>1, <1>4 DEF Exit, Locks
<1>5. CASE TakeSlot(p)
  BY <1>0, <1>1, <1>5 DEF TakeSlot, Step, Acquire, Locks
<1>6. CASE CopyMemory(p)
  BY <1>0, <1>1, <1>6 DEF CopyMemory, Step, Locks
<1>7. CASE Signal(p)
  BY <1>0, <1>1, <1>7 DEF Signal, Step, Release, Locks
<1>8. CASE Wait(p)
  BY <1>0, <1>1, <1>8 DEF Wait, Step, Locks
<1>9. CASE Take(p)
  BY <1>0, <1>1, <1>9 DEF Take, Step, Locks
<1>10. CASE Flush(p)
  BY <1>0, <1>1, <1>10 DEF Flush, Step, Acquire, Locks
<1>11. CASE FlushOne(p)
  BY <1>0, <1>1, <1>11 DEF FlushOne, Step, Locks
<1> QED
  BY <1>2, <1>3, <1>4, <1>5, <1>6, <1>7, <1>8, <1>9, <1>10, <1>11

-----------------------------------------------------------------------------
\* What holds before a mishap.

Undisturbed == CopiesToLast /\ Accounted /\ EmptyIfUnused /\ Counted /\ Kept

\* Facts of the types that the lemmas below use.
LEMMA Typed ==
  ASSUME Types
  PROVE  /\ NbRec \in Nat /\ NbRec > 1 /\ 0 \in Slots /\ 0 \in 0 .. NbRec - 1
         /\ NULL \notin Lists \cup Processes
         /\ iw \in [Lists -> Slots] /\ ir \in [Lists -> Slots]
         /\ rec \in [Lists -> [Slots -> 0 .. MaxPuts]]
         /\ list \in [Processes -> Lists \cup {NULL}]
         /\ DOMAIN pc = Processes /\ DOMAIN held = Processes /\ DOMAIN index = Processes
         /\ accepted \in [Lists -> Seq(0 .. MaxPuts)]
         /\ taken \in [Lists -> Seq(0 .. MaxPuts)]
         /\ psema \in Nat /\ uncounted \in Nat
         /\ Cardinality(Acting) \in Nat /\ Cardinality(Waiting(ir, iw)) \in Nat
<1>1. Cardinality(Acting) \in Nat /\ Cardinality(Waiting(ir, iw)) \in Nat
  BY FiniteCounts, FS_CardinalityType
<1>2. NbRec \in Nat /\ NbRec > 1 /\ MaxCount \in Nat /\ NULL \notin Lists \cup Processes
  BY SharedListAssumption
<1>3. 0 \in Slots /\ 0 \in 0 .. NbRec - 1
  BY <1>2 DEF Slots
<1> QED
  BY <1>1, <1>2, <1>3 DEF Types, TypeOK

\* One process more acts, or one less.
LEMMA ActingChanges ==
  ASSUME Types, NEW p \in Processes
  PROVE  /\ p \notin Acting => Cardinality(Acting \cup {p}) = Cardinality(Acting) + 1
         /\ p \in Acting => Cardinality(Acting \ {p}) = Cardinality(Acting) - 1
<1>1. IsFiniteSet(Acting)
  BY FiniteCounts
<1> QED
  BY <1>1, FS_AddElement, FS_RemoveElement

\* A step that changes neither the lists nor who uses or copies to them.
LEMMA QuietKeeps ==
  ASSUME Types, Undisturbed,
         UNCHANGED <<list, iw, ir, rec, index, accepted, taken>>,
         \A q \in Processes : pc'[q] = "copy" <=> pc[q] = "copy",
         \A q \in Processes : held'[q] \in {held[q], NULL}
  PROVE  /\ CopiesToLast' /\ Accounted' /\ EmptyIfUnused' /\ Kept'
         /\ Waiting(ir', iw') = Waiting(ir, iw)
<1>1. CopiesToLast'
  BY DEF Undisturbed, CopiesToLast
<1>2. \A l \in Lists : (Copied(l))' = Copied(l)
  BY DEF Copied, Copying
<1>3. Accounted'
  BY <1>2 DEF Undisturbed, Accounted
<1>4. EmptyIfUnused'
  BY DEF Undisturbed, EmptyIfUnused, UsersOf
<1>5. Kept'
  BY DEF Undisturbed, Kept
<1> QED
  BY <1>1, <1>3, <1>4, <1>5

\* RegisterClient and UnRegisterClient.
LEMMA ChangeClientsKeeps ==
  ASSUME Types, Undisturbed, NEW p \in Processes, ChangeClients(p)
  PROVE  Undisturbed'
<1>1. /\ UNCHANGED <<list, iw, ir, rec, index, accepted, taken, held, psema, uncounted>>
      /\ \A q \in Processes : pc'[q] = pc[q]
  BY Typed DEF ChangeClients, Step, past
<1>2. Acting' = Acting
  BY <1>1 DEF Acting
<1> QED
  BY <1>1, <1>2, QuietKeeps DEF Undisturbed, Counted

\* The record is counted, by the semaphore or as lost.
LEMMA SignalKeeps ==
  ASSUME Types, Undisturbed, NEW p \in Processes, Signal(p)
  PROVE  Undisturbed'
<1>1. /\ UNCHANGED <<list, iw, ir, rec, index, accepted, taken, held>>
      /\ pc[p] = "signal" /\ pc' = [pc EXCEPT ![p] = "idle"]
  BY DEF Signal, Step, header
<1>2. \A q \in Processes : pc'[q] = "copy" <=> pc[q] = "copy"
  BY <1>1, Typed
<1>3. p \in Acting /\ Acting' = Acting \ {p}
  BY <1>1, Typed DEF Acting
<1>4. psema' \in Nat /\ uncounted' \in Nat /\ psema' + uncounted' = psema + uncounted + 1
  <2>1. /\ psema \in 0 .. MaxCount /\ psema + 1 \in Int /\ MaxCount \in Int
        /\ uncounted \in Nat
    BY SharedListAssumption DEF Types, TypeOK
  <2>2. psema' = IF psema + 1 <= MaxCount THEN psema + 1 ELSE MaxCount
    BY <2>1, LeastOfTwo DEF Signal
  <2>3. uncounted' = IF psema = MaxCount THEN uncounted + 1 ELSE uncounted
    BY DEF Signal
  <2> QED
    BY <2>1, <2>2, <2>3
<1>5. Counted'
  <2>1. Cardinality(Acting') = Cardinality(Acting) - 1
    BY <1>3, ActingChanges
  <2>2. Waiting(ir, iw)' = Waiting(ir, iw)
    BY <1>1
  <2>3. psema + uncounted + Cardinality(Acting) = Cardinality(Waiting(ir, iw))
    BY DEF Undisturbed, Counted
  <2>4. psema' + uncounted' + Cardinality(Acting') = Cardinality(Waiting(ir, iw))
    <3> DEFINE n == psema' + uncounted'
               k == Cardinality(Acting')
    <3>1. n = psema + uncounted + 1 /\ k = Cardinality(Acting) - 1
      BY <1>4, <2>1
    <3> HIDE DEF n, k
    <3>2. n + k = Cardinality(Waiting(ir, iw))
      BY <2>3, <3>1, Typed
    <3> QED
      BY <3>2 DEF n, k
  <2> QED
    BY <2>2, <2>4 DEF Counted
<1> QED
  BY <1>1, <1>2, <1>5, QuietKeeps DEF Undisturbed

\* The reader has counted a record down, and gives up the one it had.
LEMMA WaitKeeps ==
  ASSUME Types, Undisturbed, NEW p \in Processes, Wait(p)
  PROVE  Undisturbed'
<1>1. /\ UNCHANGED <<list, iw, ir, rec, index, accepted, taken, uncounted>>
      /\ pc[p] = "idle" /\ pc' = [pc EXCEPT ![p] = "take"]
      /\ held' = [held EXCEPT ![p] = NULL] /\ psema' = psema - 1
  BY DEF Wait, Step, header, past
<1>2. /\ \A q \in Processes : pc'[q] = "copy" <=> pc[q] = "copy"
      /\ \A q \in Processes : held'[q] \in {held[q], NULL}
  BY <1>1, Typed
<1>3. p \notin Acting /\ Acting' = Acting \cup {p}
  BY <1>1, Typed DEF Acting
<1>4. Counted'
  <2>1. Cardinality(Acting') = Cardinality(Acting) + 1
    BY <1>3, ActingChanges
  <2>2. Waiting(ir, iw)' = Waiting(ir, iw)
    BY <1>1
  <2> QED
    BY <1>1, <2>1, <2>2, Typed DEF Undisturbed, Counted
<1> QED
  BY <1>1, <1>2, <1>4, QuietKeeps DEF Undisturbed

\* A flush begins.
LEMMA FlushKeeps ==
  ASSUME Types, Undisturbed, NEW p \in Processes, Flush(p)
  PROVE  Undisturbed'
<1>1. /\ UNCHANGED <<list, iw, ir, rec, index, accepted, taken, held, psema, uncounted>>
      /\ pc[p] = "idle" /\ pc' = [pc EXCEPT ![p] = "flush"]
  BY DEF Flush, Step, header, past
<1>2. \A q \in Processes : pc'[q] = "copy" <=> pc[q] = "copy"
  BY <1>1, Typed
<1>3. Acting' = Acting
  BY <1>1, Typed DEF Acting
<1> QED
  BY <1>1, <1>2, <1>3, QuietKeeps DEF Undisturbed, Counted

\* A process attaches itself to a list that is empty and that nobody is at: else
\* it is a mishap.
LEMMA ConstructKeeps ==
  ASSUME Types, Locks, Undisturbed, NEW p \in Processes, NEW l \in Lists,
         Construct(p, l), mishaps' = {}
  PROVE  Undisturbed'
<1>1. /\ list[p] = NULL /\ pc[p] = "idle" /\ held[p] = NULL
      /\ list' = [list EXCEPT ![p] = l] /\ pc' = [pc EXCEPT ![p] = "fill"]
      /\ iw' = [iw EXCEPT ![l] = 0] /\ ir' = [ir EXCEPT ![l] = 0]
      /\ UNCHANGED <<rec, index, accepted, taken, held, psema, uncounted>>
  BY DEF Construct, Locks
<1>2. /\ iw[l] = ir[l]
      /\ \A q \in Processes : q # p /\ list[q] = l => pc[q] = "idle" /\ held[q] = NULL
  BY DEF Construct, InUse, UsersOf
<1>3. CopiesToLast'
  BY <1>1, <1>2, Typed DEF Undisturbed, CopiesToLast
<1>4. Accounted'
  <2>1. ASSUME NEW k \in Lists, k # l
        PROVE  Continues(accepted'[k], taken'[k], rec'[k], ir'[k], (Copied(k))')
    <3>1. (Copying(k))' <=> Copying(k)
      BY <1>1, <2>1, Typed DEF Copying
    <3>2. (Copied(k))' = Copied(k)
      BY <1>1, <2>1, <3>1, Typed DEF Copied
    <3> QED
      BY <1>1, <2>1, <3>2, Typed DEF Undisturbed, Accounted
  <2>2. Continues(accepted'[l], taken'[l], rec'[l], ir'[l], (Copied(l))')
    <3>1. \A a \in Slots : Ahead(a, a) = 0
      BY Distances, Typed
    <3>2. ~Copying(l) /\ ~(Copying(l))'
      BY <1>1, <1>2, Typed DEF Copying
    <3>3. Copied(l) = 0 /\ (Copied(l))' = 0
      BY <1>1, <1>2, <3>1, <3>2, Typed DEF Copied
    <3> QED
      BY <1>1, <3>3, NothingLeft, Typed DEF Undisturbed, Accounted
  <2> QED
    BY <2>1, <2>2 DEF Accounted
<1>5. EmptyIfUnused'
  BY <1>1, Typed DEF Undisturbed, EmptyIfUnused, UsersOf
<1>6. Counted'
  <2>1. Acting' = Acting
    BY <1>1, Typed DEF Acting
  <2>2. Waiting(ir', iw') = Waiting(ir, iw)
    <3>1. ir' \in [Lists -> Slots] /\ iw' \in [Lists -> Slots]
      BY <1>1, Typed
    <3>2. \A k \in Lists : \/ ir'[k] = ir[k] /\ iw'[k] = iw[k]
                           \/ ir'[k] = iw'[k] /\ ir[k] = iw[k]
      BY <1>1, <1>2, Typed
    <3>3. ir \in [Lists -> Slots] /\ iw \in [Lists -> Slots]
      BY Typed
    <3> QED
      BY <3>1, <3>2, <3>3, EmptyListsAlike
  <2>3. psema' = psema /\ uncounted' = uncounted
    BY <1>1
  <2> QED
    BY <2>1, <2>2, <2>3, Typed DEF Undisturbed, Counted
<1>7. Kept'
  <2>1. ASSUME NEW q \in Processes, held'[q] # NULL
        PROVE  /\ held'[q] = held[q] /\ list'[q] = list[q] /\ list[q] \in Lists \ {l}
               /\ ir'[list[q]] = ir[list[q]]
    BY <1>1, <1>2, <2>1, Typed DEF Locks
  <2> QED
    BY <1>1, <2>1 DEF Undisturbed, Kept
<1> QED
  BY <1>3, <1>4, <1>5, <1>6, <1>7 DEF Undisturbed

\* The same when the constructor clears the records.
LEMMA FillKeeps ==
  ASSUME Types, Locks, Undisturbed, NEW p \in Processes, Fill(p), mishaps' = {}
  PROVE  Undisturbed'
<1>0. PICK l \in Lists : l = list[p]
  BY Typed DEF Fill, Step
<1>1. /\ list[p] = l /\ pc[p] = "fill" /\ held[p] = NULL
      /\ pc' = [pc EXCEPT ![p] = "idle"]
      /\ rec' = [rec EXCEPT ![l] = Cleared]
      /\ UNCHANGED <<list, iw, ir, index, accepted, taken, held, psema, uncounted>>
  BY <1>0 DEF Fill, Step, header, Locks
<1>2. /\ iw[l] = ir[l]
      /\ \A q \in Processes : q # p /\ list[q] = l => pc[q] = "idle" /\ held[q] = NULL
  BY <1>0 DEF Fill, InUse, UsersOf
<1>3. CopiesToLast'
  BY <1>1, Typed DEF Undisturbed, CopiesToLast
<1>4. \A k \in Lists : (Copied(k))' = Copied(k)
  BY <1>1, Typed DEF Copied, Copying
<1>5. Accounted'
  <2>1. ASSUME NEW k \in Lists, k # l
        PROVE  Continues(accepted'[k], taken'[k], rec'[k], ir'[k], (Copied(k))')
    BY <1>1, <1>4, <2>1, Typed DEF Undisturbed, Accounted
  <2>2. Continues(accepted'[l], taken'[l], rec'[l], ir'[l], (Copied(l))')
    <3>1. \A a \in Slots : Ahead(a, a) = 0
      BY Distances, Typed
    <3>2. ~Copying(l)
      BY <1>1, <1>2, Typed DEF Copying
    <3>3. Copied(l) = 0
      BY <1>1, <1>2, <3>1, <3>2, Typed DEF Copied
    <3> QED
      BY <1>1, <1>4, <3>3, NothingLeft DEF Undisturbed, Accounted
  <2> QED
    BY <2>1, <2>2 DEF Accounted
<1>6. EmptyIfUnused'
  BY <1>1 DEF Undisturbed, EmptyIfUnused, UsersOf
<1>7. Counted'
  <2>1. Acting' = Acting
    BY <1>1, Typed DEF Acting
  <2>2. psema' = psema /\ uncounted' = uncounted /\ Waiting(ir', iw') = Waiting(ir, iw)
    BY <1>1
  <2> QED
    BY <2>1, <2>2, Typed DEF Undisturbed, Counted
<1>8. Kept'
  <2>1. ASSUME NEW q \in Processes, held'[q] # NULL
        PROVE  list[q] \in Lists \ {l} /\ rec'[list[q]] = rec[list[q]]
    BY <1>1, <1>2, <2>1, Typed DEF Locks
  <2> QED
    BY <1>1, <2>1 DEF Undisturbed, Kept
<1> QED
  BY <1>3, <1>5, <1>6, <1>7, <1>8 DEF Undisturbed

\* A process ends, or dies: with it, perhaps, a record is no longer counted, the
\* list, or everything.
LEMMA ExitKeeps ==
  ASSUME Types, Locks, Undisturbed, NEW p \in Processes, Exit(p), mishaps' = {}
  PROVE  Undisturbed'
<1>0. PICK l \in Lists : l = list[p]
  BY Typed DEF Exit
<1> DEFINE last  == UsersOf(l) = {p}
           final == \A q \in Processes \ {p} : list[q] = NULL
<1>1. /\ list[p] = l
      /\ list' = [list EXCEPT ![p] = NULL] /\ pc' = [pc EXCEPT ![p] = "idle"]
      /\ held' = [held EXCEPT ![p] = NULL] /\ UNCHANGED index
      /\ iw' = IF last THEN [iw EXCEPT ![l] = 0] ELSE iw
      /\ ir' = IF last THEN [ir EXCEPT ![l] = 0] ELSE ir
      /\ rec' = IF last THEN [rec EXCEPT ![l] = Cleared] ELSE rec
      /\ accepted' = IF last THEN [accepted EXCEPT ![l] = <<>>] ELSE accepted
      /\ taken' = IF last THEN [taken EXCEPT ![l] = <<>>] ELSE taken
      /\ psema' = IF final THEN 0 ELSE psema
      /\ uncounted' = IF final THEN 0
                      ELSE IF pc[p] \in {"copy", "signal", "take"} THEN uncounted + 1
                      ELSE uncounted
  BY <1>0 DEF Exit
<1>2. /\ pc[p] = "copy" => last
      /\ last => final \/ (iw[l] = ir[l] /\ pc[p] = "idle")
  BY <1>0 DEF Exit
<1>3. final => last
  BY <1>1, Typed DEF UsersOf
<1>4. ASSUME NEW q \in Processes, q # p, list[q] = l PROVE ~last
  BY <1>4 DEF UsersOf
<1>5. CopiesToLast'
  <2>1. SUFFICES ASSUME NEW q \in Processes, pc'[q] = "copy"
                 PROVE  index'[q] = iw'[list'[q]] /\ iw'[list'[q]] # ir'[list'[q]]
    BY DEF CopiesToLast
  <2>2. q # p /\ pc[q] = "copy" /\ list'[q] = list[q] /\ list[q] \in Lists
    BY <1>1, <2>1, Typed DEF Locks
  <2>3. index[q] = iw[list[q]] /\ iw[list[q]] # ir[list[q]]
    BY <2>2 DEF Undisturbed, CopiesToLast
  <2>4. iw'[list[q]] = iw[list[q]] /\ ir'[list[q]] = ir[list[q]]
    BY <1>1, <1>4, <2>2, Typed
  <2> QED
    BY <1>1, <2>2, <2>3, <2>4
<1>6. Accounted'
  <2>1. SUFFICES ASSUME NEW k \in Lists
                 PROVE  Continues(accepted'[k], taken'[k], rec'[k], ir'[k], (Copied(k))')
    BY DEF Accounted
  <2>2. CASE k = l /\ last
    <3>1. ~(Copying(l))'
      <4>1. ASSUME NEW q \in Processes, list'[q] = l, pc'[q] = "copy" PROVE FALSE
        <5>1. q # p /\ list[q] = l
          BY <1>1, <4>1, Typed
        <5> QED
          BY <1>4, <2>2, <5>1
      <4> QED
        BY <1>1, <4>1 DEF Copying
    <3>2. Ahead(ir'[l], iw'[l]) = 0 /\ accepted'[l] = <<>> /\ taken'[l] = <<>>
      BY <1>1, <2>2, Distances, Typed
    <3>3. (Copied(l))' = Ahead(ir'[l], iw'[l]) - 0
      BY <3>1 DEF Copied
    <3> QED
      BY <2>2, <3>2, <3>3 DEF Continues
  <2>3. CASE ~(k = l /\ last)
    <3>1. /\ accepted'[k] = accepted[k] /\ taken'[k] = taken[k] /\ rec'[k] = rec[k]
          /\ ir'[k] = ir[k] /\ iw'[k] = iw[k]
      BY <1>1, <2>3, Typed
    <3>2. (Copying(k))' <=> Copying(k)
      BY <1>1, <1>2, <2>3, Typed DEF Copying
    <3>3. (Copied(k))' = Copied(k)
      BY <3>1, <3>2 DEF Copied
    <3> QED
      BY <3>1, <3>3 DEF Undisturbed, Accounted
  <2> QED
    BY <2>2, <2>3
<1>7. EmptyIfUnused'
  <2>1. SUFFICES ASSUME NEW k \in Lists, (UsersOf(k))' = {} PROVE iw'[k] = ir'[k]
    BY DEF EmptyIfUnused
  <2>2. CASE k = l
    <3>1. last
      BY <1>1, <2>1, <2>2, Typed DEF UsersOf
    <3> QED
      BY <1>1, <2>2, <3>1, Typed
  <2>3. CASE k # l
    <3>1. UsersOf(k) = {}
      BY <1>1, <2>1, <2>3, Typed DEF UsersOf
    <3> QED
      BY <1>1, <2>3, <3>1, Typed DEF Undisturbed, EmptyIfUnused
  <2> QED
    BY <2>2, <2>3
<1>8. Counted'
  <2>1. ir' \in [Lists -> Slots] /\ iw' \in [Lists -> Slots]
    BY <1>1, Typed
  <2>2. CASE final
    <3>1. Acting' = {}
      BY <1>1, <2>2, Typed DEF Acting, Locks
    <3>2. \A k \in Lists : ir'[k] = iw'[k]
      <4>1. ASSUME NEW k \in Lists, k # l PROVE UsersOf(k) = {}
        BY <1>1, <2>2, <4>1, Typed DEF UsersOf
      <4> QED
        BY <1>1, <1>3, <2>2, <4>1, Typed DEF Undisturbed, EmptyIfUnused
    <3>3. Waiting(ir', iw') = {}
      <4>1. ASSUME NEW s \in Waiting(ir', iw') PROVE FALSE
        <5>1. s[1] \in Lists /\ ir'[s[1]] \in Slots /\ ir'[s[1]] = iw'[s[1]]
          BY <2>1, <3>2 DEF Waiting
        <5>2. Ahead(ir'[s[1]], iw'[s[1]]) = 0
          BY <5>1, Distances, Typed
        <5> QED
          BY <5>2 DEF Waiting
      <4> QED
        BY <4>1
    <3>4. Cardinality({}) = 0
      BY FS_EmptySet
    <3>5. psema' = 0 /\ uncounted' = 0
      BY <1>1, <2>2
    <3> QED
      BY <3>1, <3>3, <3>4, <3>5 DEF Counted
  <2>3. CASE ~final
    <3>1. Waiting(ir', iw') = Waiting(ir, iw)
      <4>1. \A k \in Lists : \/ ir'[k] = ir[k] /\ iw'[k] = iw[k]
                             \/ ir'[k] = iw'[k] /\ ir[k] = iw[k]
        BY <1>1, <1>2, <2>3, Typed
      <4>2. ir \in [Lists -> Slots] /\ iw \in [Lists -> Slots]
        BY Typed
      <4> QED
        BY <2>1, <4>1, <4>2, EmptyListsAlike
    <3>2. Acting' = Acting \ {p}
      BY <1>1, Typed DEF Acting
    <3>3. psema' = psema
      BY <1>1, <2>3
    <3>4. CASE p \in Acting
      <4>1. uncounted' = uncounted + 1
        BY <1>1, <2>3, <3>4 DEF Acting
      <4>2. Cardinality(Acting') = Cardinality(Acting) - 1
        BY <3>2, <3>4, ActingChanges
      <4> QED
        BY <3>1, <3>3, <4>1, <4>2, Typed DEF Undisturbed, Counted
    <3>5. CASE p \notin Acting
      <4>1. uncounted' = uncounted /\ Acting' = Acting
        BY <1>1, <2>3, <3>2, <3>5 DEF Acting
      <4> QED
        BY <3>1, <3>3, <4>1 DEF Undisturbed, Counted
    <3> QED
      BY <3>4, <3>5
  <2> QED
    BY <2>2, <2>3
<1>9. Kept'
  <2>1. ASSUME NEW q \in Processes, held'[q] # NULL
        PROVE  /\ q # p /\ held'[q] = held[q] /\ list'[q] = list[q] /\ list[q] \in Lists
               /\ taken'[list[q]] = taken[list[q]] /\ ir'[list[q]] = ir[list[q]]
               /\ rec'[list[q]] = rec[list[q]]
    <3>1. q # p /\ held'[q] = held[q] /\ list'[q] = list[q] /\ list[q] \in Lists
      BY <1>1, <2>1, Typed DEF Locks
    <3> QED
      BY <1>1, <1>4, <3>1, Typed
  <2> QED
    BY <2>1 DEF Undisturbed, Kept
<1> QED
  BY <1>5, <1>6, <1>7, <1>8, <1>9 DEF Undisturbed

\* The next slot is the writer's, to copy its record to.
LEMMA TakeSlotKeeps ==
  ASSUME Types, Locks, Undisturbed, NEW p \in Processes, TakeSlot(p)
  PROVE  Undisturbed'
<1>0. PICK l \in Lists : l = list[p]
  BY Typed DEF TakeSlot, Step
<1>1. /\ list[p] = l /\ pc[p] = "idle" /\ pc' = [pc EXCEPT ![p] = "copy"]
      /\ plock = NULL /\ After(iw[l]) # ir[l]
      /\ iw' = [iw EXCEPT ![l] = After(iw[l])]
      /\ index' = [index EXCEPT ![p] = After(iw[l])]
      /\ UNCHANGED <<list, ir, rec, accepted, taken, held, psema, uncounted>>
  BY <1>0 DEF TakeSlot, Step, Acquire, Full, past
<1>2. \A q \in Processes : pc[q] # "copy"
  BY <1>1, Typed DEF Locks
<1>3. CopiesToLast'
  BY <1>1, <1>2, Typed DEF CopiesToLast
<1>4. Accounted'
  <2>1. SUFFICES ASSUME NEW k \in Lists
                 PROVE  Continues(accepted'[k], taken'[k], rec'[k], ir'[k], (Copied(k))')
    BY DEF Accounted
  <2>2. (Copied(k))' = Copied(k)
    <3>1. ~Copying(k)
      BY <1>2 DEF Copying
    <3>2. Copied(k) = Ahead(ir[k], iw[k]) /\ Ahead(ir[k], iw[k]) \in Int
      <4>1. Ahead(ir[k], iw[k]) \in Nat
        BY Distances, Typed
      <4>2. Copied(k) = Ahead(ir[k], iw[k]) - 0
        BY <3>1 DEF Copied
      <4> QED
        BY <4>1, <4>2
    <3>3. CASE k = l
      <4>1. (Copying(k))'
        BY <1>1, <3>3, Typed DEF Copying
      <4>2. ir'[l] = ir[l] /\ iw'[l] = After(iw[l])
        BY <1>1, Typed
      <4>3. Ahead(ir[l], After(iw[l])) = Ahead(ir[l], iw[l]) + 1
        BY <1>1, Distances, Typed
      <4>4. (Copied(k))' = Ahead(ir'[l], iw'[l]) - 1
        BY <3>3, <4>1 DEF Copied
      <4> QED
        BY <3>2, <3>3, <4>2, <4>3, <4>4
    <3>4. CASE k # l
      <4>1. ~(Copying(k))'
        BY <1>1, <1>2, <3>4, Typed DEF Copying
      <4>2. ir'[k] = ir[k] /\ iw'[k] = iw[k]
        BY <1>1, <3>4, Typed
      <4> QED
        BY <3>1, <4>1, <4>2 DEF Copied
    <3> QED
      BY <3>3, <3>4
  <2> QED
    BY <1>1, <2>2 DEF Undisturbed, Accounted
<1>5. EmptyIfUnused'
  BY <1>1, Typed DEF Undisturbed, EmptyIfUnused, UsersOf
<1>6. Counted'
  <2>1. p \notin Acting /\ Acting' = Acting \cup {p}
    BY <1>1, Typed DEF Acting
  <2>2. Cardinality(Acting') = Cardinality(Acting) + 1
    BY <2>1, ActingChanges
  <2>3. Cardinality(Waiting(ir', iw')) = Cardinality(Waiting(ir, iw)) + 1
    <3>1. ir \in [Lists -> Slots] /\ iw \in [Lists -> Slots]
      BY Typed
    <3>2. Cardinality(Waiting(ir, [iw EXCEPT ![l] = After(iw[l])]))
            = Cardinality(Waiting(ir, iw)) + 1
      BY <1>1, <3>1, OneWritten
    <3> QED
      BY <1>1, <3>2
  <2>4. psema' = psema /\ uncounted' = uncounted
    BY <1>1
  <2> QED
    BY <2>2, <2>3, <2>4, Typed DEF Undisturbed, Counted
<1>7. Kept'
  BY <1>1 DEF Undisturbed, Kept
<1> QED
  BY <1>3, <1>4, <1>5, <1>6, <1>7 DEF Undisturbed

\* The record is copied to the slot written last, which no reader has.
LEMMA CopyMemoryKeeps ==
  ASSUME Types, Types', Locks, Undisturbed, NEW p \in Processes, CopyMemory(p)
  PROVE  Undisturbed'
<1>0. PICK l \in Lists : l = list[p]
  BY Typed DEF CopyMemory, Step
<1> DEFINE R == 0 .. MaxPuts
<1>1. /\ list[p] = l /\ pc[p] = "copy" /\ pc' = [pc EXCEPT ![p] = "signal"]
      /\ rec' = [rec EXCEPT ![l][index[p]] = puts]
      /\ accepted' = [accepted EXCEPT ![l] = Append(accepted[l], puts)]
      /\ UNCHANGED <<list, ir, iw, index, taken, held, psema, uncounted>>
  BY <1>0 DEF CopyMemory, Step, header
<1>2. /\ index[p] = iw[l] /\ iw[l] # ir[l]
      /\ \A q \in Processes : pc[q] = "copy" => q = p
  BY <1>1, Typed DEF Undisturbed, CopiesToLast, Locks
<1>3. CopiesToLast'
  BY <1>1, <1>2, Typed DEF CopiesToLast
<1>4. Accounted'
  <2>1. SUFFICES ASSUME NEW k \in Lists
                 PROVE  Continues(accepted'[k], taken'[k], rec'[k], ir'[k], (Copied(k))')
    BY DEF Accounted
  <2>2. Continues(accepted[k], taken[k], rec[k], ir[k], Copied(k))
    BY DEF Undisturbed, Accounted
  <2>3. ~(Copying(k))'
    BY <1>1, <1>2, Typed DEF Copying
  <2>4. CASE k # l
    <3>1. ~Copying(k)
      BY <1>1, <1>2, <2>4 DEF Copying
    <3>2. (Copied(k))' = Copied(k)
      BY <1>1, <2>3, <3>1 DEF Copied
    <3> QED
      BY <1>1, <2>2, <2>4, <3>2, Typed
  <2>5. CASE k = l
    <3> DEFINE n == Ahead(ir[l], iw[l])
    <3>1. ir[l] \in Slots /\ iw[l] \in Slots
      BY Typed
    <3>2. n \in 1 .. NbRec - 1 /\ At(ir[l], n) = iw[l]
      <4>1. n \in 0 .. NbRec - 1 /\ n # 0 /\ At(ir[l], n) = iw[l]
        BY <1>2, <3>1, Distances
      <4> QED
        BY <4>1, Typed
    <3>3. Copying(l)
      BY <1>1 DEF Copying
    <3>4. Copied(l) = n - 1
      BY <3>3 DEF Copied
    <3>5. (Copied(l))' = n
      <4>1. (Copied(l))' = n - 0
        BY <1>1, <2>3, <2>5 DEF Copied
      <4> QED
        BY <3>2, <4>1, Typed
    <3>6. /\ accepted[l] \in Seq(R) /\ taken[l] \in Seq(R) /\ rec[l] \in [Slots -> R]
          /\ puts \in R
      BY Typed DEF Types
    <3>7. Continues(accepted[l], taken[l], rec[l], ir[l], n - 1)
      BY <2>2, <2>5, <3>4
    <3>8. Continues(Append(accepted[l], puts), taken[l],
                    [rec[l] EXCEPT ![At(ir[l], n)] = puts], ir[l], n)
      <4> HIDE DEF n, R
      <4> QED
        BY <3>1, <3>2, <3>6, <3>7, CopyContinues
    <3>9. /\ accepted'[l] = Append(accepted[l], puts) /\ taken'[l] = taken[l]
          /\ rec'[l] = [rec[l] EXCEPT ![At(ir[l], n)] = puts] /\ ir'[l] = ir[l]
      BY <1>1, <1>2, <3>2, Typed
    <3> QED
      BY <2>5, <3>5, <3>8, <3>9
  <2> QED
    BY <2>4, <2>5
<1>5. EmptyIfUnused'
  BY <1>1 DEF Undisturbed, EmptyIfUnused, UsersOf
<1>6. Counted'
  <2>1. Acting' = Acting
    BY <1>1, Typed DEF Acting
  <2>2. psema' = psema /\ uncounted' = uncounted /\ Waiting(ir', iw') = Waiting(ir, iw)
    BY <1>1
  <2> QED
    BY <2>1, <2>2, Typed DEF Undisturbed, Counted
<1>7. Kept'
  <2>1. \A k \in Lists : rec'[k][ir[k]] = rec[k][ir[k]]
    BY <1>1, <1>2, Typed
  <2>2. \A q \in Processes : held[q] # NULL => list[q] \in Lists
    BY Typed DEF Locks
  <2> QED
    BY <1>1, <2>1, <2>2 DEF Undisturbed, Kept
<1> QED
  BY <1>3, <1>4, <1>5, <1>6, <1>7 DEF Undisturbed

\* The oldest record is taken while nobody copies one.
LEMMA AdvanceKeeps ==
  ASSUME Types, Undisturbed, NEW l \in Lists, Advance(l), mishaps' = {}, UNCHANGED rec,
         \A k \in Lists : ~Copying(k) /\ ~(Copying(k))'
  PROVE  /\ Accounted'
         /\ Cardinality(Waiting(ir', iw')) = Cardinality(Waiting(ir, iw)) - 1
<1> DEFINE R == 0 .. MaxPuts
<1>1. /\ ir' = [ir EXCEPT ![l] = After(ir[l])] /\ ir[l] # iw[l]
      /\ taken' = [taken EXCEPT ![l] = Append(taken[l], rec[l][After(ir[l])])]
      /\ UNCHANGED <<iw, accepted, rec>>
  BY DEF Advance
<1>2. Accounted'
  <2>1. SUFFICES ASSUME NEW k \in Lists
                 PROVE  Continues(accepted'[k], taken'[k], rec'[k], ir'[k], (Copied(k))')
    BY DEF Accounted
  <2>2. Continues(accepted[k], taken[k], rec[k], ir[k], Copied(k))
    BY DEF Undisturbed, Accounted
  <2>3. /\ ir[k] \in Slots /\ iw[k] \in Slots
        /\ Copied(k) = Ahead(ir[k], iw[k]) - 0
        /\ (Copied(k))' = Ahead(ir'[k], iw'[k]) - 0
    BY Typed DEF Copied
  <2>4. CASE k # l
    <3>1. ir'[k] = ir[k] /\ iw'[k] = iw[k]
      BY <1>1, <2>4, Typed
    <3> QED
      BY <1>1, <2>2, <2>3, <2>4, <3>1, Typed
  <2>5. CASE k = l
    <3> DEFINE n == Ahead(ir[l], iw[l])
    <3>1. n \in 1 .. NbRec - 1 /\ Ahead(After(ir[l]), iw[l]) = n - 1
      <4>1. ir[l] \in Slots /\ iw[l] \in Slots
        BY Typed
      <4>2. n \in 0 .. NbRec - 1 /\ n # 0 /\ Ahead(After(ir[l]), iw[l]) = n - 1
        BY <1>1, <4>1, Distances
      <4> QED
        BY <4>2, Typed
    <3>2. ir'[l] = After(ir[l]) /\ iw'[l] = iw[l]
      BY <1>1, Typed
    <3>3. Copied(l) = n /\ (Copied(l))' = n - 1
      BY <2>3, <2>5, <3>1, <3>2, Typed
    <3>4. accepted[l] \in Seq(R) /\ taken[l] \in Seq(R)
      BY Typed
    <3>5. Continues(accepted[l], Append(taken[l], rec[l][After(ir[l])]), rec[l],
                    After(ir[l]), n - 1)
      <4>1. Continues(accepted[l], taken[l], rec[l], ir[l], n) /\ ir[l] \in Slots
        BY <2>2, <2>3, <2>5, <3>3
      <4> HIDE DEF n, R
      <4> QED
        BY <3>1, <3>4, <4>1, TakeContinues
    <3>6. taken'[l] = Append(taken[l], rec[l][After(ir[l])])
      BY <1>1, Typed
    <3> QED
      BY <1>1, <2>5, <3>2, <3>3, <3>5, <3>6
  <2> QED
    BY <2>4, <2>5
<1>3. Cardinality(Waiting(ir', iw')) = Cardinality(Waiting(ir, iw)) - 1
  <2>1. ir \in [Lists -> Slots] /\ iw \in [Lists -> Slots]
    BY Typed
  <2>2. Cardinality(Waiting([ir EXCEPT ![l] = After(ir[l])], iw))
          = Cardinality(Waiting(ir, iw)) - 1
    BY <1>1, <2>1, OneRead
  <2> QED
    BY <1>1, <2>2
<1> QED
  BY <1>2, <1>3

\* A reader takes the record it has counted down.
LEMMA TakeKeeps ==
  ASSUME Types, Locks, Undisturbed, NEW p \in Processes, Take(p), mishaps' = {}
  PROVE  Undisturbed'
<1>0. PICK l \in Lists : l = list[p]
  BY Typed DEF Take, Step
<1>1. /\ list[p] = l /\ pc[p] = "take" /\ pc' = [pc EXCEPT ![p] = "idle"] /\ plock = NULL
      /\ held' = [held EXCEPT ![p] = Handed(l, After(ir[l]))]
      /\ Advance(l)
      /\ UNCHANGED <<list, rec, psema, index>>
  BY <1>0 DEF Take, Step
<1>2. /\ ir' = [ir EXCEPT ![l] = After(ir[l])]
      /\ taken' = [taken EXCEPT ![l] = Append(taken[l], rec[l][After(ir[l])])]
      /\ UNCHANGED <<iw, accepted, uncounted>>
  BY <1>1 DEF Advance
<1>3. \A q \in Processes : pc[q] # "copy" /\ pc'[q] # "copy"
  BY <1>1, Typed DEF Locks
<1>4. \A k \in Lists : ~Copying(k) /\ ~(Copying(k))'
  BY <1>3 DEF Copying
<1>5. CopiesToLast'
  BY <1>3 DEF CopiesToLast
<1>6. /\ Accounted'
      /\ Cardinality(Waiting(ir', iw')) = Cardinality(Waiting(ir, iw)) - 1
  BY <1>1, <1>4, AdvanceKeeps
<1>7. EmptyIfUnused'
  BY <1>1, <1>2, Typed DEF Undisturbed, EmptyIfUnused, UsersOf
<1>8. Counted'
  <2>1. p \in Acting /\ Acting' = Acting \ {p}
    BY <1>1, Typed DEF Acting
  <2>2. Cardinality(Acting') = Cardinality(Acting) - 1
    BY <2>1, ActingChanges
  <2>3. psema' = psema /\ uncounted' = uncounted
    BY <1>1, <1>2
  <2> QED
    BY <1>6, <2>2, <2>3, Typed DEF Undisturbed, Counted
<1>9. Kept'
  <2>1. /\ Len(taken[l]) \in Nat /\ Len(taken'[l]) = Len(taken[l]) + 1
        /\ ir'[l] = After(ir[l])
        /\ \A k \in Lists : k # l => taken'[k] = taken[k] /\ ir'[k] = ir[k]
    <3>1. taken[l] \in Seq(0 .. MaxPuts)
      BY Typed
    <3> QED
      BY <1>2, <3>1, Typed
  <2>2. SUFFICES ASSUME NEW q \in Processes, held'[q] # NULL
                 PROVE  LET k == list'[q] IN
                        /\ held'[q].nth <= Len(taken'[k])
                        /\ held'[q].nth = Len(taken'[k]) =>
                             /\ held'[q].slot = ir'[k]
                             /\ rec'[k][ir'[k]] = held'[q].record
    BY DEF Kept
  <2>3. CASE q = p
    <3>1. held'[q] = Handed(l, After(ir[l])) /\ list'[q] = l
      BY <1>1, <2>3, Typed
    <3> QED
      BY <1>1, <2>1, <3>1 DEF Handed
  <2>4. CASE q # p
    <3>1. held'[q] = held[q] /\ list'[q] = list[q] /\ list[q] \in Lists
      BY <1>1, <2>2, <2>4, Typed DEF Locks
    <3>2. held[q].nth \in Nat
      BY <2>2, <3>1 DEF Types, Handings
    <3>3. /\ held[q].nth <= Len(taken[list[q]])
          /\ held[q].nth = Len(taken[list[q]]) =>
               /\ held[q].slot = ir[list[q]]
               /\ rec[list[q]][ir[list[q]]] = held[q].record
      BY <2>2, <3>1 DEF Undisturbed, Kept
    <3> QED
      BY <1>1, <2>1, <3>1, <3>2, <3>3
  <2> QED
    BY <2>3, <2>4
<1> QED
  BY <1>5, <1>6, <1>7, <1>8, <1>9 DEF Undisturbed

\* A record is flushed and counted down.
LEMMA FlushOneKeeps ==
  ASSUME Types, Locks, Undisturbed, NEW p \in Processes, FlushOne(p), mishaps' = {}
  PROVE  Undisturbed'
<1>0. PICK l \in Lists : l = list[p]
  BY Typed DEF FlushOne, Step
<1>1. /\ list[p] = l /\ pc[p] = "flush" /\ pc' = pc
      /\ psema' = psema - 1
      /\ Advance(l)
      /\ UNCHANGED <<list, rec, index, held>>
  BY <1>0 DEF FlushOne, Step, Types, TypeOK
<1>2. /\ ir' = [ir EXCEPT ![l] = After(ir[l])]
      /\ taken' = [taken EXCEPT ![l] = Append(taken[l], rec[l][After(ir[l])])]
      /\ UNCHANGED <<iw, accepted, uncounted>>
  BY <1>1 DEF Advance
<1>3. \A q \in Processes : pc[q] # "copy" /\ pc'[q] # "copy"
  BY <1>1, Typed DEF Locks
<1>4. \A k \in Lists : ~Copying(k) /\ ~(Copying(k))'
  BY <1>3 DEF Copying
<1>5. CopiesToLast'
  BY <1>3 DEF CopiesToLast
<1>6. /\ Accounted'
      /\ Cardinality(Waiting(ir', iw')) = Cardinality(Waiting(ir, iw)) - 1
  BY <1>1, <1>4, AdvanceKeeps
<1>7. EmptyIfUnused'
  BY <1>1, <1>2, Typed DEF Undisturbed, EmptyIfUnused, UsersOf
<1>8. Counted'
  <2>1. Acting' = Acting
    BY <1>1 DEF Acting
  <2>2. psema' = psema - 1 /\ uncounted' = uncounted
    BY <1>1, <1>2
  <2>3. psema + uncounted + Cardinality(Acting) = Cardinality(Waiting(ir, iw))
    BY DEF Undisturbed, Counted
  <2>4. psema' + uncounted' + Cardinality(Acting) = Cardinality(Waiting(ir, iw)) - 1
    <3>1. \A i, j, k, n \in Nat : i + j + k = n => i - 1 + j + k = n - 1
      OBVIOUS
    <3>2. psema - 1 + uncounted + Cardinality(Acting) = Cardinality(Waiting(ir, iw)) - 1
      BY <2>3, <3>1, Typed
    <3> QED
      BY <2>2, <3>2
  <2> QED
    BY <1>6, <2>1, <2>4 DEF Counted
<1>9. Kept'
  <2>1. /\ Len(taken[l]) \in Nat /\ Len(taken'[l]) = Len(taken[l]) + 1
        /\ \A k \in Lists : k # l => taken'[k] = taken[k] /\ ir'[k] = ir[k]
    <3>1. taken[l] \in Seq(0 .. MaxPuts)
      BY Typed
    <3> QED
      BY <1>2, <3>1, Typed
  <2>2. SUFFICES ASSUME NEW q \in Processes, held'[q] # NULL
                 PROVE  LET k == list'[q] IN
                        /\ held'[q].nth <= Len(taken'[k])
                        /\ held'[q].nth = Len(taken'[k]) =>
                             /\ held'[q].slot = ir'[k]
                             /\ rec'[k][ir'[k]] = held'[q].record
    BY DEF Kept
  <2>3. held'[q] = held[q] /\ list'[q] = list[q] /\ list[q] \in Lists
    BY <1>1, <2>2, Typed DEF Locks
  <2>4. held[q].nth \in Nat
    BY <2>2, <2>3 DEF Types, Handings
  <2>5. /\ held[q].nth <= Len(taken[list[q]])
        /\ held[q].nth = Len(taken[list[q]]) =>
             /\ held[q].slot = ir[list[q]]
             /\ rec[list[q]][ir[list[q]]] = held[q].record
    BY <2>2, <2>3 DEF Undisturbed, Kept
  <2> QED
    BY <1>1, <2>1, <2>3, <2>4, <2>5
<1> QED
  BY <1>5, <1>6, <1>7, <1>8, <1>9 DEF Undisturbed

-----------------------------------------------------------------------------
\* The theorems.

\* Mishaps stay.
LEMMA MishapsStay ==
  ASSUME NEW p \in Processes,
         \/ \E l \in Lists : Construct(p, l)
         \/ Fill(p) \/ ChangeClients(p) \/ Exit(p)
         \/ TakeSlot(p) \/ CopyMemory(p) \/ Signal(p)
         \/ Wait(p) \/ Take(p)
         \/ Flush(p) \/ FlushOne(p)
  PROVE  mishaps \subseteq mishaps'
<1>1. CASE (\E l \in Lists : Construct(p, l)) \/ Fill(p) \/ Exit(p)
  BY <1>1 DEF Construct, Fill, Exit
<1>2. CASE ChangeClients(p) \/ TakeSlot(p) \/ CopyMemory(p) \/ Signal(p)
  BY <1>2 DEF ChangeClients, TakeSlot, CopyMemory, Signal, past
<1>3. CASE Wait(p) \/ Take(p) \/ Flush(p) \/ FlushOne(p)
  BY <1>3 DEF Wait, Take, Flush, FlushOne, Advance, past
<1> QED
  BY <1>1, <1>2, <1>3

\* SharedIInv is inductive.
LEMMA SharedNextIInv == SharedIInv /\ [Next]_vars => SharedIInv'
<1> SUFFICES ASSUME SharedIInv, [Next]_vars PROVE SharedIInv'
  OBVIOUS
<1>1. CASE UNCHANGED vars
  <2>1. UNCHANGED <<list, pc, iw, ir, nbClients, rec, plock, psema, index, held, puts,
                    accepted, taken, uncounted, mishaps>>
    BY <1>1 DEF vars, header, past
  <2>2. Types'
    BY <2>1 DEF SharedIInv, Types, TypeOK
  <2>3. Locks'
    BY <2>1 DEF SharedIInv, Locks
  <2>4. ASSUME mishaps' = {} PROVE Undisturbed'
    <3>1. Types /\ Undisturbed
      BY <2>1, <2>4 DEF SharedIInv, Undisturbed
    <3>2. Acting' = Acting
      BY <2>1 DEF Acting
    <3>3. CopiesToLast' /\ Accounted' /\ EmptyIfUnused' /\ Kept'
      BY <2>1, <3>1, QuietKeeps
    <3> QED
      BY <2>1, <3>1, <3>2, <3>3 DEF Undisturbed, Counted
  <2> QED
    BY <2>2, <2>3, <2>4 DEF SharedIInv, Undisturbed
<1>2. ASSUME NEW p \in Processes,
             \/ \E l \in Lists : Construct(p, l)
             \/ Fill(p) \/ ChangeClients(p) \/ Exit(p)
             \/ TakeSlot(p) \/ CopyMemory(p) \/ Signal(p)
             \/ Wait(p) \/ Take(p)
             \/ Flush(p) \/ FlushOne(p)
      PROVE  SharedIInv'
  <2>1. Types /\ Locks
    BY DEF SharedIInv
  <2>2. Types' /\ Locks'
    BY <1>2, <2>1, StepTypes, StepLocks
  <2>3. ASSUME mishaps' = {} PROVE Undisturbed'
    <3>1. Undisturbed
      BY <1>2, <2>3, MishapsStay DEF SharedIInv, Undisturbed
    <3>2. CASE (\E l \in Lists : Construct(p, l)) \/ Fill(p) \/ Exit(p)
      BY <2>1, <2>3, <3>1, <3>2, ConstructKeeps, FillKeeps, ExitKeeps
    <3>3. CASE ChangeClients(p) \/ Signal(p) \/ Wait(p) \/ Flush(p)
      BY <2>1, <3>1, <3>3, ChangeClientsKeeps, SignalKeeps, WaitKeeps, FlushKeeps
    <3>4. CASE TakeSlot(p) \/ CopyMemory(p)
      BY <2>1, <2>2, <3>1, <3>4, TakeSlotKeeps, CopyMemoryKeeps
    <3>5. CASE Take(p) \/ FlushOne(p)
      BY <2>1, <2>3, <3>1, <3>5, TakeKeeps, FlushOneKeeps
    <3> QED
      BY <1>2, <3>2, <3>3, <3>4, <3>5
  <2> QED
    BY <2>2, <2>3 DEF SharedIInv, Undisturbed
<1> QED
  BY <1>1, <1>2 DEF Next

\* SharedIInv always holds.
LEMMA SharedInvariance == Spec => []SharedIInv
<1>1. Init => SharedIInv
  BY SharedInitIInv
<1>2. SharedIInv /\ [Next]_vars => SharedIInv'
  BY SharedNextIInv
<1> QED
  BY <1>1, <1>2, PTL DEF Spec

\* What is in a list follows what was taken from it, when nobody copies.
LEMMA AccountedIs ==
  ASSUME Types, Accounted, NEW l \in Lists, ~Copying(l)
  PROVE  accepted[l] = taken[l] \o Unread(l)
<1> DEFINE n == Ahead(ir[l], iw[l])
<1>1. n \in Nat /\ accepted[l] \in Seq(0 .. MaxPuts) /\ taken[l] \in Seq(0 .. MaxPuts)
  BY Distances, Typed
<1>2. Copied(l) = n
  BY <1>1 DEF Copied
<1>3. Continues(accepted[l], taken[l], rec[l], ir[l], n)
  BY <1>2 DEF Accounted
<1>4. Unread(l) = [i \in 1 .. n |-> rec[l][At(ir[l], i)]]
  <2>1. Pending(l) = [i \in 1 .. n |-> At(ir[l], i)]
    BY DEF Pending, Ahead, At
  <2> HIDE DEF n
  <2> QED
    BY <2>1 DEF Unread
<1> HIDE DEF n
<1>5. Len(Unread(l)) = n /\ DOMAIN Unread(l) = 1 .. n
  BY <1>1, <1>4
<1> DEFINE s == taken[l] \o Unread(l)
<1>6. /\ DOMAIN s = 1 .. Len(taken[l]) + n
      /\ \A i \in 1 .. Len(taken[l]) + n :
           s[i] = IF i <= Len(taken[l]) THEN taken[l][i] ELSE Unread(l)[i - Len(taken[l])]
  BY <1>1, <1>5 DEF s
<1> HIDE DEF s
<1>7. DOMAIN accepted[l] = 1 .. Len(taken[l]) + n
  BY <1>1, <1>3 DEF Continues
<1>8. ASSUME NEW i \in 1 .. Len(taken[l]) + n PROVE accepted[l][i] = s[i]
  <2>1. CASE i <= Len(taken[l])
    BY <1>1, <1>3, <1>6, <2>1 DEF Continues
  <2>2. CASE i > Len(taken[l])
    <3>1. i - Len(taken[l]) \in 1 .. n /\ Len(taken[l]) + (i - Len(taken[l])) = i
      BY <1>1, <2>2
    <3>2. accepted[l][i] = rec[l][At(ir[l], i - Len(taken[l]))]
      BY <1>3, <3>1 DEF Continues
    <3>3. s[i] = Unread(l)[i - Len(taken[l])]
      BY <1>1, <1>6, <2>2
    <3> QED
      BY <1>4, <3>1, <3>2, <3>3
  <2> QED
    BY <1>1, <2>1, <2>2
<1>9. accepted[l] = s
  <2>1. accepted[l] = [i \in DOMAIN accepted[l] |-> accepted[l][i]]
    BY <1>1
  <2>2. s = [i \in DOMAIN s |-> s[i]]
    BY <1>1, <1>4 DEF s
  <2> QED
    BY <1>6, <1>7, <1>8, <2>1, <2>2
<1> QED
  BY <1>9 DEF s

\* The slots to be read are those that Pending names.
LEMMA UnreadSlotsAre ==
  ASSUME Types
  PROVE  UnreadSlots = Waiting(ir, iw)
<1>1. ASSUME NEW s \in Lists \X Slots
      PROVE  (\E n \in DOMAIN Pending(s[1]) : s[2] = Pending(s[1])[n])
               <=> Ahead(ir[s[1]], s[2]) \in 1 .. Ahead(ir[s[1]], iw[s[1]])
  <2> DEFINE a == ir[s[1]]
             k == Ahead(a, iw[s[1]])
  <2>1. a \in Slots /\ iw[s[1]] \in Slots /\ s[2] \in Slots
    BY Typed
  <2>2. k \in 0 .. NbRec - 1 /\ Ahead(a, s[2]) \in 0 .. NbRec - 1
    BY <2>1, Distances, Typed
  <2>3. Pending(s[1]) = [n \in 1 .. k |-> At(a, n)]
    BY DEF Pending, Ahead, At
  <2> HIDE DEF a, k
  <2>4. At(a, Ahead(a, s[2])) = s[2]
    BY <2>1, Distances, Typed
  <2>5. ASSUME NEW n \in 1 .. k, s[2] = At(a, n) PROVE Ahead(a, s[2]) = n
    <3>1. n \in 0 .. NbRec - 1
      BY <2>2, Typed
    <3> QED
      BY <2>1, <2>5, <3>1, Ring
  <2>6. (\E n \in DOMAIN Pending(s[1]) : s[2] = Pending(s[1])[n])
          <=> Ahead(a, s[2]) \in 1 .. k
    BY <2>3, <2>4, <2>5
  <2> QED
    BY <2>6 DEF a, k
<1> QED
  BY <1>1 DEF UnreadSlots, Waiting

\* Nothing is lost, repeated or reordered in a list, and the semaphore counts what
\* is to be read.
THEOREM ListsAndCounts == Spec => []ListsAndCountsAgree
<1>1. SharedIInv => ListsAndCountsAgree
  <2> SUFFICES ASSUME SharedIInv PROVE ListsAndCountsAgree
    OBVIOUS
  <2>1. Types /\ TypeOK /\ Locks
    BY DEF SharedIInv, Types
  <2>2. ASSUME mishaps = {}, plock = NULL, NEW l \in Lists
        PROVE  accepted[l] = taken[l] \o Unread(l)
    <3>1. ~Copying(l)
      BY <2>1, <2>2, Typed DEF Locks, Copying
    <3>2. Accounted
      BY <2>2 DEF SharedIInv
    <3> QED
      BY <2>1, <3>1, <3>2, AccountedIs
  <2>3. CountsMatchRecords
    BY <2>1, UnreadSlotsAre DEF SharedIInv, Counted, CountsMatchRecords, Acting
  <2> QED
    BY <2>1, <2>2, <2>3 DEF ListsAndCountsAgree, RecordsAccounted
<1> QED
  BY <1>1, SharedInvariance, PTL

\* The record a reader has is not written to before its next get.
THEOREM RecordsKept == Spec => []RecordKeptForReader
<1>1. SharedIInv => RecordKeptForReader
  BY DEF SharedIInv, Kept, RecordKeptForReader
<1> QED
  BY <1>1, SharedInvariance, PTL
=============================================================================
