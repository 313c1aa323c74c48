---------------------------- MODULE TcpSendProofs ----------------------------
(***************************************************************************)
(* What TcpSend says of verdicts and of the life of messages, for any      *)
(* senders, messages and numbers of retries and of connections.            *)
(***************************************************************************)
EXTENDS TcpSend, FiniteSetTheorems, SequenceTheorems, TLAPS

-----------------------------------------------------------------------------
\* The inductive invariant.

\* What a thread works on: a message, or none.
Carried == {<<>>} \cup {<<m>> : m \in Msgs}

Types ==
  /\ TypeOK
  /\ waitForAckP \in BOOLEAN
  /\ deletes \in [Msgs -> Nat]
  /\ msgStatus \in [Msgs -> {"none", "ack", "nak"}]
  /\ results \in [Msgs -> {"none", "ok", "failed"}]
  /\ pc \in [Senders -> {"idle", "wait", "dismiss", "store"}]
  /\ sending \in [Senders -> Carried]
  /\ loaded \in [Senders -> 0 .. 3]
  /\ \A s \in Senders : pc[s] # "store" => loaded[s] = 0
  /\ txPc \in {"idle", "addref", "send", "wait", "woken", "timedout", "answer", "done"}
  /\ pToSendMsg \in Carried
  /\ attempts \in [Msgs -> Nat]
  /\ acks \in Nat
  /\ txPc = "wait" => retriesLeft > 0

Queued(m) == \E i \in DOMAIN msgsTxQueue : msgsTxQueue[i] = m
Held(m)   == pToSendMsg = <<m>>

\* A message is queued once and then taken; one that no Send has used is nowhere.
QueuedOnce ==
  /\ \A i, j \in DOMAIN msgsTxQueue : msgsTxQueue[i] = msgsTxQueue[j] => i = j
  /\ \A m \in Msgs : Queued(m) => ~Held(m)
  /\ \A m \in Msgs : Fresh(m) =>
       /\ ~Queued(m) /\ ~Held(m) /\ attempts[m] = 0
       /\ \A s \in Senders : sending[s] # <<m>>

\* Before the Tx thread counts its reference there are two at most, and a sender
\* that dismisses the message has read no more.
CountsBounded ==
  \A m \in Msgs : Queued(m) \/ (Held(m) /\ txPc = "addref") =>
    /\ mUseCnt[m] <= 2
    /\ \A s \in Senders : sending[s] = <<m>> => loaded[s] <= 2

\* A message is sent not before its turn, and no more often than the retries that
\* have been used allow.
Tries ==
  \A m \in Msgs :
    /\ attempts[m] <= MaxRetries + 1
    /\ Queued(m) => attempts[m] = 0
    /\ Held(m) =>
         /\ txPc \in {"addref", "send"} => attempts[m] = 0
         /\ txPc = "wait" => attempts[m] + retriesLeft <= MaxRetries + 2
         /\ txPc \in {"woken", "timedout"} =>
              attempts[m] + retriesLeft <= MaxRetries + 1
         /\ txPc \in {"wait", "woken", "timedout", "answer"} => attempts[m] > 0

\* An ACK is one that came since the message was taken, and a message that has
\* got one was sent.
Verdicts ==
  /\ pToSendMsg # <<>> /\ mAckNakStatus = "ack" => ackSinceTaken
  /\ \A m \in Msgs : msgStatus[m] = "ack" => attempts[m] > 0
  /\ waitForAckP => \A m \in Msgs : results[m] = "ok" => attempts[m] > 0

\* Without waitForAckP only the queue and the Tx thread refer to a message.
SendersAway ==
  ~waitForAckP =>
    /\ \A s \in Senders : pc[s] = "idle"
    /\ txPc \in {"idle", "addref", "send", "done"}
    /\ \A m \in Msgs :
         /\ Queued(m) => mUseCnt[m] = 1 /\ deletes[m] = 0
         /\ Held(m) => mUseCnt[m] = (IF txPc = "send" THEN 2 ELSE 1) /\ deletes[m] = 0
         /\ ~Queued(m) /\ ~Held(m) => mUseCnt[m] = 0 /\ deletes[m] <= 1

\* The messages whose sender is told of an ACK, and one more that the ACK of the
\* Tx thread's message may still be counted for.
Told == {m \in Msgs : msgStatus[m] = "ack"}
Due  == IF ackSinceTaken /\ txPc \notin {"idle", "done"} THEN 1 ELSE 0

\* Each of them has an ACK of its own, and none of them is still to be sent.
Answered ==
  /\ IsFiniteSet(Told)
  /\ Cardinality(Told) + Due <= acks
  /\ \A m \in Told : ~Queued(m) /\ (Held(m) => txPc = "done")
  /\ waitForAckP => \A m \in Msgs : results[m] = "ok" => m \in Told

SendIInv ==
  /\ Types /\ QueuedOnce /\ CountsBounded /\ Tries /\ Verdicts /\ SendersAway
  /\ Answered
-----------------------------------------------------------------------------
\* Facts of the operators.

\* Tuples of one message.
LEMMA Tuples ==
  /\ \A m, n \in Msgs : <<m>> = <<n>> <=> m = n
  /\ \A m \in Msgs : <<m>> # <<>> /\ Len(<<m>>) = 1 /\ <<m>>[1] = m /\ <<m>> \in Carried
  /\ <<>> \in Carried /\ Len(<<>>) = 0
  /\ \A c \in Carried :
       /\ Len(c) = 0 => c = <<>>
       /\ Len(c) = 1 => c[1] \in Msgs /\ c = <<c[1]>>
BY DEF Carried

\* What a thread works on, by where it is.
LEMMA Holding ==
  ASSUME Types
  PROVE  /\ txPc = "idle" <=> pToSendMsg = <<>>
         /\ txPc # "idle" => pToSendMsg[1] \in Msgs /\ pToSendMsg = <<pToSendMsg[1]>>
         /\ \A s \in Senders :
              /\ pc[s] = "idle" <=> sending[s] = <<>>
              /\ pc[s] # "idle" =>
                   sending[s][1] \in Msgs /\ sending[s] = <<sending[s][1]>>
<1>1. /\ pToSendMsg \in Carried
      /\ Len(pToSendMsg) = IF txPc = "idle" THEN 0 ELSE 1
      /\ sending \in [Senders -> Carried]
      /\ \A s \in Senders : Len(sending[s]) = IF pc[s] = "idle" THEN 0 ELSE 1
  BY DEF Types, TypeOK
<1>2. \A s \in Senders : sending[s] \in Carried
  BY <1>1
<1> QED
  BY <1>1, <1>2, Tuples

\* What a step that leaves a variable alone leaves alone.
LEMMA Untouched ==
  /\ UNCHANGED msgsTxQueue => \A m \in Msgs : Queued(m)' <=> Queued(m)
  /\ UNCHANGED pToSendMsg => \A m \in Msgs : Held(m)' <=> Held(m)
  /\ UNCHANGED attempts => \A m \in Msgs : attempts'[m] = attempts[m]
  /\ UNCHANGED counts => \A m \in Msgs : Fresh(m)' <=> Fresh(m)
  /\ msgsTxQueue' = <<>> => \A m \in Msgs : ~Queued(m)'
<1>1. UNCHANGED msgsTxQueue => \A m \in Msgs : Queued(m)' <=> Queued(m)
  BY DEF Queued
<1>2. msgsTxQueue' = <<>> => \A m \in Msgs : ~Queued(m)'
  BY DEF Queued
<1> QED
  BY <1>1, <1>2 DEF Held, Fresh, counts

\* What a step that tells no sender of an ACK keeps of the counting of ACKs.
LEMMA NoneTold ==
  ASSUME Types, Answered, UNCHANGED msgStatus, acks' \in Nat, Due' <= Due + acks' - acks
  PROVE  /\ Told' = Told
         /\ IsFiniteSet(Told')
         /\ Cardinality(Told') + Due' <= acks'
<1>1. Told' = Told
  BY DEF Told
<1>2. Cardinality(Told) \in Nat /\ acks \in Nat /\ Due \in Nat /\ Due' \in Nat
  BY FS_CardinalityType DEF Answered, Types, Due
<1>3. Cardinality(Told) + Due <= acks
  BY DEF Answered
<1>4. \A n, d, e, a, b \in Nat : n + d <= a /\ e <= d + b - a => n + e <= b
  OBVIOUS
<1>5. Cardinality(Told) + Due' <= acks'
  BY <1>2, <1>3, <1>4
<1> QED
  BY <1>1, <1>5 DEF Answered

\* Taking the first message out of the queue.
LEMMA FirstRemoved ==
  ASSUME NEW q \in Seq(Msgs), q # <<>>
  PROVE  /\ 1 \in DOMAIN q
         /\ RemoveAt(q, 1) \in Seq(Msgs)
         /\ DOMAIN RemoveAt(q, 1) = 1 .. Len(q) - 1
         /\ \A i \in DOMAIN RemoveAt(q, 1) :
              i + 1 \in DOMAIN q /\ RemoveAt(q, 1)[i] = q[i + 1]
<1>1. Len(q) \in Nat /\ Len(q) > 0 /\ DOMAIN q = 1 .. Len(q)
  OBVIOUS
<1> DEFINE u == SubSeq(q, 1, 0)
           v == SubSeq(q, 2, Len(q))
<1>2. /\ u \in Seq(Msgs) /\ Len(u) = 0
      /\ v \in Seq(Msgs) /\ Len(v) = Len(q) - 1
      /\ \A i \in 1 .. Len(q) - 1 : v[i] = q[i + 1]
  BY <1>1
<1>3. RemoveAt(q, 1) = u \o v
  BY <1>1 DEF RemoveAt
<1> HIDE DEF u, v
<1>4. /\ u \o v \in Seq(Msgs)
      /\ Len(u \o v) = Len(q) - 1
      /\ \A i \in 1 .. Len(q) - 1 : (u \o v)[i] = v[i]
  <2>1. /\ u \o v \in Seq(Msgs)
        /\ Len(u \o v) = Len(u) + Len(v)
        /\ \A i \in 1 .. Len(u) + Len(v) :
             (u \o v)[i] = IF i <= Len(u) THEN u[i] ELSE v[i - Len(u)]
    BY <1>2, ConcatProperties
  <2>2. \A i \in 1 .. Len(q) - 1 : ~(i <= 0) /\ i - 0 = i
    BY <1>1
  <2> QED
    BY <1>1, <1>2, <2>1, <2>2
<1> QED
  BY <1>1, <1>2, <1>3, <1>4

\* Dismiss changes the count of one message, which is not new afterwards.
LEMMA Dismissed ==
  ASSUME Types, NEW m \in Msgs, NEW n \in 0 .. 3, DismissFrom(m, n)
  PROVE  /\ mUseCnt' \in [Msgs -> 0 .. 3]
         /\ deletes' \in [Msgs -> Nat]
         /\ mUseCnt'[m] = (IF n > 0 THEN n - 1 ELSE 0)
         /\ deletes'[m] = (IF n > 1 THEN deletes[m] ELSE deletes[m] + 1)
         /\ \A x \in Msgs \ {m} : mUseCnt'[x] = mUseCnt[x] /\ deletes'[x] = deletes[x]
         /\ ~Fresh(m)'
         /\ \A x \in Msgs : Fresh(x)' => Fresh(x)
<1>1. mUseCnt \in [Msgs -> 0 .. 3] /\ deletes \in [Msgs -> Nat]
  BY DEF Types, TypeOK
<1>2. /\ mUseCnt'[m] = (IF n > 0 THEN n - 1 ELSE 0)
      /\ deletes'[m] = (IF n > 1 THEN deletes[m] ELSE deletes[m] + 1)
      /\ \A x \in Msgs \ {m} : mUseCnt'[x] = mUseCnt[x] /\ deletes'[x] = deletes[x]
  BY <1>1 DEF DismissFrom
<1>3. mUseCnt' \in [Msgs -> 0 .. 3] /\ deletes' \in [Msgs -> Nat]
  BY <1>1 DEF DismissFrom
<1> QED
  BY <1>1, <1>2, <1>3 DEF Fresh
-----------------------------------------------------------------------------
\* Every step keeps the invariant.

\* It holds at first.
LEMMA InitIInv == ASSUME Init PROVE SendIInv
<1>1. \A m \in Msgs : Fresh(m) /\ ~Queued(m) /\ ~Held(m)
  BY DEF Init, Fresh, Queued, Held
<1>2. \A m \in Msgs : attempts[m] = 0
  BY DEF Init
<1>3. Types
  <2>1. TypeOK
    <3>1. mUseCnt \in [Msgs -> 0 .. 3] /\ mAckEvent \in [Msgs -> BOOLEAN]
      BY DEF Init
    <3>2. \A s \in Senders : Len(sending[s]) = IF pc[s] = "idle" THEN 0 ELSE 1
      BY Tuples DEF Init
    <3>3. retriesLeft \in 0 .. MaxRetries + 1
      BY TcpSendAssumption DEF Init
    <3>4. Len(pToSendMsg) = IF txPc = "idle" THEN 0 ELSE 1
      BY Tuples DEF Init
    <3>5. msgsTxQueue \in Seq(Msgs)
      BY DEF Init
    <3> QED
      BY <3>1, <3>2, <3>3, <3>4, <3>5 DEF Init, TypeOK
  <2>2. sending \in [Senders -> Carried] /\ pToSendMsg \in Carried
    BY Tuples DEF Init
  <2>3. attempts \in [Msgs -> Nat] /\ acks \in Nat
    BY DEF Init
  <2> QED
    BY <2>1, <2>2, <2>3 DEF Init, Types
<1>4. QueuedOnce
  BY <1>1, <1>2 DEF Init, QueuedOnce
<1>5. CountsBounded
  BY <1>1 DEF CountsBounded
<1>6. Tries
  BY <1>1, <1>2, TcpSendAssumption DEF Tries
<1>7. Verdicts
  BY DEF Init, Verdicts
<1>8. SendersAway
  BY <1>1 DEF Init, SendersAway
<1>9. Answered
  <2>1. Told = {} /\ Due = 0 /\ acks = 0
    BY DEF Init, Told, Due
  <2>2. \A m \in Msgs : results[m] # "ok"
    BY DEF Init
  <2> QED
    BY <2>1, <2>2, FS_EmptySet DEF Answered
<1> QED
  BY <1>3, <1>4, <1>5, <1>6, <1>7, <1>8, <1>9 DEF SendIInv

\* The Rx thread's own steps: an answer that is an ACK is noted as one.
LEMMA RxKeeps ==
  ASSUME SendIInv, mAckNakEvent' \in BOOLEAN,
         UNCHANGED <<waitForAckP, msgsTxQueue, counts, msgStatus, sender, txCtl,
                     attempts>>,
         mAckEvent' = mAckEvent,
         \/ UNCHANGED <<mAckNakStatus, ackSinceTaken, acks>>
         \/ mAckNakStatus' = "ack" /\ ackSinceTaken' /\ acks' = acks + 1
         \/ mAckNakStatus' = "nak" /\ (ackSinceTaken' <=> ackSinceTaken) /\ acks' = acks
  PROVE  SendIInv'
<1> USE DEF counts, sender, txCtl
<1>1. \A m \in Msgs :
        /\ Queued(m)' <=> Queued(m)
        /\ Held(m)' <=> Held(m)
        /\ attempts'[m] = attempts[m]
        /\ Fresh(m)' <=> Fresh(m)
  BY Untouched
<1>2. Types'
  BY DEF SendIInv, Types, TypeOK
<1>3. QueuedOnce'
  BY <1>1 DEF SendIInv, QueuedOnce
<1>4. CountsBounded'
  BY <1>1 DEF SendIInv, CountsBounded
<1>5. Tries'
  BY <1>1 DEF SendIInv, Tries
<1>6. Verdicts'
  BY <1>1 DEF SendIInv, Verdicts
<1>7. SendersAway'
  BY <1>1 DEF SendIInv, SendersAway
<1>8. Answered'
  <2>1. acks' \in Nat /\ Due' <= Due + acks' - acks
    BY DEF SendIInv, Types, Due
  <2>2. /\ Told' = Told
        /\ IsFiniteSet(Told')
        /\ Cardinality(Told') + Due' <= acks'
    BY <2>1, NoneTold DEF SendIInv
  <2>3. \A m \in Told : m \in Msgs
    BY DEF Told
  <2> QED
    BY <1>1, <2>2, <2>3 DEF SendIInv, Answered
<1> QED
  BY <1>2, <1>3, <1>4, <1>5, <1>6, <1>7, <1>8 DEF SendIInv

\* A message is queued.
LEMMA QueueKeeps ==
  ASSUME SendIInv, mAckNakEvent' \in BOOLEAN,
         NEW s \in Senders, NEW m \in Msgs, Queue(s, m),
         UNCHANGED <<waitForAckP, mAckNakStatus, reply, txCtl, attempts, answers>>
  PROVE  SendIInv'
<1> USE DEF reply, txCtl, answers
<1>1. /\ msgsTxQueue \in Seq(Msgs)
      /\ mUseCnt \in [Msgs -> 0 .. 3] /\ deletes \in [Msgs -> Nat]
      /\ pc \in [Senders -> {"idle", "wait", "dismiss", "store"}]
      /\ sending \in [Senders -> Carried]
      /\ pc[s] = "idle" /\ sending[s] = <<>> /\ loaded[s] = 0
  BY Holding DEF SendIInv, Types, TypeOK, Queue
<1>2. \A n \in Msgs :
        /\ Held(n)' <=> Held(n)
        /\ attempts'[n] = attempts[n]
        /\ Queued(n)' <=> Queued(n) \/ n = m
        /\ n # m => mUseCnt'[n] = mUseCnt[n] /\ (Fresh(n)' <=> Fresh(n))
  <2>1. \A n \in Msgs : Queued(n)' <=> Queued(n) \/ n = m
    <3>1. msgsTxQueue' = Append(msgsTxQueue, m)
      BY DEF Queue
    <3>2. /\ Len(msgsTxQueue) \in Nat /\ DOMAIN msgsTxQueue = 1 .. Len(msgsTxQueue)
          /\ DOMAIN msgsTxQueue' = 1 .. Len(msgsTxQueue) + 1
          /\ msgsTxQueue'[Len(msgsTxQueue) + 1] = m
          /\ \A i \in DOMAIN msgsTxQueue : msgsTxQueue'[i] = msgsTxQueue[i]
      BY <1>1, <3>1
    <3> QED
      BY <3>2 DEF Queued
  <2>2. \A n \in Msgs : n # m => mUseCnt'[n] = mUseCnt[n] /\ (Fresh(n)' <=> Fresh(n))
    BY <1>1 DEF Queue, Fresh
  <2> QED
    BY <2>1, <2>2, Untouched
<1>3. /\ mUseCnt' \in [Msgs -> 0 .. 3]
      /\ mUseCnt'[m] = (IF waitForAckP THEN 2 ELSE 1)
      /\ ~Fresh(m)'
  BY <1>1 DEF Queue, Fresh
<1>4. /\ Fresh(m) /\ ~Queued(m) /\ ~Held(m) /\ attempts[m] = 0
      /\ \A t \in Senders : sending[t] # <<m>>
  BY DEF SendIInv, QueuedOnce, Queue
<1>5. /\ \A t \in Senders \ {s} : sending'[t] = sending[t] /\ pc'[t] = pc[t]
      /\ sending'[s] = (IF waitForAckP THEN <<m>> ELSE <<>>)
      /\ pc'[s] = (IF waitForAckP THEN "wait" ELSE "idle")
      /\ loaded' = loaded /\ deletes' = deletes
  BY <1>1 DEF Queue
<1>6. Types'
  <2>1. /\ pc' \in [Senders -> {"idle", "wait", "dismiss", "store"}]
        /\ sending' \in [Senders -> Carried]
    <3>1. CASE waitForAckP
      <4>1. <<m>> \in Carried
        BY Tuples
      <4>2. /\ pc' = [pc EXCEPT ![s] = "wait"]
            /\ sending' = [sending EXCEPT ![s] = <<m>>]
        BY <3>1 DEF Queue
      <4> QED
        BY <1>1, <4>1, <4>2
    <3>2. CASE ~waitForAckP
      BY <1>1, <3>2 DEF Queue
    <3> QED
      BY <3>1, <3>2
  <2>2. results' \in [Msgs -> {"none", "ok", "failed"}]
    BY DEF SendIInv, Types, Queue
  <2>3. msgsTxQueue' \in Seq(Msgs)
    BY <1>1 DEF Queue
  <2>4. \A t \in Senders : Len(sending'[t]) = IF pc'[t] = "idle" THEN 0 ELSE 1
    <3>1. \A t \in Senders : Len(sending[t]) = IF pc[t] = "idle" THEN 0 ELSE 1
      BY DEF SendIInv, Types, TypeOK
    <3>2. Len(sending'[s]) = IF pc'[s] = "idle" THEN 0 ELSE 1
      BY <1>5, Tuples
    <3> QED
      BY <1>5, <3>1, <3>2
  <2>5. \A t \in Senders : pc'[t] # "store" => loaded'[t] = 0
    BY <1>1, <1>5 DEF SendIInv, Types
  <2> QED
    BY <1>3, <1>5, <2>1, <2>2, <2>3, <2>4, <2>5 DEF SendIInv, Types, TypeOK
<1>7. QueuedOnce'
  <2>1. \A i, j \in DOMAIN msgsTxQueue' : msgsTxQueue'[i] = msgsTxQueue'[j] => i = j
    <3>1. \A i \in DOMAIN msgsTxQueue : msgsTxQueue[i] # m
      BY <1>4 DEF Queued
    <3>2. \A i, j \in DOMAIN msgsTxQueue : msgsTxQueue[i] = msgsTxQueue[j] => i = j
      BY DEF SendIInv, QueuedOnce
    <3> QED
      BY <1>1, <3>1, <3>2 DEF Queue
  <2>2. \A n \in Msgs : Queued(n)' => ~Held(n)'
    BY <1>2, <1>4 DEF SendIInv, QueuedOnce
  <2>3. \A n \in Msgs : Fresh(n)' =>
          /\ ~Queued(n)' /\ ~Held(n)' /\ attempts'[n] = 0
          /\ \A t \in Senders : sending'[t] # <<n>>
    BY <1>2, <1>3, <1>5, Tuples DEF SendIInv, QueuedOnce
  <2> QED
    BY <2>1, <2>2, <2>3 DEF QueuedOnce
<1>8. CountsBounded'
  <2>1. \A n \in Msgs, t \in Senders : sending'[t] = <<n>> =>
          sending[t] = <<n>> \/ (n = m /\ loaded[t] = 0)
    <3>1. \A n \in Msgs : sending'[s] = <<n>> => n = m
      BY <1>5, Tuples
    <3> SUFFICES ASSUME NEW n \in Msgs, NEW t \in Senders, sending'[t] = <<n>>
                 PROVE  sending[t] = <<n>> \/ (n = m /\ loaded[t] = 0)
      OBVIOUS
    <3>2. CASE t = s
      BY <1>1, <3>1, <3>2
    <3>3. CASE t # s
      <4>1. sending'[t] = sending[t]
        BY <1>5, <3>3
      <4> QED
        BY <4>1, Zenon
    <3> QED
      BY <3>2, <3>3
  <2>2. \A n \in Msgs : Queued(n)' \/ (Held(n)' /\ txPc' = "addref") =>
          n = m \/ Queued(n) \/ (Held(n) /\ txPc = "addref")
    BY <1>2
  <2>3. \A t \in Senders : sending'[t] = <<m>> => loaded[t] = 0
    BY <1>4, <2>1
  <2> QED
    BY <1>2, <1>3, <1>5, <2>1, <2>2, <2>3 DEF SendIInv, CountsBounded
<1>9. Tries'
  BY <1>2, <1>4 DEF SendIInv, Tries
<1>10. Verdicts'
  <2>1. waitForAckP => UNCHANGED results
    BY DEF Queue
  <2> QED
    BY <1>2, <2>1 DEF SendIInv, Verdicts
<1>11. SendersAway'
  BY <1>1, <1>2, <1>3, <1>4, <1>5 DEF SendIInv, SendersAway, Fresh
<1>12. Answered'
  <2>1. acks' \in Nat /\ Due' <= Due + acks' - acks
    BY DEF SendIInv, Types, Due, answers
  <2>2. m \notin Told
    BY <1>4 DEF SendIInv, Verdicts, Told, Types
  <2>3. waitForAckP => UNCHANGED results
    BY DEF Queue
  <2>4. UNCHANGED <<waitForAckP, msgStatus, txPc>>
    OBVIOUS
  <2> QED
    BY <1>2, <2>1, <2>2, <2>3, <2>4, NoneTold DEF SendIInv, Answered, Told
<1> QED
  BY <1>6, <1>7, <1>8, <1>9, <1>10, <1>11, <1>12 DEF SendIInv
\* The wait of a Send is over.
LEMMA VerdictKeeps ==
  ASSUME SendIInv, mAckEvent' \in [Msgs -> BOOLEAN],
         NEW s \in Senders, NEW res \in {"ok", "failed"},
         pc[s] = "wait", Verdict(s, res),
         res = "ok" => msgStatus[sending[s][1]] = "ack"
  PROVE  SendIInv'
<1> USE DEF counts, txCtl, wire, link, shared, answers
<1>1. /\ pc \in [Senders -> {"idle", "wait", "dismiss", "store"}]
      /\ waitForAckP
      /\ sending[s][1] \in Msgs
      /\ results \in [Msgs -> {"none", "ok", "failed"}]
  BY Holding DEF SendIInv, Types, SendersAway
<1>2. \A m \in Msgs :
        /\ Queued(m)' => Queued(m)
        /\ Held(m)' <=> Held(m)
        /\ attempts'[m] = attempts[m]
        /\ Fresh(m)' <=> Fresh(m)
  BY Untouched DEF Verdict
<1>3. /\ pc'[s] = "dismiss"
      /\ \A t \in Senders \ {s} : pc'[t] = pc[t]
      /\ pc' \in [Senders -> {"idle", "wait", "dismiss", "store"}]
      /\ results' \in [Msgs -> {"none", "ok", "failed"}]
      /\ \A m \in Msgs :
           results'[m] = (IF m = sending[s][1] THEN res ELSE results[m])
  BY <1>1 DEF Verdict
<1>4. Types'
  <2>1. msgsTxQueue' \in Seq(Msgs)
    BY DEF SendIInv, Types, TypeOK, Verdict
  <2>2. \A t \in Senders : Len(sending'[t]) = IF pc'[t] = "idle" THEN 0 ELSE 1
    BY <1>1, <1>3 DEF SendIInv, Types, TypeOK, Verdict
  <2>3. \A t \in Senders : pc'[t] # "store" => loaded'[t] = 0
    BY <1>1, <1>3 DEF SendIInv, Types, Verdict
  <2> QED
    BY <1>3, <2>1, <2>2, <2>3 DEF SendIInv, Types, TypeOK, Verdict
<1>5. QueuedOnce'
  <2>1. \A i, j \in DOMAIN msgsTxQueue' : msgsTxQueue'[i] = msgsTxQueue'[j] => i = j
    BY DEF SendIInv, QueuedOnce, Verdict
  <2> QED
    BY <1>2, <2>1 DEF SendIInv, QueuedOnce, Verdict
<1>6. CountsBounded'
  BY <1>2 DEF SendIInv, CountsBounded, Verdict
<1>7. Tries'
  BY <1>2 DEF SendIInv, Tries, Verdict
<1>8. Verdicts'
  BY <1>1, <1>2, <1>3 DEF SendIInv, Verdicts, Verdict
<1>9. SendersAway'
  BY <1>1 DEF SendersAway, Verdict
<1>10. Answered'
  <2>1. acks' \in Nat /\ Due' <= Due + acks' - acks
    BY DEF SendIInv, Types, Due, answers, Verdict
  <2>2. UNCHANGED <<waitForAckP, msgStatus, txPc>>
    BY DEF Verdict
  <2>3. res = "ok" => sending[s][1] \in Told
    BY <1>1 DEF Told
  <2> QED
    BY <1>2, <1>3, <2>1, <2>2, <2>3, NoneTold DEF SendIInv, Answered, Told
<1> QED
  BY <1>4, <1>5, <1>6, <1>7, <1>8, <1>9, <1>10 DEF SendIInv

\* Dismiss in a sender: the load.
LEMMA DismissLoadKeeps ==
  ASSUME SendIInv, NEW s \in Senders, DismissLoad(s)
  PROVE  SendIInv'
<1> USE DEF shared, counts, reply, txCtl, wire, link, answers
<1> DEFINE m == sending[s][1]
<1>1. /\ pc \in [Senders -> {"idle", "wait", "dismiss", "store"}]
      /\ waitForAckP
      /\ m \in Msgs /\ sending[s] = <<m>>
      /\ mUseCnt[m] \in 0 .. 3
      /\ loaded \in [Senders -> 0 .. 3]
  BY Holding DEF SendIInv, Types, TypeOK, SendersAway, DismissLoad
<1>2. \A n \in Msgs :
        /\ Queued(n)' <=> Queued(n)
        /\ Held(n)' <=> Held(n)
        /\ attempts'[n] = attempts[n]
        /\ Fresh(n)' <=> Fresh(n)
  BY Untouched DEF DismissLoad
<1>3. /\ pc'[s] = "store" /\ loaded'[s] = mUseCnt[m]
      /\ \A t \in Senders \ {s} : pc'[t] = pc[t] /\ loaded'[t] = loaded[t]
      /\ pc' \in [Senders -> {"idle", "wait", "dismiss", "store"}]
      /\ loaded' \in [Senders -> 0 .. 3]
  BY <1>1 DEF DismissLoad
<1>4. Types'
  <2>1. \A t \in Senders : Len(sending'[t]) = IF pc'[t] = "idle" THEN 0 ELSE 1
    BY <1>1, <1>3 DEF SendIInv, Types, TypeOK, DismissLoad
  <2>2. \A t \in Senders : pc'[t] # "store" => loaded'[t] = 0
    BY <1>1, <1>3 DEF SendIInv, Types
  <2> QED
    BY <1>3, <2>1, <2>2 DEF SendIInv, Types, TypeOK, DismissLoad
<1>5. QueuedOnce'
  BY <1>2 DEF SendIInv, QueuedOnce, DismissLoad
<1>6. CountsBounded'
  <2>1. \A n \in Msgs : sending[s] = <<n>> => n = m
    BY <1>1, Tuples
  <2> HIDE DEF m
  <2> QED
    BY <1>2, <1>3, <2>1 DEF SendIInv, CountsBounded, DismissLoad
<1>7. Tries'
  BY <1>2 DEF SendIInv, Tries, DismissLoad
<1>8. Verdicts'
  BY <1>2 DEF SendIInv, Verdicts, DismissLoad
<1>9. SendersAway'
  BY <1>1 DEF SendersAway, DismissLoad
<1>10. Answered'
  <2>1. acks' \in Nat /\ Due' <= Due + acks' - acks
    BY DEF SendIInv, Types, Due, answers, DismissLoad
  <2>2. UNCHANGED <<waitForAckP, msgStatus, results, txPc>>
    BY DEF DismissLoad
  <2> QED
    BY <1>2, <2>1, <2>2, NoneTold DEF SendIInv, Answered, Told
<1> QED
  BY <1>4, <1>5, <1>6, <1>7, <1>8, <1>9, <1>10 DEF SendIInv

\* Dismiss in a sender: the store, which may be of a count that was read long ago.
LEMMA DismissStoreKeeps ==
  ASSUME SendIInv, NEW s \in Senders, DismissStore(s)
  PROVE  SendIInv'
<1> USE DEF shared, reply, txCtl, wire, link, answers
<1> DEFINE m == sending[s][1]
<1>1. /\ pc \in [Senders -> {"idle", "wait", "dismiss", "store"}]
      /\ waitForAckP
      /\ m \in Msgs /\ sending[s] = <<m>>
      /\ sending \in [Senders -> Carried]
      /\ loaded \in [Senders -> 0 .. 3]
  BY Holding DEF SendIInv, Types, TypeOK, SendersAway, DismissStore
<1>2. /\ mUseCnt' \in [Msgs -> 0 .. 3]
      /\ deletes' \in [Msgs -> Nat]
      /\ mUseCnt'[m] = (IF loaded[s] > 0 THEN loaded[s] - 1 ELSE 0)
      /\ \A n \in Msgs \ {m} : mUseCnt'[n] = mUseCnt[n]
      /\ \A n \in Msgs : Fresh(n)' => Fresh(n)
  BY <1>1, Dismissed DEF SendIInv, DismissStore
<1>3. \A n \in Msgs :
        /\ Queued(n)' <=> Queued(n)
        /\ Held(n)' <=> Held(n)
        /\ attempts'[n] = attempts[n]
  BY Untouched DEF DismissStore
<1>4. /\ pc'[s] = "idle" /\ loaded'[s] = 0 /\ sending'[s] = <<>>
      /\ \A t \in Senders \ {s} :
           pc'[t] = pc[t] /\ loaded'[t] = loaded[t] /\ sending'[t] = sending[t]
      /\ pc' \in [Senders -> {"idle", "wait", "dismiss", "store"}]
      /\ loaded' \in [Senders -> 0 .. 3]
  BY <1>1 DEF DismissStore
<1>5. sending' \in [Senders -> Carried]
  <2>1. <<>> \in Carried /\ sending' = [sending EXCEPT ![s] = <<>>]
    BY Tuples DEF DismissStore
  <2> QED
    BY <1>1, <2>1
<1>6. \A n \in Msgs, t \in Senders : sending'[t] = <<n>> => t # s /\ sending[t] = <<n>>
  <2> SUFFICES ASSUME NEW n \in Msgs, NEW t \in Senders, sending'[t] = <<n>>
               PROVE  t # s /\ sending[t] = <<n>>
    OBVIOUS
  <2>1. t # s
    BY <1>4, Tuples
  <2>2. sending'[t] = sending[t]
    BY <1>4, <2>1
  <2> QED
    BY <2>1, <2>2, Zenon
<1>7. Types'
  <2>1. \A t \in Senders : Len(sending'[t]) = IF pc'[t] = "idle" THEN 0 ELSE 1
    <3>1. \A t \in Senders : Len(sending[t]) = IF pc[t] = "idle" THEN 0 ELSE 1
      BY DEF SendIInv, Types, TypeOK
    <3> QED
      BY <1>4, <3>1, Tuples
  <2>2. \A t \in Senders : pc'[t] # "store" => loaded'[t] = 0
    BY <1>4 DEF SendIInv, Types
  <2> QED
    BY <1>2, <1>4, <1>5, <2>1, <2>2 DEF SendIInv, Types, TypeOK, DismissStore
<1>8. QueuedOnce'
  BY <1>2, <1>3, <1>6 DEF SendIInv, QueuedOnce, DismissStore
<1>9. CountsBounded'
  <2>1. Queued(m) \/ (Held(m) /\ txPc = "addref") => loaded[s] <= 2
    BY <1>1 DEF SendIInv, CountsBounded
  <2>2. Queued(m) \/ (Held(m) /\ txPc = "addref") => mUseCnt'[m] <= 2
    BY <1>1, <1>2, <2>1
  <2> HIDE DEF m
  <2>3. \A n \in Msgs : Queued(n) \/ (Held(n) /\ txPc = "addref") => mUseCnt'[n] <= 2
    BY <1>2, <2>2 DEF SendIInv, CountsBounded
  <2> QED
    BY <1>3, <1>4, <1>6, <2>3 DEF SendIInv, CountsBounded, DismissStore
<1>10. Tries'
  BY <1>3 DEF SendIInv, Tries, DismissStore
<1>11. Verdicts'
  BY <1>3 DEF SendIInv, Verdicts, DismissStore
<1>12. SendersAway'
  BY <1>1 DEF SendersAway, DismissStore
<1>13. Answered'
  <2>1. acks' \in Nat /\ Due' <= Due + acks' - acks
    BY DEF SendIInv, Types, Due, answers, DismissStore
  <2>2. UNCHANGED <<waitForAckP, msgStatus, results, txPc>>
    BY DEF DismissStore
  <2> QED
    BY <1>3, <2>1, <2>2, NoneTold DEF SendIInv, Answered, Told
<1> QED
  BY <1>7, <1>8, <1>9, <1>10, <1>11, <1>12, <1>13 DEF SendIInv
\* The Tx thread takes the first message.
LEMMA TakeMsgKeeps == ASSUME SendIInv, TakeMsg PROVE SendIInv'
<1> USE DEF counts, reply, sender, wire, link, answers
<1> DEFINE m == msgsTxQueue[1]
<1>1. /\ msgsTxQueue \in Seq(Msgs) /\ 1 \in DOMAIN msgsTxQueue /\ msgsTxQueue # <<>>
      /\ txPc = "idle" /\ pToSendMsg = <<>> /\ pToSendMsg' = <<m>>
      /\ txPc' = "addref" /\ mAckNakStatus' = "none"
      /\ m \in Msgs /\ Queued(m)
      /\ DOMAIN msgsTxQueue = 1 .. Len(msgsTxQueue) /\ Len(msgsTxQueue) \in Nat
  BY Holding DEF SendIInv, Types, TypeOK, TakeMsg, Taken, Queued
<1>2. /\ msgsTxQueue' \in Seq(Msgs)
      /\ DOMAIN msgsTxQueue' = 1 .. Len(msgsTxQueue) - 1
      /\ \A i \in DOMAIN msgsTxQueue' :
           i + 1 \in DOMAIN msgsTxQueue /\ msgsTxQueue'[i] = msgsTxQueue[i + 1]
  <2>1. msgsTxQueue' = RemoveAt(msgsTxQueue, 1)
    BY DEF TakeMsg, Taken
  <2> QED
    BY <1>1, <2>1, FirstRemoved
<1>3. \A i, j \in DOMAIN msgsTxQueue : msgsTxQueue[i] = msgsTxQueue[j] => i = j
  BY DEF SendIInv, QueuedOnce
<1>4. \A n \in Msgs : Queued(n)' <=> Queued(n) /\ n # m
  <2> SUFFICES ASSUME NEW n \in Msgs
               PROVE  Queued(n)' <=> Queued(n) /\ n # m
    OBVIOUS
  <2>1. ASSUME NEW i \in DOMAIN msgsTxQueue', msgsTxQueue'[i] = n
        PROVE  Queued(n) /\ n # m
    <3>1. i + 1 \in DOMAIN msgsTxQueue /\ msgsTxQueue[i + 1] = n /\ i + 1 # 1
      BY <1>1, <1>2, <2>1
    <3> QED
      BY <1>1, <1>3, <3>1 DEF Queued
  <2>2. ASSUME NEW i \in DOMAIN msgsTxQueue, msgsTxQueue[i] = n, n # m
        PROVE  Queued(n)'
    <3>1. i - 1 \in DOMAIN msgsTxQueue' /\ (i - 1) + 1 = i
      BY <1>1, <1>2, <2>2
    <3> QED
      BY <1>2, <2>2, <3>1 DEF Queued
  <2> QED
    BY <2>1, <2>2 DEF Queued
<1>5. \A n \in Msgs : ~Held(n) /\ (Held(n)' <=> n = m)
  BY <1>1, Tuples DEF Held
<1>6. \A n \in Msgs :
        /\ attempts'[n] = attempts[n]
        /\ Fresh(n)' <=> Fresh(n)
  BY Untouched DEF TakeMsg, Taken
<1>7. /\ m \in Msgs /\ Queued(m) /\ txPc' = "addref" /\ mAckNakStatus' = "none"
      /\ UNCHANGED <<waitForAckP, mUseCnt, deletes, sending, loaded, msgStatus, results>>
  BY <1>1 DEF TakeMsg, Taken
<1> HIDE DEF m
<1>8. Types'
  <2>1. pToSendMsg' \in Carried /\ Len(pToSendMsg') = 1
    BY <1>1, Tuples
  <2> QED
    BY <1>1, <1>2, <2>1 DEF SendIInv, Types, TypeOK, TakeMsg, Taken
<1>9. QueuedOnce'
  <2>1. \A i, j \in DOMAIN msgsTxQueue' : msgsTxQueue'[i] = msgsTxQueue'[j] => i = j
    <3>1. \A i, j \in DOMAIN msgsTxQueue' : i + 1 = j + 1 => i = j
      BY <1>1, <1>2
    <3> QED
      BY <1>2, <1>3, <3>1
  <2>2. ~Fresh(m)
    BY <1>1 DEF SendIInv, QueuedOnce
  <2> QED
    BY <1>4, <1>5, <1>6, <1>7, <2>1, <2>2 DEF SendIInv, QueuedOnce
<1>10. CountsBounded'
  BY <1>4, <1>5, <1>7 DEF SendIInv, CountsBounded
<1>11. Tries'
  BY <1>4, <1>5, <1>6, <1>7 DEF SendIInv, Tries
<1>12. Verdicts'
  BY <1>6, <1>7 DEF SendIInv, Verdicts
<1>13. SendersAway'
  BY <1>1, <1>4, <1>5 DEF SendIInv, SendersAway, TakeMsg, Taken
<1>14. Answered'
  <2>1. ~ackSinceTaken' /\ acks' = acks
    BY DEF TakeMsg, Taken
  <2>2. acks' \in Nat /\ Due' <= Due + acks' - acks
    BY <2>1 DEF SendIInv, Types, Due
  <2>3. m \notin Told
    BY <1>7 DEF SendIInv, Answered
  <2> QED
    BY <1>4, <1>5, <1>7, <2>2, <2>3, NoneTold DEF SendIInv, Answered, Told
<1> QED
  BY <1>8, <1>9, <1>10, <1>11, <1>12, <1>13, <1>14 DEF SendIInv

\* The Tx thread counts its reference.
LEMMA AddRefKeeps == ASSUME SendIInv, AddRef PROVE SendIInv'
<1> USE DEF shared, reply, sender, wire, link, answers
<1> DEFINE m == pToSendMsg[1]
<1>1. /\ txPc = "addref" /\ txPc' = "send"
      /\ m \in Msgs /\ pToSendMsg = <<m>> /\ Held(m)
      /\ mUseCnt \in [Msgs -> 0 .. 3]
  BY Holding DEF SendIInv, Types, TypeOK, AddRef, Held
<1>2. mUseCnt[m] <= 2
  BY <1>1 DEF SendIInv, CountsBounded
<1>3. /\ mUseCnt' \in [Msgs -> 0 .. 3]
      /\ mUseCnt'[m] = mUseCnt[m] + 1
      /\ \A n \in Msgs \ {m} : mUseCnt'[n] = mUseCnt[n]
  BY <1>1, <1>2 DEF AddRef
<1>4. \A n \in Msgs :
        /\ Queued(n)' <=> Queued(n)
        /\ Held(n)' <=> Held(n)
        /\ Held(n) <=> n = m
        /\ attempts'[n] = attempts[n]
  BY <1>1, Untouched, Tuples DEF AddRef, Held
<1>5. \A n \in Msgs : Fresh(n)' => Fresh(n)
  BY <1>1, <1>3 DEF Fresh, AddRef
<1> HIDE DEF m
<1>6. Types'
  BY <1>1, <1>3 DEF SendIInv, Types, TypeOK, AddRef
<1>7. QueuedOnce'
  BY <1>4, <1>5 DEF SendIInv, QueuedOnce, AddRef
<1>8. CountsBounded'
  BY <1>1, <1>3, <1>4 DEF SendIInv, QueuedOnce, CountsBounded, AddRef
<1>9. Tries'
  BY <1>1, <1>4 DEF SendIInv, Tries, AddRef
<1>10. Verdicts'
  BY <1>4 DEF SendIInv, Verdicts, AddRef
<1>11. SendersAway'
  BY <1>1, <1>3, <1>4 DEF SendIInv, SendersAway, QueuedOnce, AddRef
<1>12. Answered'
  <2>1. UNCHANGED <<waitForAckP, msgStatus, results, ackSinceTaken, acks>>
    BY DEF AddRef, answers
  <2>2. acks' \in Nat /\ Due' <= Due + acks' - acks
    BY <1>1, <2>1 DEF SendIInv, Types, Due
  <2> QED
    BY <1>1, <1>4, <2>1, <2>2, NoneTold DEF SendIInv, Answered, Told
<1> QED
  BY <1>6, <1>7, <1>8, <1>9, <1>10, <1>11, <1>12 DEF SendIInv

\* What cTcpClient::Send of the Tx thread's message does.
ClientSent(m) ==
  /\ mUseCnt' \in [Msgs -> 0 .. 3]
  /\ deletes' \in [Msgs -> Nat]
  /\ mUseCnt'[m] = (IF mUseCnt[m] > 0 THEN mUseCnt[m] - 1 ELSE 0)
  /\ mUseCnt[m] > 1 => deletes'[m] = deletes[m]
  /\ attempts' \in [Msgs -> Nat]
  /\ \A n \in Msgs : n # m =>
       /\ mUseCnt'[n] = mUseCnt[n] /\ deletes'[n] = deletes[n]
       /\ attempts'[n] = attempts[n]
  /\ \A n \in Msgs :
       /\ Fresh(n)' => n # m /\ Fresh(n)
       /\ Queued(n)' <=> Queued(n)
       /\ Held(n)' <=> Held(n)
       /\ Held(n) <=> n = m
       /\ attempts[n] \in Nat
       /\ attempts'[n] \in Nat
  /\ attempts'[m] \in {attempts[m], attempts[m] + 1}
  /\ mConnected => attempts'[m] = attempts[m] + 1

\* It does.
LEMMA ClientSends ==
  ASSUME SendIInv, NEW m \in Msgs, pToSendMsg = <<m>>, ClientSend(m)
  PROVE  ClientSent(m)
<1>1. mUseCnt \in [Msgs -> 0 .. 3] /\ attempts \in [Msgs -> Nat]
  BY DEF SendIInv, Types, TypeOK
<1>2. mUseCnt[m] \in 0 .. 3 /\ DismissFrom(m, mUseCnt[m])
  BY <1>1 DEF ClientSend, Dismiss
<1>3. \A n \in Msgs :
        /\ Queued(n)' <=> Queued(n)
        /\ Held(n)' <=> Held(n)
        /\ Held(n) <=> n = m
  BY Untouched, Tuples DEF ClientSend, Held
<1>4. /\ mUseCnt' \in [Msgs -> 0 .. 3] /\ deletes' \in [Msgs -> Nat]
      /\ mUseCnt'[m] = (IF mUseCnt[m] > 0 THEN mUseCnt[m] - 1 ELSE 0)
      /\ mUseCnt[m] > 1 => deletes'[m] = deletes[m]
      /\ \A n \in Msgs : n # m => mUseCnt'[n] = mUseCnt[n] /\ deletes'[n] = deletes[n]
      /\ \A n \in Msgs : Fresh(n)' => n # m /\ Fresh(n)
  BY <1>2, Dismissed DEF SendIInv
<1>5. /\ attempts' \in [Msgs -> Nat]
      /\ \A n \in Msgs : n # m => attempts'[n] = attempts[n]
      /\ attempts'[m] \in {attempts[m], attempts[m] + 1}
      /\ mConnected => attempts'[m] = attempts[m] + 1
  <2>1. CASE mConnected
    <3>1. attempts' = [attempts EXCEPT ![m] = @ + 1]
      BY <2>1 DEF ClientSend
    <3> QED
      BY <1>1, <2>1, <3>1
  <2>2. CASE ~mConnected
    <3>1. attempts' = attempts
      BY <2>2 DEF ClientSend, wire
    <3> QED
      BY <1>1, <2>2, <3>1
  <2> QED
    BY <2>1, <2>2
<1>6. \A n \in Msgs : attempts[n] \in Nat /\ attempts'[n] \in Nat
  BY <1>1, <1>5
<1> QED
  BY <1>3, <1>4, <1>5, <1>6, Zenon DEF ClientSent

\* The first send() of the message.
LEMMA FirstSendKeeps == ASSUME SendIInv, FirstSend PROVE SendIInv'
<1> USE DEF shared, reply, sender, link, answers
<1>1. PICK m \in Msgs :
        /\ txPc = "send" /\ pToSendMsg = <<m>> /\ ClientSend(m)
        /\ mUseCnt \in [Msgs -> 0 .. 3] /\ deletes \in [Msgs -> Nat]
  BY Holding DEF SendIInv, Types, TypeOK, FirstSend
<1>2. \/ txPc' = "wait" /\ retriesLeft' = MaxRetries + 1 /\ mConnected /\ waitForAckP
      \/ txPc' = "done" /\ retriesLeft' = 0
  <2>1. PICK sent \in Sent : Proceed(sent)
    BY DEF FirstSend
  <2>2. sent \in BOOLEAN /\ (sent => mConnected)
    BY <2>1 DEF Sent
  <2> QED
    BY <2>1, <2>2 DEF Proceed
<1>3. /\ mTXstate' \in {"LinkUp", "LinkDown"}
      /\ UNCHANGED <<waitForAckP, msgsTxQueue, mAckNakStatus, mAckNakEvent, msgStatus,
                     mAckEvent, pc, sending, loaded, results, pToSendMsg, ackSinceTaken,
                     acks>>
  BY DEF FirstSend, ClientSend, Proceed, SendIInv, Types, TypeOK
<1>4. ClientSent(m)
  BY <1>1, ClientSends
<1>5. Held(m) /\ \A n \in Msgs : Held(n) => n = m
  BY <1>1, <1>4 DEF ClientSent
<1>6. attempts[m] = 0 /\ ~Queued(m) /\ MaxRetries \in Nat
  BY <1>1, <1>5, TcpSendAssumption DEF SendIInv, Tries, QueuedOnce
<1>7. Types'
  BY <1>1, <1>2, <1>3, <1>4, <1>6 DEF SendIInv, Types, TypeOK, ClientSent
<1>8. QueuedOnce'
  BY <1>3, <1>4 DEF SendIInv, QueuedOnce, ClientSent
<1>9. CountsBounded'
  BY <1>2, <1>3, <1>4, <1>6 DEF SendIInv, CountsBounded, ClientSent
<1>10. Tries'
  <2>1. attempts'[m] \in {0, 1} /\ (mConnected => attempts'[m] = 1)
    BY <1>4, <1>6 DEF ClientSent
  <2>2. attempts'[m] <= MaxRetries + 1
    BY <1>6, <2>1
  <2>3. txPc' = "wait" =>
          attempts'[m] > 0 /\ attempts'[m] + retriesLeft' <= MaxRetries + 2
    BY <1>2, <1>6, <2>1
  <2>4. \A n \in Msgs : n # m =>
          /\ attempts'[n] <= MaxRetries + 1
          /\ Queued(n)' => attempts'[n] = 0
          /\ ~Held(n)'
    <3>1. \A n \in Msgs : n # m =>
            /\ attempts'[n] = attempts[n]
            /\ Queued(n)' <=> Queued(n)
            /\ ~Held(n)'
      BY <1>4 DEF ClientSent
    <3>2. \A n \in Msgs :
            /\ attempts[n] <= MaxRetries + 1
            /\ Queued(n) => attempts[n] = 0
      BY DEF SendIInv, Tries
    <3> QED
      BY <3>1, <3>2
  <2>5. ~Queued(m)'
    BY <1>1, <1>4, <1>6 DEF ClientSent
  <2>6. txPc' \notin {"addref", "send", "woken", "timedout", "answer"}
    BY <1>2
  <2> QED
    BY <2>2, <2>3, <2>4, <2>5, <2>6 DEF Tries
<1>11. Verdicts'
  <2>1. \A n \in Msgs : attempts[n] > 0 => attempts'[n] > 0
    <3>1. \A n \in Msgs : attempts[n] > 0 => n # m
      BY <1>6
    <3>2. \A n \in Msgs : n # m => attempts'[n] = attempts[n]
      BY <1>4 DEF ClientSent
    <3> QED
      BY <3>1, <3>2
  <2> QED
    BY <1>3, <2>1 DEF SendIInv, Verdicts
<1>12. SendersAway'
  BY <1>1, <1>2, <1>3, <1>4, <1>5, <1>6 DEF SendIInv, SendersAway, ClientSent
<1>13. Answered'
  <2>1. acks' \in Nat /\ Due' <= Due + acks' - acks
    BY <1>1, <1>2, <1>3 DEF SendIInv, Types, Due
  <2>2. m \notin Told
    BY <1>1, <1>5 DEF SendIInv, Answered
  <2> QED
    BY <1>3, <1>4, <2>1, <2>2, NoneTold DEF SendIInv, Answered, ClientSent, Told
<1> QED
  BY <1>7, <1>8, <1>9, <1>10, <1>11, <1>12, <1>13 DEF SendIInv

\* Another send(): the retries that are left pay for it.
LEMMA ResendKeeps == ASSUME SendIInv, Resend PROVE SendIInv'
<1> USE DEF reply, sender, link, answers
<1>1. PICK m \in Msgs :
        /\ txPc \in {"timedout", "woken"} /\ txPc' = "wait"
        /\ pToSendMsg = <<m>> /\ ClientSend(m)
  BY Holding DEF SendIInv, Types, TypeOK, Resend, NoAck
<1>2. /\ mAckNakStatus' = "none" /\ retriesLeft > 0
      /\ UNCHANGED <<waitForAckP, msgsTxQueue, mAckNakEvent, msgStatus, retriesLeft,
                     mTXstate, mAckEvent, pc, sending, loaded, results, pToSendMsg,
                     ackSinceTaken, acks>>
  BY DEF Resend, ClientSend
<1>3. ClientSent(m)
  BY <1>1, ClientSends
<1>4. /\ Held(m) /\ \A n \in Msgs : Held(n) => n = m
      /\ attempts[m] \in Nat
  BY <1>1, <1>3 DEF ClientSent
<1>5. /\ MaxRetries \in Nat /\ retriesLeft \in 0 .. MaxRetries + 1
      /\ attempts[m] > 0 /\ attempts[m] + retriesLeft <= MaxRetries + 1
      /\ ~Queued(m) /\ waitForAckP
  BY <1>1, <1>4, TcpSendAssumption
     DEF SendIInv, Tries, QueuedOnce, SendersAway, Types, TypeOK
<1>6. Types'
  BY <1>1, <1>2, <1>3 DEF SendIInv, Types, TypeOK, ClientSent
<1>7. QueuedOnce'
  BY <1>2, <1>3 DEF SendIInv, QueuedOnce, ClientSent
<1>8. CountsBounded'
  BY <1>1, <1>2, <1>3, <1>5 DEF SendIInv, CountsBounded, ClientSent
<1>9. Tries'
  <2>1. /\ attempts'[m] <= MaxRetries + 1 /\ attempts'[m] > 0
        /\ attempts'[m] + retriesLeft' <= MaxRetries + 2
    <3>1. \A i, j \in Nat, r \in 0 .. MaxRetries + 1 :
            i > 0 /\ i + r <= MaxRetries + 1 /\ r > 0 /\ j \in {i, i + 1} =>
              j <= MaxRetries + 1 /\ j > 0 /\ j + r <= MaxRetries + 2
      BY <1>5
    <3>2. /\ attempts'[m] \in Nat /\ retriesLeft' = retriesLeft
          /\ attempts'[m] \in {attempts[m], attempts[m] + 1}
      BY <1>1, <1>2, <1>3 DEF ClientSent
    <3> QED
      BY <1>2, <1>4, <1>5, <3>1, <3>2
  <2>2. \A n \in Msgs : n # m =>
          /\ attempts'[n] <= MaxRetries + 1
          /\ Queued(n)' => attempts'[n] = 0
          /\ ~Held(n)'
    <3>1. \A n \in Msgs : n # m =>
            /\ attempts'[n] = attempts[n]
            /\ Queued(n)' <=> Queued(n)
            /\ ~Held(n)'
      BY <1>3 DEF ClientSent
    <3>2. \A n \in Msgs :
            /\ attempts[n] <= MaxRetries + 1
            /\ Queued(n) => attempts[n] = 0
      BY DEF SendIInv, Tries
    <3> QED
      BY <3>1, <3>2
  <2>3. ~Queued(m)'
    BY <1>1, <1>3, <1>5 DEF ClientSent
  <2> QED
    BY <1>1, <2>1, <2>2, <2>3 DEF Tries
<1>10. Verdicts'
  <2>1. \A n \in Msgs : attempts[n] > 0 => attempts'[n] > 0
    <3>1. \A n \in Msgs : n # m => attempts'[n] = attempts[n]
      BY <1>3 DEF ClientSent
    <3>2. attempts'[m] > 0
      <4>1. \A i, j \in Nat : i > 0 /\ j \in {i, i + 1} => j > 0
        OBVIOUS
      <4> QED
        BY <1>1, <1>3, <1>4, <1>5, <4>1 DEF ClientSent
    <3> QED
      BY <3>1, <3>2
  <2> QED
    BY <1>2, <2>1 DEF SendIInv, Verdicts
<1>11. SendersAway'
  BY <1>2, <1>5 DEF SendersAway
<1>12. Answered'
  <2>1. acks' \in Nat /\ Due' <= Due + acks' - acks
    BY <1>1, <1>2 DEF SendIInv, Types, Due
  <2>2. m \notin Told
    BY <1>1, <1>4 DEF SendIInv, Answered
  <2> QED
    BY <1>2, <1>3, <2>1, <2>2, NoneTold DEF SendIInv, Answered, ClientSent, Told
<1> QED
  BY <1>6, <1>7, <1>8, <1>9, <1>10, <1>11, <1>12 DEF SendIInv

\* The steps of the Tx thread that send nothing and count nothing: a wait ends
\* and takes a retry, or the loop ends.
LEMMA LoopKeeps ==
  ASSUME SendIInv, AckWaitEnds \/ AckReceived \/ GiveUp
  PROVE  SendIInv'
<1> USE DEF counts, reply, sender, wire, link, shared, answers
<1>1. /\ UNCHANGED <<waitForAckP, msgsTxQueue, mAckNakStatus, counts, reply, sender,
                     pToSendMsg, attempts, answers>>
      /\ mAckNakEvent' \in BOOLEAN /\ mTXstate' \in {"LinkUp", "LinkDown"}
      /\ \/ /\ txPc = "wait" /\ txPc' \in {"woken", "timedout"}
            /\ retriesLeft' = retriesLeft - 1
         \/ txPc \in {"woken", "timedout"} /\ txPc' = "answer" /\ retriesLeft' = 0
  BY DEF AckWaitEnds, AckReceived, GiveUp, NoAck, LinkState, SendIInv, Types, TypeOK
<1>2. \A m \in Msgs :
        /\ Queued(m)' <=> Queued(m)
        /\ Held(m)' <=> Held(m)
        /\ attempts'[m] = attempts[m]
        /\ Fresh(m)' <=> Fresh(m)
  BY <1>1, Untouched
<1>3. /\ waitForAckP
      /\ MaxRetries \in Nat
      /\ retriesLeft \in 0 .. MaxRetries + 1
      /\ txPc = "wait" => retriesLeft > 0
      /\ \A m \in Msgs : attempts[m] \in Nat
  BY <1>1, TcpSendAssumption
     DEF SendIInv, Types, TypeOK, SendersAway
<1>4. Types'
  BY <1>1, <1>3 DEF SendIInv, Types, TypeOK
<1>5. QueuedOnce'
  BY <1>1, <1>2 DEF SendIInv, QueuedOnce
<1>6. CountsBounded'
  BY <1>1, <1>2 DEF SendIInv, CountsBounded
<1>7. Tries'
  BY <1>1, <1>2, <1>3 DEF SendIInv, Tries
<1>8. Verdicts'
  BY <1>1, <1>2 DEF SendIInv, Verdicts
<1>9. SendersAway'
  BY <1>1, <1>3 DEF SendersAway
<1>10. Answered'
  <2>1. acks' \in Nat /\ Due' <= Due + acks' - acks
    BY <1>1 DEF SendIInv, Types, Due, answers
  <2> QED
    BY <1>1, <1>2, <2>1, NoneTold DEF SendIInv, Answered, Told
<1> QED
  BY <1>4, <1>5, <1>6, <1>7, <1>8, <1>9, <1>10 DEF SendIInv

\* The sender is told: an ACK, only of a message that was sent, and the ACK that
\* came since the message was taken is used up.
LEMMA TellSenderKeeps == ASSUME SendIInv, TellSender PROVE SendIInv'
<1> USE DEF shared, counts, sender, wire, link, answers
<1> DEFINE m == pToSendMsg[1]
<1>1. /\ txPc = "answer" /\ txPc' = "done" /\ waitForAckP
      /\ m \in Msgs /\ pToSendMsg = <<m>> /\ Held(m)
      /\ mAckNakStatus \in {"none", "ack", "nak"}
      /\ mAckEvent \in [Msgs -> BOOLEAN]
      /\ msgStatus \in [Msgs -> {"none", "ack", "nak"}]
  BY Holding DEF SendIInv, Types, TypeOK, TellSender, Held, SendersAway
<1>2. /\ mAckEvent' \in [Msgs -> BOOLEAN]
      /\ msgStatus' \in [Msgs -> {"none", "ack", "nak"}]
      /\ \A n \in Msgs \ {m} : msgStatus'[n] = msgStatus[n]
  BY <1>1 DEF TellSender
<1>3. \A n \in Msgs :
        /\ Queued(n)' <=> Queued(n)
        /\ Held(n)' <=> Held(n)
        /\ attempts'[n] = attempts[n]
        /\ Fresh(n)' <=> Fresh(n)
  BY Untouched DEF TellSender
<1>4. attempts[m] > 0
  BY <1>1 DEF SendIInv, Tries
<1> HIDE DEF m
<1>5. Types'
  BY <1>1, <1>2 DEF SendIInv, Types, TypeOK, TellSender
<1>6. QueuedOnce'
  BY <1>3 DEF SendIInv, QueuedOnce, TellSender
<1>7. CountsBounded'
  BY <1>1, <1>3 DEF SendIInv, CountsBounded, TellSender
<1>8. Tries'
  BY <1>1, <1>3 DEF SendIInv, Tries, TellSender
<1>9. Verdicts'
  BY <1>2, <1>3, <1>4 DEF SendIInv, Verdicts, TellSender
<1>10. SendersAway'
  BY <1>1 DEF SendersAway, TellSender
<1>11. Answered'
  <2>1. /\ m \notin Told /\ ~Queued(m)
        /\ \A n \in Told : ~Held(n) /\ ~Queued(n)
    BY <1>1 DEF SendIInv, Answered, QueuedOnce
  <2>2. /\ Due' = 0 /\ UNCHANGED <<waitForAckP, results, acks>>
        /\ acks \in Nat /\ Due \in Nat
    BY <1>1 DEF Due, TellSender, answers, SendIInv, Types
  <2>3. IsFiniteSet(Told) /\ Cardinality(Told) \in Nat /\ Cardinality(Told) + Due <= acks
    BY FS_CardinalityType DEF SendIInv, Answered
  <2>4. IsFiniteSet(Told') /\ Cardinality(Told') + Due' <= acks' /\ Told' \subseteq Told \cup {m}
        /\ Told \subseteq Told'
    <3>1. msgStatus'[m] = mAckNakStatus
      BY <1>1 DEF TellSender, m
    <3>2. CASE mAckNakStatus = "ack"
      <4>1. Due = 1
        BY <1>1, <3>2, Tuples DEF SendIInv, Verdicts, Due
      <4>2. Told' = Told \cup {m}
        BY <1>1, <1>2, <3>1, <3>2 DEF Told
      <4>3. IsFiniteSet(Told') /\ Cardinality(Told') = Cardinality(Told) + 1
        BY <2>1, <2>3, <4>2, FS_AddElement
      <4> QED
        BY <2>2, <2>3, <4>1, <4>2, <4>3
    <3>3. CASE mAckNakStatus # "ack"
      <4>1. Told' = Told
        BY <1>1, <1>2, <2>1, <3>1, <3>3 DEF Told
      <4> QED
        BY <2>2, <2>3, <4>1
    <3> QED
      BY <3>2, <3>3
  <2>5. \A n \in Told' : ~Queued(n)'
    BY <1>1, <1>3, <2>1, <2>4 DEF Told
  <2> QED
    BY <1>1, <2>2, <2>4, <2>5 DEF SendIInv, Answered
<1> QED
  BY <1>5, <1>6, <1>7, <1>8, <1>9, <1>10, <1>11 DEF SendIInv

\* The Tx thread lets go of the message.
LEMMA TxDismissKeeps == ASSUME SendIInv, TxDismiss PROVE SendIInv'
<1> USE DEF shared, reply, sender, wire, link, answers
<1> DEFINE m == pToSendMsg[1]
<1>1. /\ txPc = "done" /\ txPc' = "idle" /\ pToSendMsg' = <<>>
      /\ m \in Msgs /\ pToSendMsg = <<m>> /\ Held(m)
      /\ mUseCnt[m] \in 0 .. 3 /\ DismissFrom(m, mUseCnt[m])
  BY Holding DEF SendIInv, Types, TypeOK, TxDismiss, Dismiss, Held
<1>2. /\ mUseCnt' \in [Msgs -> 0 .. 3] /\ deletes' \in [Msgs -> Nat]
      /\ mUseCnt'[m] = (IF mUseCnt[m] > 0 THEN mUseCnt[m] - 1 ELSE 0)
      /\ deletes'[m] = (IF mUseCnt[m] > 1 THEN deletes[m] ELSE deletes[m] + 1)
      /\ \A n \in Msgs \ {m} : mUseCnt'[n] = mUseCnt[n] /\ deletes'[n] = deletes[n]
      /\ \A n \in Msgs : Fresh(n)' => Fresh(n)
  BY <1>1, Dismissed DEF SendIInv
<1>3. \A n \in Msgs :
        /\ Queued(n)' <=> Queued(n)
        /\ ~Held(n)'
        /\ Held(n) <=> n = m
        /\ attempts'[n] = attempts[n]
  BY <1>1, Untouched, Tuples DEF TxDismiss, Held
<1>4. ~Queued(m)
  BY <1>1 DEF SendIInv, QueuedOnce
<1>5. /\ txPc = "done" /\ txPc' = "idle" /\ pToSendMsg' = <<>> /\ m \in Msgs
      /\ UNCHANGED <<waitForAckP, msgsTxQueue, pc, sending, loaded>>
  BY <1>1 DEF TxDismiss
<1> HIDE DEF m
<1>6. Types'
  <2>1. pToSendMsg' \in Carried /\ Len(pToSendMsg') = 0
    BY <1>1, Tuples
  <2> QED
    BY <1>1, <1>2, <2>1 DEF SendIInv, Types, TypeOK, TxDismiss
<1>7. QueuedOnce'
  BY <1>2, <1>3, <1>5 DEF SendIInv, QueuedOnce
<1>8. CountsBounded'
  BY <1>2, <1>3, <1>4, <1>5 DEF SendIInv, CountsBounded
<1>9. Tries'
  BY <1>3 DEF SendIInv, Tries
<1>10. Verdicts'
  BY <1>1, <1>3 DEF SendIInv, Verdicts, TxDismiss
<1>11. SendersAway'
  BY <1>2, <1>3, <1>4, <1>5 DEF SendIInv, SendersAway
<1>12. Answered'
  <2>1. UNCHANGED <<msgStatus, results, acks>>
    BY DEF TxDismiss, answers
  <2>2. acks' \in Nat /\ Due' <= Due + acks' - acks
    BY <1>5, <2>1 DEF SendIInv, Types, Due
  <2> QED
    BY <1>3, <1>5, <2>1, <2>2, NoneTold DEF SendIInv, Answered, Told
<1> QED
  BY <1>6, <1>7, <1>8, <1>9, <1>10, <1>11, <1>12 DEF SendIInv

\* Every step keeps the invariant.
LEMMA StepKeeps == ASSUME SendIInv, [Next]_vars PROVE SendIInv'
<1> USE DEF shared, counts, reply, sender, txCtl, wire, link, answers
<1>1. ASSUME NEW c \in Clients, NEW m \in Msgs, Send(c, m) PROVE SendIInv'
  <2>1. c \in Senders /\ mAckNakEvent' \in BOOLEAN
    BY <1>1 DEF Senders, Send, SendIInv, Types, TypeOK
  <2> QED
    BY <1>1, <2>1, QueueKeeps DEF Send
<1>2. ASSUME NEW s \in Senders, SendWakes(s) PROVE SendIInv'
  <2>1. sending[s][1] \in Msgs /\ pc[s] = "wait"
    BY <1>2, Holding DEF SendWakes, SendIInv
  <2>2. mAckEvent' \in [Msgs -> BOOLEAN]
    BY <1>2 DEF SendWakes, SendIInv, Types, TypeOK
  <2>3. CASE msgStatus[sending[s][1]] = "ack"
    BY <1>2, <2>1, <2>2, <2>3, VerdictKeeps DEF SendWakes
  <2>4. CASE msgStatus[sending[s][1]] # "ack"
    BY <1>2, <2>1, <2>2, <2>4, VerdictKeeps DEF SendWakes
  <2> QED
    BY <2>3, <2>4
<1>3. ASSUME NEW s \in Senders, SendTimesOut(s) PROVE SendIInv'
  BY <1>3, VerdictKeeps DEF SendTimesOut, SendIInv, Types, TypeOK
<1>4. ASSUME EndUpdate, mAckNakEvent' \in BOOLEAN,
             UNCHANGED <<waitForAckP, mAckNakStatus, reply, txCtl, attempts, answers>>
      PROVE  SendIInv'
  <2>1. CASE \E m \in Msgs : Queue(RxThread, m)
    BY <1>4, <2>1, QueueKeeps DEF Senders
  <2>2. CASE UNCHANGED <<msgsTxQueue, counts, sender>>
    BY <1>4, <2>2, RxKeeps
  <2> QED
    BY <1>4, <2>1, <2>2 DEF EndUpdate
<1>5. ASSUME RecvNothing \/ SignalAnswer PROVE SendIInv'
  BY <1>4, <1>5 DEF RecvNothing, SignalAnswer, SendIInv, Types, TypeOK
<1>6. ASSUME Poll \/ Connect \/ RecvClosed \/ Close \/ UNCHANGED vars
      PROVE  SendIInv'
  BY <1>6, RxKeeps DEF Poll, Connect, RecvClosed, Close, vars, SendIInv, Types, TypeOK
<1>7. ASSUME NEW a \in {"ack", "nak"}, RecvAnswer(a) PROVE SendIInv'
  BY <1>7, RxKeeps DEF RecvAnswer, SendIInv, Types, TypeOK
<1>8. ASSUME NEW s \in Senders, DismissLoad(s) \/ DismissStore(s) PROVE SendIInv'
  BY <1>8, DismissLoadKeeps, DismissStoreKeeps
<1> QED
  BY <1>1, <1>2, <1>3, <1>5, <1>6, <1>7, <1>8, TakeMsgKeeps, AddRefKeeps,
     FirstSendKeeps, ResendKeeps, LoopKeeps, TellSenderKeeps, TxDismissKeeps
     DEF Next

\* The invariant holds of every reachable state.
LEMMA IInvHolds == Spec => []SendIInv
<1>1. SendIInv /\ [Next]_vars => SendIInv'
  BY StepKeeps
<1> QED
  BY <1>1, InitIInv, PTL DEF Spec

-----------------------------------------------------------------------------
\* What is checked.

\* A message that the queue contains is queued.
LEMMA ContainsQueued ==
  \A m \in Msgs : Contains(msgsTxQueue, m) => Queued(m)
BY DEF Contains, Queued

\* Without waitForAckP the unlocked reference counts of the messages delete each
\* message once, and none that is queued or worked on, for any number of
\* senders, messages and connections.
THEOREM NoneUsedAfterDelete == Spec => []NoUseAfterDelete
<1>1. SendIInv => NoUseAfterDelete
  <2> SUFFICES ASSUME SendIInv, ~waitForAckP, NEW m \in Msgs
               PROVE  /\ deletes[m] <= 1
                      /\ deletes[m] = 1 => /\ ~Contains(msgsTxQueue, m)
                                           /\ pToSendMsg # <<m>>
                                           /\ \A s \in Senders : sending[s] # <<m>>
    BY DEF NoUseAfterDelete
  <2>1. \A s \in Senders : sending[s] # <<m>>
    BY Holding, Tuples DEF SendIInv, SendersAway
  <2>2. /\ deletes[m] <= 1
        /\ deletes[m] = 1 => ~Queued(m) /\ ~Held(m)
    BY DEF SendIInv, SendersAway
  <2> QED
    BY <2>1, <2>2, ContainsQueued DEF Held
<1> QED
  BY <1>1, IInvHolds, PTL

\* For any number of senders, messages, retries and connections and whatever
\* answers come late or twice: Send reports no more successes than ACKs were
\* received, each of a message that send() was called with, which is no more often
\* than the retries allow; and the Tx thread gives the verdict "ack" only to its
\* message, on an ACK received since it took it.
THEOREM VerdictsAnswered == Spec => VerdictsAreAnswered
<1>1. SendIInv => SuccessIsAnswered
  <2> SUFFICES ASSUME SendIInv PROVE SuccessIsAnswered
    OBVIOUS
  <2>1. TypeOK /\ \A m \in Msgs : attempts[m] <= MaxRetries + 1
    BY DEF SendIInv, Types, Tries
  <2>2. ASSUME waitForAckP
        PROVE  /\ \A m \in Succeeded : attempts[m] > 0
               /\ Cardinality(Succeeded) <= acks
    <3>1. Succeeded \subseteq Told /\ IsFiniteSet(Told)
      BY <2>2 DEF SendIInv, Answered, Succeeded
    <3>2. /\ Cardinality(Succeeded) \in Nat /\ Cardinality(Told) \in Nat
          /\ Cardinality(Succeeded) <= Cardinality(Told)
      BY <3>1, FS_Subset, FS_CardinalityType
    <3>3. Cardinality(Told) + Due <= acks /\ Due \in Nat /\ acks \in Nat
      BY DEF SendIInv, Answered, Due, Types
    <3>4. \A m \in Told : attempts[m] > 0
      BY DEF SendIInv, Verdicts, Told
    <3> QED
      BY <3>1, <3>2, <3>3, <3>4
  <2> QED
    BY <2>1, <2>2 DEF SuccessIsAnswered
<1>2. SendIInv /\ [Next]_vars =>
        [\A m \in Msgs : msgStatus[m] # "ack" /\ msgStatus'[m] = "ack"
           => ackSinceTaken /\ pToSendMsg = <<m>>]_vars
  <2> SUFFICES ASSUME SendIInv, [Next]_vars, NEW m \in Msgs,
                      msgStatus[m] # "ack", msgStatus'[m] = "ack"
               PROVE  ackSinceTaken /\ pToSendMsg = <<m>>
    OBVIOUS
  <2>1. TellSender
    <3>1. msgStatus' # msgStatus
      OBVIOUS
    <3> QED
      BY <3>1 DEF Next, Send, SendWakes, SendTimesOut, Verdict, DismissLoad,
         DismissStore, TakeMsg, Taken, AddRef, FirstSend, ClientSend, AckWaitEnds,
         AckReceived, GiveUp, LinkState, Resend, TxDismiss, Poll, Connect,
         RecvNothing, RecvClosed, Close, RecvAnswer, SignalAnswer, vars, reply
  <2>2. pToSendMsg[1] \in Msgs /\ pToSendMsg = <<pToSendMsg[1]>>
    BY <2>1, Holding DEF TellSender, SendIInv
  <2>3. m = pToSendMsg[1] /\ mAckNakStatus = "ack"
    BY <2>1, <2>2 DEF TellSender, SendIInv, Types
  <2>4. pToSendMsg # <<>>
    BY <2>2, Tuples
  <2> QED
    BY <2>2, <2>3, <2>4 DEF SendIInv, Verdicts
<1> QED
  BY <1>1, <1>2, IInvHolds, PTL DEF Spec, VerdictsAreAnswered, AckAfterTaking
=============================================================================
