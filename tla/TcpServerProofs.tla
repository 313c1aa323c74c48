--------------------------- MODULE TcpServerProofs ---------------------------
(***************************************************************************)
(* Proofs about a cTcp in server mode: the links it reports are those of   *)
(* its sessions, a message counts its references, and a client gets the    *)
(* messages for it in order, for any finite number of clients and any      *)
(* messages.                                                               *)
(*                                                                         *)
(* The inductive invariant: Numbered and OneSession are about the ids and  *)
(* the clients of the sessions, Status about what is reported of them,     *)
(* Placed about the message the Tx thread has, Ordered about what is sent  *)
(* and queued for each client, Counted about the references.               *)
(***************************************************************************)
EXTENDS TcpServer, SequenceTheorems, FiniteSetTheorems, WellFoundedInduction, TLAPS

Session == [peer : Peers, msgsToSend : Seq(Msgs)]

TypeInv ==
  /\ mSingleClientConnection \in BOOLEAN
  /\ client_id \in Nat \ {0}
  /\ met \in SUBSET Peers /\ backlog \in SUBSET met
  /\ Ids \in SUBSET ClientIds /\ sessions \in [Ids -> Session]
  /\ mConnected \in BOOLEAN
  /\ msgsTxQueue \in Seq(Msgs)
  /\ mClientId \in [Msgs -> Nat]
  /\ mUseCnt \in [Msgs -> Int] /\ deletes \in [Msgs -> Int]
  /\ rxPc \in {"update", "accept", "receive", "report"}
  /\ initialConnectedState \in BOOLEAN /\ currentConnectedState \in BOOLEAN
  /\ socketState \in {"LinkDown", "LinkUp"}
  /\ clientState \in [ClientIds -> {"none", "LinkUp", "LinkDown"}]
  /\ txPc \in {"idle", "send", "loop", "dismiss", "store", "test"}
  /\ iter \in Ids \cup {0} /\ (txPc # "loop" => iter = 0)
  /\ loaded \in Int
  /\ received \in [Peers -> Seq(Msgs)]
  /\ taken \in Seq(Msgs)

-----------------------------------------------------------------------------
\* The clients that the server has accepted.
Met == met \ backlog

Numbered ==
  /\ client_id <= Cardinality(Met) + 1
  /\ "renumbered" \notin mishaps => \A i \in Ids : i < client_id

\* A client has one session at most, and gets nothing before.
OneSession ==
  /\ \A i \in Ids : sessions[i].peer \in Met
  /\ \A i, j \in Ids : sessions[i].peer = sessions[j].peer => i = j
  /\ \A p \in Peers \ Met : received[p] = <<>>

LinksKnown ==
  alive = "yes" =>
    /\ mConnected => Ids # {}
    /\ mSingleClientConnection => \A i, j \in Ids : i = j
    /\ \A i \in ClientIds : clientState[i] = "LinkUp" <=> i \in Ids

SocketsOpen == "renumbered" \notin mishaps => open = PeersOf(Ids)

\* What an update reports at its end is what it has found.
SocketReported ==
  "closed by send" \notin mishaps =>
    /\ rxPc = "update" => (socketState = "LinkUp" <=> mConnected)
    /\ rxPc # "update" => (socketState = "LinkUp" <=> initialConnectedState)
    /\ rxPc = "report" => (currentConnectedState <=> mConnected)

Status == LinksKnown /\ SocketsOpen /\ SocketReported

-----------------------------------------------------------------------------
Distinct(s) == \A a, b \in DOMAIN s : s[a] = s[b] => a = b

\* The Tx thread has the message it took last; none is queued or taken twice.
Placed ==
  /\ Distinct(taken) /\ Distinct(msgsTxQueue)
  /\ \A m \in Msgs : ~(Contains(msgsTxQueue, m) /\ Contains(taken, m))
  /\ IF txPc = "idle" THEN pToSendMsg = <<>>
     ELSE Len(taken) > 0 /\ pToSendMsg = <<taken[Len(taken)]>>

Before(t, x, y) == \E m, n \in DOMAIN t : m < n /\ t[m] = x /\ t[n] = y

\* The messages of s are some of t, in that order.
InOrder(s, t) ==
  /\ \A a \in DOMAIN s : Contains(t, s[a])
  /\ \A a, b \in DOMAIN s : a < b => Before(t, s[a], s[b])

\* What the client of session i gets and will get.
Stream(i) == received[sessions[i].peer] \o sessions[i].msgsToSend

\* SendMsgToClient has not come to session i.
Ahead(i) == txPc = "send" \/ (txPc = "loop" /\ iter # 0 /\ iter <= i)

Served(i) ==
  /\ InOrder(Stream(i), taken)
  /\ Ahead(i) => ~Contains(Stream(i), pToSendMsg[1])
  /\ txPc = "loop" /\ ~Ahead(i) /\ i \notin skipped /\ ForClient(pToSendMsg[1], i) =>
       Contains(Stream(i), pToSendMsg[1])

Ordered ==
  /\ \A p \in Peers : InOrder(received[p], taken)
  /\ \A i \in Ids : Served(i)

-----------------------------------------------------------------------------
Counts(m) ==
  /\ mUseCnt[m] = References(m)
  /\ deletes[m] = 0 \/ (deletes[m] = 1 /\ mUseCnt[m] = 0)
  /\ pToSendMsg = <<m>> => deletes[m] = 0
  /\ Contains(taken, m) /\ pToSendMsg # <<m>> /\ mUseCnt[m] = 0 => deletes[m] = 1
  /\ ~Contains(taken, m) /\ alive = "yes" => deletes[m] = 0
  /\ txPc = "store" /\ pToSendMsg = <<m>> => loaded = mUseCnt[m]

Counted == "raced" \notin mishaps => \A m \in Msgs : Counts(m)

\* The inductive invariant.
IInv == TypeInv /\ Numbered /\ OneSession /\ Status /\ Placed /\ Ordered /\ Counted

-----------------------------------------------------------------------------
\* Operators.

\* The greater of two numbers.
LEMMA MaxOfTwo ==
  ASSUME NEW a \in Int, NEW b \in Int
  PROVE  Max({a, b}) = IF a >= b THEN a ELSE b
<1>1. CASE a >= b
  <2>1. \A x \in {a, b} : (\A y \in {a, b} : x >= y) => x = a
    BY <1>1
  <2>2. a \in {a, b} /\ \A y \in {a, b} : a >= y
    BY <1>1
  <2> QED
    BY <1>1, <2>1, <2>2 DEF Max
<1>2. CASE b > a
  <2>1. \A x \in {a, b} : (\A y \in {a, b} : x >= y) => x = b
    BY <1>2
  <2>2. b \in {a, b} /\ \A y \in {a, b} : b >= y
    BY <1>2
  <2> QED
    BY <1>2, <2>1, <2>2 DEF Max
<1> QED
  BY <1>1, <1>2

\* A count is kept from going below zero.
LEMMA MaxOfZero == \A u \in Int : Max({u, 0}) \in Int
BY MaxOfTwo

\* A set of ids that is not empty has a least one.
LEMMA LeastId ==
  ASSUME NEW I, I \subseteq Nat, I # {}
  PROVE  Min(I) \in I /\ \A y \in I : Min(I) <= y
<1>1. \E x \in I : \A y \in I : ~(<<y, x>> \in OpToRel(<, Nat))
  BY WFMin, NatLessThanWellFounded
<1>2. \A x, y \in Nat : x < y => <<x, y>> \in OpToRel(<, Nat)
  BY DEF OpToRel
<1>3. \A x, y \in Nat : ~(x < y) => y <= x
  OBVIOUS
<1>4. \E x \in I : \A y \in I : x <= y
  BY <1>1, <1>2, <1>3, Zenon
<1> QED
  BY <1>4, Zenon DEF Min

\* The loop over the sessions goes to the next one, if there is one.
LEMMA NextIdIs ==
  ASSUME NEW S, S \subseteq Nat, NEW i
  PROVE  \/ NextId(S, i) = 0 /\ \A j \in S : ~(j > i)
         \/ NextId(S, i) \in S /\ NextId(S, i) > i
            /\ \A j \in S : j > i => NextId(S, i) <= j
<1> DEFINE above == {j \in S : j > i}
<1>1. CASE above = {}
  BY <1>1 DEF NextId
<1>2. CASE above # {}
  <2>1. above \subseteq Nat
    OBVIOUS
  <2>2. Min(above) \in above /\ \A y \in above : Min(above) <= y
    BY <1>2, <2>1, LeastId
  <2>3. NextId(S, i) = Min(above)
    BY <1>2 DEF NextId
  <2> QED
    BY <2>2, <2>3
<1> QED
  BY <1>1, <1>2

\* The counts after the dismissals.
LEMMA DismissedIs ==
  ASSUME TypeInv, NEW times \in [Msgs -> Nat], Dismissed(times)
  PROVE  /\ mUseCnt' \in [Msgs -> Int] /\ deletes' \in [Msgs -> Int]
         /\ \A m \in Msgs : times[m] = 0 /\ mUseCnt[m] >= 0 =>
              mUseCnt'[m] = mUseCnt[m] /\ deletes'[m] = deletes[m]
         /\ \A m \in Msgs : times[m] > 0 /\ mUseCnt[m] >= times[m] =>
              /\ mUseCnt'[m] = mUseCnt[m] - times[m]
              /\ deletes'[m] = deletes[m] + (IF mUseCnt[m] = times[m] THEN 1 ELSE 0)
<1> SUFFICES ASSUME NEW m \in Msgs
    PROVE  /\ mUseCnt'[m] \in Int /\ deletes'[m] \in Int
           /\ times[m] = 0 /\ mUseCnt[m] >= 0 =>
                mUseCnt'[m] = mUseCnt[m] /\ deletes'[m] = deletes[m]
           /\ times[m] > 0 /\ mUseCnt[m] >= times[m] =>
                /\ mUseCnt'[m] = mUseCnt[m] - times[m]
                /\ deletes'[m] = deletes[m] + (IF mUseCnt[m] = times[m] THEN 1 ELSE 0)
  BY DEF Dismissed
<1>1. PICK t \in Nat, u \in Int, d \in Int : t = times[m] /\ u = mUseCnt[m] /\ d = deletes[m]
  BY DEF TypeInv
<1>2. mUseCnt'[m] = Max({u - t, 0}) /\ deletes'[m] = d + Max({t + 1 - Max({u, 1}), 0})
  BY <1>1 DEF Dismissed
<1>3. Max({u - t, 0}) = IF u - t >= 0 THEN u - t ELSE 0
  BY MaxOfTwo
<1>4. PICK v \in Int : v = Max({u, 1}) /\ v = IF u >= 1 THEN u ELSE 1
  BY MaxOfTwo
<1>5. Max({t + 1 - v, 0}) = IF t + 1 - v >= 0 THEN t + 1 - v ELSE 0
  BY MaxOfTwo
<1>6. /\ mUseCnt'[m] = IF u >= t THEN u - t ELSE 0
      /\ deletes'[m] = d + (IF t + 1 >= v THEN t + 1 - v ELSE 0)
  BY <1>2, <1>3, <1>4, <1>5
<1>7. mUseCnt'[m] \in Int /\ deletes'[m] \in Int
  BY <1>6
<1>8. t = 0 /\ u >= 0 => mUseCnt'[m] = u /\ deletes'[m] = d
  BY <1>4, <1>6
<1>9. t > 0 /\ u >= t =>
        mUseCnt'[m] = u - t /\ deletes'[m] = d + (IF u = t THEN 1 ELSE 0)
  BY <1>4, <1>6
<1> QED
  BY <1>1, <1>7, <1>8, <1>9

-----------------------------------------------------------------------------
\* The types.

\* The ids are at most as many as the clients, which are finitely many.
LEMMA IdsFinite ==
  ASSUME TypeInv
  PROVE  /\ Ids \subseteq Nat /\ 0 \notin Ids /\ IsFiniteSet(Ids)
         /\ Cardinality(Peers) \in Nat
<1>1. Cardinality(Peers) \in Nat
  BY TcpServerAssumption, FS_CardinalityType
<1>2. Ids \subseteq 1 .. Cardinality(Peers)
  BY DEF TypeInv, ClientIds
<1>3. IsFiniteSet(1 .. Cardinality(Peers))
  BY <1>1, FS_Interval, 1 \in Int
<1>4. IsFiniteSet(Ids)
  BY <1>2, <1>3, FS_Subset
<1> QED
  BY <1>1, <1>2, <1>4

\* How many sessions have a message in their queues.
LEMMA HeldByType ==
  ASSUME TypeInv, NEW S, S \subseteq Ids, NEW m
  PROVE  HeldBy(m, S) \in Nat
<1> DEFINE H == {i \in S : Contains(sessions[i].msgsToSend, m)}
<1>1. H \in SUBSET Ids
  OBVIOUS
<1>2. IsFiniteSet(H)
  BY <1>1, IdsFinite, FS_Subset
<1>3. Cardinality(H) \in Nat
  BY <1>2, FS_CardinalityType
<1> QED
  BY <1>3 DEF HeldBy

\* The message that the Tx thread has.
LEMMA Sending ==
  ASSUME TypeInv, Placed, txPc # "idle"
  PROVE  \E m \in Msgs : /\ pToSendMsg = <<m>> /\ pToSendMsg[1] = m
                         /\ m = taken[Len(taken)] /\ Contains(taken, m)
<1>1. Len(taken) \in Nat /\ Len(taken) \in 1 .. Len(taken)
  BY LenProperties DEF TypeInv, Placed
<1>2. taken[Len(taken)] \in Msgs
  BY <1>1, ElementOfSeq DEF TypeInv
<1> QED
  BY <1>1, <1>2 DEF Placed, Contains

\* A new client is given the next id.
LEMMA NextIdFree ==
  ASSUME TypeInv, Numbered, NEW p \in backlog
  PROVE  /\ client_id \in ClientIds
         /\ p \in Peers \ Met
         /\ Cardinality(Met \cup {p}) = Cardinality(Met) + 1
         /\ IsFiniteSet(Met) /\ Cardinality(Met) \in Nat
<1>1. IsFiniteSet(Peers)
  BY TcpServerAssumption
<1>2. Met \in SUBSET Peers /\ p \in Peers /\ p \notin Met
  BY DEF TypeInv, Met
<1>3. IsFiniteSet(Met)
  BY <1>1, <1>2, FS_Subset
<1>4. Cardinality(Met \cup {p}) = Cardinality(Met) + 1
  BY <1>2, <1>3, FS_AddElement
<1>5. Met \cup {p} \in SUBSET Peers
  BY <1>2
<1>6. Cardinality(Met \cup {p}) <= Cardinality(Peers)
  BY <1>1, <1>5, FS_Subset
<1>7. Cardinality(Peers) \in Nat /\ Cardinality(Met) \in Nat
  BY <1>1, <1>3, FS_CardinalityType
<1>8. client_id \in Nat /\ client_id >= 1 /\ client_id <= Cardinality(Met) + 1
  BY DEF TypeInv, Numbered
<1>9. client_id \in 1 .. Cardinality(Peers)
  BY <1>4, <1>6, <1>7, <1>8
<1> QED
  BY <1>2, <1>3, <1>4, <1>7, <1>9 DEF ClientIds

-----------------------------------------------------------------------------
\* The steps that leave the sessions alone, and the others.

Elsewhere ==
  \/ \E m \in Msgs, i \in {0} \cup ClientIds : Send(m, i)
  \/ \E p \in Peers : Arrive(p)
  \/ OtherConstructed \/ BeginUpdate \/ AcceptNobody \/ ReportSocket
  \/ TakeMsg \/ EnterSend \/ Skip \/ EndSend
  \/ DismissLoad \/ DismissStore \/ DismissTest \/ OnTimerEvent

AtSessions ==
  \/ \E p \in Peers : AcceptNewClient(p)
  \/ \E closed \in SUBSET Ids : Receive(closed)
  \/ SendAll \/ \E k \in 0 .. Cardinality(Msgs) : SendBlocked(k) \/ SendFails(k)
  \/ Destroy

\* Every step is one or the other.
LEMMA NextIs ==
  ASSUME Next
  PROVE  alive = "yes" /\ (Elsewhere \/ AtSessions)
BY DEF Next, Elsewhere, AtSessions

\* What the first leave alone.
LEMMA ElsewhereEffect ==
  ASSUME Elsewhere
  PROVE  /\ UNCHANGED <<mSingleClientConnection, sessions, mConnected, clientState, open,
                        received>>
         /\ Ids' = Ids
         /\ alive' = alive \/ alive' = "crashed"
         /\ mishaps' = mishaps \/ (mishaps' = mishaps \cup {"renumbered"} /\ OtherConstructed)
<1> USE DEF fixed, ids, peers, queued, counts, rx, tx, hist
<1>1. /\ UNCHANGED <<mSingleClientConnection, sessions, mConnected, clientState, open,
                     received>>
  BY DEF Elsewhere, Send, Arrive, OtherConstructed, BeginUpdate, AcceptNobody, ReportSocket,
         TakeMsg, EnterSend, Skip, EndSend, DismissLoad, DismissStore, DismissTest, OnTimerEvent
<1>2. alive' = alive \/ alive' = "crashed"
  BY DEF Elsewhere, Send, Arrive, OtherConstructed, BeginUpdate, AcceptNobody, ReportSocket,
         TakeMsg, EnterSend, Skip, EndSend, DismissLoad, DismissStore, DismissTest, OnTimerEvent
<1>3. mishaps' = mishaps \/ (mishaps' = mishaps \cup {"renumbered"} /\ OtherConstructed)
  BY DEF Elsewhere, Send, Arrive, OtherConstructed, BeginUpdate, AcceptNobody, ReportSocket,
         TakeMsg, EnterSend, Skip, EndSend, DismissLoad, DismissStore, DismissTest, OnTimerEvent
<1> QED
  BY <1>1, <1>2, <1>3 DEF Ids

\* What has happened is not forgotten.
LEMMA MishapsGrow ==
  ASSUME Elsewhere \/ AtSessions
  PROVE  mishaps \subseteq mishaps'
<1>1. CASE AtSessions
  BY <1>1 DEF AtSessions, AcceptNewClient, Accepted, DismissQueued, Receive, Received,
              SendAll, SendBlocked, Keep, SendFails, Failed, Destroy, hist
<1> QED
  BY <1>1, ElsewhereEffect

\* Only SendMsgToClient puts messages on the wire.
LEMMA ReceivedBy ==
  ASSUME Elsewhere \/ AtSessions
  PROVE  UNCHANGED received \/ (AtClient /\ \E k : Transmit(k))
<1>1. CASE AtSessions
  BY <1>1 DEF AtSessions, AcceptNewClient, Accepted, Receive, Received,
              SendAll, SendBlocked, SendFails, Failed, Destroy, hist
<1> QED
  BY <1>1, ElsewhereEffect

\* The clients accepted.
LEMMA MetGrows ==
  ASSUME TypeInv, Elsewhere \/ AtSessions
  PROVE  /\ Met' = Met \/ \E p \in backlog : Met' = Met \cup {p}
         /\ client_id' = client_id \/ OtherConstructed \/ \E p \in Peers : AcceptNewClient(p)
<1> USE DEF fixed, ids, peers, queued, counts, rx, tx, hist, Met
<1>1. ASSUME NEW p \in Peers, Arrive(p) PROVE Met' = Met /\ client_id' = client_id
  BY <1>1 DEF Arrive, TypeInv
<1>2. CASE AcceptNobody
  <2>1. CASE backlog' = backlog
    BY <1>2, <2>1 DEF AcceptNobody
  <2>2. ASSUME NEW p \in backlog, backlog' = backlog \ {p} PROVE Met' = Met \cup {p}
    BY <1>2, <2>2 DEF AcceptNobody, TypeInv
  <2>3. client_id' = client_id
    BY <1>2 DEF AcceptNobody
  <2> QED
    BY <1>2, <2>1, <2>2, <2>3 DEF AcceptNobody
<1>3. ASSUME NEW p \in Peers, AcceptNewClient(p) PROVE p \in backlog /\ Met' = Met \cup {p}
  BY <1>3 DEF AcceptNewClient, Accepted, TypeInv
<1>4. CASE OtherConstructed
  BY <1>4 DEF OtherConstructed
<1>5. ASSUME \/ \E m \in Msgs, i \in {0} \cup ClientIds : Send(m, i)
             \/ BeginUpdate \/ ReportSocket
             \/ TakeMsg \/ EnterSend \/ Skip \/ EndSend
             \/ DismissLoad \/ DismissStore \/ DismissTest \/ OnTimerEvent
      PROVE  Met' = Met /\ client_id' = client_id
  BY <1>5 DEF Send, BeginUpdate, ReportSocket,
         TakeMsg, EnterSend, Skip, EndSend, DismissLoad, DismissStore, DismissTest, OnTimerEvent
<1>6. ASSUME \/ \E closed \in SUBSET Ids : Receive(closed)
             \/ SendAll \/ \E k \in 0 .. Cardinality(Msgs) : SendBlocked(k) \/ SendFails(k)
             \/ Destroy
      PROVE  Met' = Met /\ client_id' = client_id
  BY <1>6 DEF Receive, Received, SendAll, SendBlocked, SendFails, Failed, Transmit, Keep, Destroy
<1>7. CASE AtSessions
  BY <1>3, <1>6, <1>7 DEF AtSessions
<1>8. CASE Elsewhere
  BY <1>1, <1>2, <1>4, <1>5, <1>8 DEF Elsewhere
<1> QED
  BY <1>7, <1>8

-----------------------------------------------------------------------------
\* What the steps do to the sessions and to the counts.

\* A new client takes the next id, and the sessions that stay are as they were.
LEMMA AcceptEffect ==
  ASSUME TypeInv, Numbered, NEW p, AcceptNewClient(p)
  PROVE  LET kept == Ids \ ToDrop IN
         /\ Ids' = kept \cup {client_id}
         /\ \A i \in kept : sessions'[i] = sessions[i]
         /\ client_id \notin kept => sessions'[client_id] = [peer |-> p, msgsToSend |-> <<>>]
         /\ Ids' \subseteq ClientIds
         /\ sessions' \in [Ids' -> Session]
<1> DEFINE kept == Ids \ ToDrop
           rec == [peer |-> p, msgsToSend |-> <<>>]
<1>1. p \in backlog /\ p \in Peers
  BY DEF AcceptNewClient, Accepted, TypeInv
<1>2. sessions' = [i \in kept \cup {client_id} |-> IF i \in kept THEN sessions[i] ELSE rec]
  BY DEF AcceptNewClient, Accepted, Without
<1>3. client_id \in ClientIds
  BY <1>1, NextIdFree
<1>4. rec \in Session
  BY <1>1, EmptySeq DEF Session
<1>5. Ids' = kept \cup {client_id}
  BY <1>2 DEF Ids
<1>6. \A i \in kept : sessions[i] \in Session
  BY DEF TypeInv
<1>7. Ids' \subseteq ClientIds
  BY <1>3, <1>5 DEF TypeInv
<1> HIDE DEF rec, kept
<1>8. sessions' \in [Ids' -> Session]
  BY <1>2, <1>4, <1>5, <1>6
<1> QED
  BY <1>2, <1>5, <1>7, <1>8 DEF rec, kept

\* Sessions are closed.
LEMMA WithoutEffect ==
  ASSUME TypeInv, NEW S, sessions' = Without(S)
  PROVE  /\ Ids' = Ids \ S
         /\ \A i \in Ids' : sessions'[i] = sessions[i]
         /\ Ids' \subseteq ClientIds
         /\ sessions' \in [Ids' -> Session]
<1>1. Ids' = Ids \ S
  BY DEF Without, Ids
<1> QED
  BY <1>1 DEF Without, TypeInv

\* The messages for the client at the iterator.
LEMMA OutgoingIs ==
  ASSUME TypeInv, Placed, AtClient
  PROVE  /\ iter \in Ids /\ sessions[iter] \in Session /\ txPc = "loop"
         /\ Outgoing \in Seq(Msgs)
         /\ Outgoing = Append(sessions[iter].msgsToSend, pToSendMsg[1])
         /\ Len(Outgoing) = Len(sessions[iter].msgsToSend) + 1
         /\ Len(sessions[iter].msgsToSend) \in Nat
         /\ \A j \in 1 .. Len(sessions[iter].msgsToSend) :
              Outgoing[j] = sessions[iter].msgsToSend[j]
         /\ Outgoing[Len(Outgoing)] = pToSendMsg[1]
<1>1. iter \in Ids /\ sessions[iter] \in Session /\ txPc = "loop"
  BY DEF AtClient, TypeInv
<1>2. PICK m \in Msgs : pToSendMsg[1] = m
  BY <1>1, Sending
<1>3. PICK q \in Seq(Msgs) : q = sessions[iter].msgsToSend
  BY <1>1 DEF Session
<1>4. Outgoing = Append(q, m)
  BY <1>2, <1>3 DEF Outgoing
<1>5. Len(q) \in Nat
  BY LenProperties
<1> QED
  BY <1>1, <1>2, <1>3, <1>4, <1>5, AppendProperties

\* The client at the iterator is sent k messages, and keeps the others queued.
LEMMA KeepEffect ==
  ASSUME TypeInv, Placed, AtClient, NEW k \in 0 .. Len(Outgoing), Transmit(k),
         Keep(SubSeq(Outgoing, k + 1, Len(Outgoing)))
  PROVE  LET q == SubSeq(Outgoing, k + 1, Len(Outgoing))
             p == sessions[iter].peer IN
         /\ Ids' = Ids
         /\ \A i \in Ids \ {iter} : sessions'[i] = sessions[i]
         /\ sessions'[iter].peer = p /\ sessions'[iter].msgsToSend = q
         /\ sessions' \in [Ids' -> Session]
<1> DEFINE q == SubSeq(Outgoing, k + 1, Len(Outgoing))
<1>1. iter \in Ids /\ sessions[iter] \in Session /\ Outgoing \in Seq(Msgs)
  BY OutgoingIs
<1>2. q \in Seq(Msgs)
  BY <1>1
<1> HIDE DEF q
<1>3. sessions' = [sessions EXCEPT ![iter].msgsToSend = q]
  BY DEF Keep, q
<1>4. PICK s \in Session : s = sessions[iter]
  BY <1>1
<1>5. [s EXCEPT !.msgsToSend = q] = [peer |-> s.peer, msgsToSend |-> q]
  BY DEF Session
<1>6. sessions' = [i \in Ids |-> IF i = iter THEN [peer |-> s.peer, msgsToSend |-> q]
                                 ELSE sessions[i]]
  BY <1>1, <1>3, <1>4, <1>5 DEF TypeInv
<1>7. [peer |-> s.peer, msgsToSend |-> q] \in Session
  BY <1>2 DEF Session
<1>8. Ids' = Ids
  BY <1>6 DEF Ids
<1> QED
  BY <1>1, <1>4, <1>6, <1>7, <1>8 DEF q, TypeInv

\* All the messages are sent, or some.
LEMMA SendAllKeeps ==
  ASSUME TypeInv, Placed, SendAll
  PROVE  LET k == Len(Outgoing) IN
         /\ AtClient /\ k \in 0 .. Len(Outgoing) /\ Transmit(k)
         /\ Keep(SubSeq(Outgoing, k + 1, Len(Outgoing)))
<1>1. AtClient /\ Len(Outgoing) \in Nat
  BY OutgoingIs DEF SendAll
<1>2. SubSeq(Outgoing, Len(Outgoing) + 1, Len(Outgoing)) = <<>>
  BY <1>1, SubSeqEmpty
<1>3. Transmit(Len(Outgoing)) /\ Keep(SubSeq(Outgoing, Len(Outgoing) + 1, Len(Outgoing)))
  BY <1>2 DEF SendAll
<1> QED
  BY <1>1, <1>3

\* A send that blocks has given k messages to the socket and keeps the rest.
LEMMA SendBlockedKeeps ==
  ASSUME TypeInv, Placed, NEW k \in 0 .. Cardinality(Msgs), SendBlocked(k)
  PROVE  /\ AtClient /\ k \in 0 .. Len(Outgoing) /\ Transmit(k)
         /\ Keep(SubSeq(Outgoing, k + 1, Len(Outgoing)))
<1>1. AtClient /\ Len(Outgoing) \in Nat
  BY OutgoingIs DEF SendBlocked
<1>2. k \in 0 .. Len(Outgoing)
  BY <1>1 DEF SendBlocked
<1> QED
  BY <1>1, <1>2 DEF SendBlocked

\* The messages that have been put on the wire.
LEMMA TransmitEffect ==
  ASSUME TypeInv, Placed, AtClient, NEW k \in 0 .. Len(Outgoing), Transmit(k)
  PROVE  LET p == sessions[iter].peer IN
         /\ \A r \in Peers : received'[r] = IF r = p THEN received[p] \o SubSeq(Outgoing, 1, k)
                                            ELSE received[r]
         /\ received' \in [Peers -> Seq(Msgs)]
         /\ p \in Peers
<1>1. iter \in Ids /\ sessions[iter] \in Session /\ Outgoing \in Seq(Msgs)
  BY OutgoingIs
<1>2. PICK v \in Seq(Msgs) : v = SubSeq(Outgoing, 1, k)
  <2>1. PICK o \in Seq(Msgs) : o = Outgoing
    BY <1>1
  <2>2. k \in Int /\ Len(o) \in Nat /\ \A i \in 1 .. k : o[i] \in Msgs
    BY <2>1, LenProperties, ElementOfSeq
  <2>3. SubSeq(o, 1, k) \in Seq(Msgs)
    BY <2>2, SubSeqProperties
  <2> QED
    BY <2>1, <2>3
<1>3. PICK p \in Peers : p = sessions[iter].peer
  BY <1>1 DEF Session
<1>4. received' = [received EXCEPT ![p] = @ \o v]
  BY <1>2, <1>3 DEF Transmit
<1>5. received[p] \o v \in Seq(Msgs)
  BY <1>2, ConcatProperties DEF TypeInv
<1>6. received' = [r \in Peers |-> IF r = p THEN received[p] \o v ELSE received[r]]
  BY <1>4 DEF TypeInv
<1>7. received' \in [Peers -> Seq(Msgs)]
  BY <1>5, <1>6 DEF TypeInv
<1> QED
  BY <1>2, <1>3, <1>6, <1>7

\* The types are kept by the steps that leave the sessions alone ...
LEMMA OtherTypes ==
  ASSUME TypeInv, Placed, Elsewhere
  PROVE  TypeInv'
<1> USE DEF TypeInv, vars, fixed, ids, peers, queued, counts, rx, tx, hist, Ids
<1>1. ASSUME NEW m \in Msgs, NEW i \in {0} \cup ClientIds, Send(m, i) PROVE TypeInv'
  <2>1. i \in Nat
    BY DEF ClientIds
  <2>2. msgsTxQueue' \in Seq(Msgs)
    BY <1>1, AppendProperties DEF Send
  <2> QED
    BY <1>1, <2>1, <2>2 DEF Send
<1>2. ASSUME NEW p \in Peers, Arrive(p) PROVE TypeInv'
  BY <1>2 DEF Arrive
<1>3. CASE OtherConstructed
  BY <1>3 DEF OtherConstructed
<1>4. CASE BeginUpdate
  BY <1>4 DEF BeginUpdate
<1>5. CASE AcceptNobody
  BY <1>5 DEF AcceptNobody
<1>6. CASE ReportSocket
  BY <1>6 DEF ReportSocket
<1>7. CASE TakeMsg
  <2>1. Head(msgsTxQueue) \in Msgs /\ Tail(msgsTxQueue) \in Seq(Msgs)
    BY <1>7, HeadTailProperties DEF TakeMsg
  <2>2. taken' \in Seq(Msgs)
    BY <1>7, <2>1, AppendProperties DEF TakeMsg
  <2>3. mUseCnt' \in [Msgs -> Int]
    BY <1>7, <2>1 DEF TakeMsg
  <2> QED
    BY <1>7, <2>1, <2>2, <2>3 DEF TakeMsg
<1>8. CASE EnterSend \/ Skip
  <2>1. Ids \subseteq Nat
    BY IdsFinite
  <2>2. NextId(Ids, 0) \in Ids \cup {0} /\ NextId(Ids, iter) \in Ids \cup {0}
    BY <2>1, NextIdIs
  <2> QED
    BY <1>8, <2>2 DEF EnterSend, Skip
<1>9. CASE EndSend
  <2>1. mUseCnt' \in [Msgs -> Int] /\ deletes' \in [Msgs -> Int]
    <3>1. [m \in Msgs |-> IF pToSendMsg = <<m>> THEN 1 ELSE 0] \in [Msgs -> Nat]
      OBVIOUS
    <3> QED
      BY <1>9, <3>1, DismissedIs DEF EndSend
  <2> QED
    BY <1>9, <2>1 DEF EndSend
<1>10. CASE DismissLoad
  <2>1. PICK m \in Msgs : pToSendMsg[1] = m
    BY <1>10, Sending DEF DismissLoad
  <2> QED
    BY <1>10, <2>1 DEF DismissLoad
<1>11. CASE DismissStore
  <2>1. PICK u \in Int : u = loaded - 1
    OBVIOUS
  <2>2. Max({u, 0}) \in Int
    BY MaxOfZero, Zenon
  <2>3. PICK v \in Int : v = Max({loaded - 1, 0})
    BY <2>1, <2>2
  <2>4. mUseCnt' = [mUseCnt EXCEPT ![pToSendMsg[1]] = v]
    BY <1>11, <2>3 DEF DismissStore
  <2>5. mUseCnt' \in [Msgs -> Int]
    BY <2>4
  <2> QED
    BY <1>11, <2>5 DEF DismissStore
<1>12. CASE DismissTest
  <2>1. PICK m \in Msgs : pToSendMsg[1] = m
    BY <1>12, Sending DEF DismissTest
  <2>2. deletes' \in [Msgs -> Int]
    <3>1. deletes' = [deletes EXCEPT ![m] = IF mUseCnt[m] = 0 THEN @ + 1 ELSE @]
      BY <1>12, <2>1 DEF DismissTest
    <3> QED
      BY <3>1
  <2>3. /\ txPc' = "idle" /\ loaded' = 0 /\ iter = 0
        /\ UNCHANGED <<mSingleClientConnection, client_id, met, backlog, sessions,
                       mConnected, msgsTxQueue, mClientId, mUseCnt, rx, clientState,
                       iter, received, taken>>
    BY <1>12 DEF DismissTest
  <2> QED
    BY <2>2, <2>3
<1>13. CASE OnTimerEvent
  BY <1>13 DEF OnTimerEvent
<1> QED
  BY <1>1, <1>2, <1>3, <1>4, <1>5, <1>6, <1>7, <1>8, <1>9, <1>10, <1>11, <1>12, <1>13
     DEF Elsewhere

\* ... and by those that close or add sessions, or send to one.
LEMMA SessionTypes ==
  ASSUME TypeInv, Numbered, Placed, AtSessions
  PROVE  TypeInv'
<1> USE DEF vars, fixed, ids, peers, queued, counts, rx, tx, hist
<1>0. \A S : S \subseteq Ids => [m \in Msgs |-> HeldBy(m, S)] \in [Msgs -> Nat]
  BY HeldByType
<1>1. ASSUME NEW p \in Peers, AcceptNewClient(p) PROVE TypeInv'
  <2>1. Ids' \subseteq ClientIds /\ sessions' \in [Ids' -> Session]
    BY <1>1, AcceptEffect
  <2>2. mUseCnt' \in [Msgs -> Int] /\ deletes' \in [Msgs -> Int]
    <3>1. ToDrop \subseteq Ids
      BY DEF ToDrop
    <3> QED
      BY <1>0, <1>1, <3>1, DismissedIs DEF AcceptNewClient, Accepted, DismissQueued
  <2>3. clientState' \in [ClientIds -> {"none", "LinkUp", "LinkDown"}]
    BY <1>1 DEF AcceptNewClient, Accepted, TypeInv
  <2>4. iter' \in Ids' \cup {0} /\ (txPc' # "loop" => iter' = 0)
    BY <1>1 DEF AcceptNewClient, Accepted, LockedByTx, TypeInv
  <2> QED
    BY <1>1, <2>1, <2>2, <2>3, <2>4 DEF AcceptNewClient, Accepted, TypeInv
<1>2. ASSUME NEW closed \in SUBSET Ids, Receive(closed) PROVE TypeInv'
  <2>1. Ids' \subseteq ClientIds /\ sessions' \in [Ids' -> Session]
    BY <1>2, WithoutEffect DEF Receive, Received
  <2>2. mUseCnt' \in [Msgs -> Int] /\ deletes' \in [Msgs -> Int]
    BY <1>0, <1>2, DismissedIs DEF Receive, DismissQueued
  <2>3. clientState' \in [ClientIds -> {"none", "LinkUp", "LinkDown"}]
    BY <1>2 DEF Receive, Received, TypeInv
  <2>4. iter' \in Ids' \cup {0} /\ (txPc' # "loop" => iter' = 0)
    BY <1>2 DEF Receive, Received, LockedByTx, TypeInv
  <2> QED
    BY <1>2, <2>1, <2>2, <2>3, <2>4 DEF Receive, Received, TypeInv
<1>3. Ids \subseteq Nat
  BY IdsFinite
<1>4. ASSUME NEW k \in 0 .. Len(Outgoing), AtClient, Transmit(k),
             Keep(SubSeq(Outgoing, k + 1, Len(Outgoing))),
             mUseCnt' \in [Msgs -> Int], deletes' \in [Msgs -> Int]
      PROVE  TypeInv'
  <2>1. Ids' = Ids /\ sessions' \in [Ids' -> Session]
    BY <1>4, KeepEffect
  <2>2. received' \in [Peers -> Seq(Msgs)]
    BY <1>4, TransmitEffect
  <2>3. NextId(Ids, iter) \in Ids \cup {0}
    BY <1>3, NextIdIs
  <2>4. txPc = "loop" /\ iter' = NextId(Ids, iter)
    BY <1>4 DEF AtClient, Keep
  <2> QED
    BY <1>4, <2>1, <2>2, <2>3, <2>4 DEF Keep, Transmit, TypeInv
<1>5. CASE SendAll
  <2>1. AtClient
    BY <1>5 DEF SendAll
  <2>3. mUseCnt' \in [Msgs -> Int] /\ deletes' \in [Msgs -> Int]
    <3>1. {iter} \subseteq Ids
      BY <2>1, OutgoingIs
    <3>2. [m \in Msgs |-> HeldBy(m, {iter})] \in [Msgs -> Nat]
      BY <1>0, <3>1
    <3> QED
      BY <1>5, <3>2, DismissedIs DEF SendAll
  <2> QED
    BY <1>4, <1>5, <2>3, SendAllKeeps
<1>6. ASSUME NEW k \in 0 .. Cardinality(Msgs), SendBlocked(k) PROVE TypeInv'
  <2>3. mUseCnt' \in [Msgs -> Int]
    BY <1>6 DEF SendBlocked, TypeInv
  <2>4. deletes' \in [Msgs -> Int]
    BY <1>6 DEF SendBlocked, TypeInv
  <2> QED
    BY <1>4, <1>6, <2>3, <2>4, SendBlockedKeeps
<1>7. ASSUME NEW k \in 0 .. Cardinality(Msgs), SendFails(k) PROVE TypeInv'
  <2> DEFINE n == NextId(Ids, iter)
             to == IF n = 0 THEN 0 ELSE NextId(Ids, n)
  <2>0. AtClient /\ k < Len(Outgoing)
    BY <1>7 DEF SendFails, Failed
  <2>1. AtClient /\ Len(Outgoing) \in Nat /\ iter \in Ids
    BY <2>0, OutgoingIs
  <2>2. k \in 0 .. Len(Outgoing)
    BY <2>0, <2>1
  <2>3. mUseCnt' \in [Msgs -> Int] /\ deletes' \in [Msgs -> Int]
    BY <1>0, <1>7, <2>1, DismissedIs DEF SendFails, Failed
  <2>4. Ids' = Ids \ {iter} /\ Ids' \subseteq ClientIds /\ sessions' \in [Ids' -> Session]
    BY <1>7, WithoutEffect DEF SendFails, Failed
  <2>5. received' \in [Peers -> Seq(Msgs)]
    BY <1>7, <2>1, <2>2, TransmitEffect DEF SendFails, Failed
  <2>6. iter' = to
    BY <1>7 DEF SendFails, Failed
  <2>7. to \in Ids' \cup {0}
    <3>1. n = 0 \/ (n \in Ids /\ n > iter)
      BY <1>3, NextIdIs
    <3>2. n # 0 => to = 0 \/ (to \in Ids /\ to > n)
      BY <1>3, NextIdIs
    <3>3. n = 0 => to = 0
      OBVIOUS
    <3> HIDE DEF n, to
    <3>4. \A i \in Ids : i \in Nat
      BY <1>3
    <3>6. iter \in Nat /\ (n = 0 \/ n \in Nat)
      BY <2>1, <3>1, <3>4
    <3>7. to = 0 \/ to \in Nat
      BY <3>2, <3>3, <3>4
    <3>5. n # 0 /\ to # 0 => to # iter
      BY <3>1, <3>2, <3>6, <3>7
    <3> QED
      BY <2>4, <3>1, <3>2, <3>3, <3>5
  <2>8. clientState' \in [ClientIds -> {"none", "LinkUp", "LinkDown"}]
    BY <1>7 DEF SendFails, Failed, TypeInv
  <2>9. txPc = "loop"
    BY <2>1 DEF AtClient
  <2> HIDE DEF to
  <2> QED
    BY <1>7, <2>3, <2>4, <2>5, <2>6, <2>7, <2>8, <2>9 DEF SendFails, Failed, Transmit, TypeInv
<1>8. CASE Destroy
  <2>1. mUseCnt' \in [Msgs -> Int] /\ deletes' \in [Msgs -> Int]
    <3>1. \A m \in Msgs : HeldBy(m, Ids) \in Nat
      BY HeldByType
    <3>2. [m \in Msgs |-> HeldBy(m, Ids) + IF Contains(msgsTxQueue, m) THEN 1 ELSE 0]
            \in [Msgs -> Nat]
      BY <3>1
    <3> QED
      BY <1>8, <3>2, DismissedIs DEF Destroy
  <2>2. Ids' = {} /\ sessions' \in [Ids' -> Session]
    BY <1>8 DEF Destroy, Ids
  <2>3. msgsTxQueue' \in Seq(Msgs)
    BY <1>8, EmptySeq DEF Destroy
  <2>4. iter' = 0 /\ txPc' = "idle"
    BY <1>8 DEF Destroy, TypeInv
  <2> QED
    BY <1>8, <2>1, <2>2, <2>3, <2>4 DEF Destroy, TypeInv
<1> QED
  BY <1>1, <1>2, <1>5, <1>6, <1>7, <1>8 DEF AtSessions

-----------------------------------------------------------------------------
\* The ids and the clients of the sessions.

\* A session keeps its client; a new one has a client that was waiting.
LEMMA SessionsAfter ==
  ASSUME TypeInv, Numbered, Placed, Elsewhere \/ AtSessions
  PROVE  \A i \in Ids' :
           \/ i \in Ids /\ sessions'[i].peer = sessions[i].peer
           \/ /\ i = client_id
              /\ \E p \in backlog : AcceptNewClient(p) /\ sessions'[i].peer = p
<1> DEFINE Goal == \A i \in Ids' :
                     \/ i \in Ids /\ sessions'[i].peer = sessions[i].peer
                     \/ /\ i = client_id
                        /\ \E p \in backlog : AcceptNewClient(p) /\ sessions'[i].peer = p
<1>1. CASE Elsewhere
  BY <1>1, ElsewhereEffect
<1>2. ASSUME NEW p \in Peers, AcceptNewClient(p) PROVE Goal
  <2>1. p \in backlog
    BY <1>2 DEF AcceptNewClient, Accepted
  <2>2. PICK kept : /\ kept \subseteq Ids /\ Ids' = kept \cup {client_id}
                    /\ \A i \in kept : sessions'[i] = sessions[i]
                    /\ client_id \notin kept => sessions'[client_id].peer = p
    <3> DEFINE K == Ids \ ToDrop
    <3>1. /\ K \subseteq Ids /\ Ids' = K \cup {client_id}
          /\ \A i \in K : sessions'[i] = sessions[i]
          /\ client_id \notin K => sessions'[client_id] = [peer |-> p, msgsToSend |-> <<>>]
      BY <1>2, AcceptEffect
    <3> HIDE DEF K
    <3> QED
      BY <3>1
  <2> QED
    BY <1>2, <2>1, <2>2
<1>3. ASSUME NEW closed \in SUBSET Ids, Receive(closed) PROVE Goal
  <2>1. sessions' = Without(closed)
    BY <1>3 DEF Receive, Received
  <2> QED
    BY <2>1, WithoutEffect
<1>4. ASSUME AtClient, NEW k \in 0 .. Len(Outgoing), Transmit(k),
             Keep(SubSeq(Outgoing, k + 1, Len(Outgoing)))
      PROVE  Goal
  BY <1>4, KeepEffect
<1>5. CASE SendAll
  BY <1>4, <1>5, SendAllKeeps
<1>6. ASSUME NEW k \in 0 .. Cardinality(Msgs), SendBlocked(k) PROVE Goal
  BY <1>4, <1>6, SendBlockedKeeps
<1>7. ASSUME NEW k \in 0 .. Cardinality(Msgs), SendFails(k) PROVE Goal
  <2>1. sessions' = Without({iter})
    BY <1>7 DEF SendFails, Failed
  <2> QED
    BY <2>1, WithoutEffect
<1>8. CASE Destroy
  <2>1. Ids' = {}
    BY <1>8 DEF Destroy, Ids
  <2> QED
    BY <2>1
<1> QED
  BY <1>1, <1>2, <1>3, <1>5, <1>6, <1>7, <1>8 DEF AtSessions

\* The next id is above those in use, unless another cTcp has set it back.
LEMMA NumberedKept ==
  ASSUME TypeInv, Numbered, Placed, Elsewhere \/ AtSessions
  PROVE  Numbered'
<1>1. IsFiniteSet(Met) /\ Cardinality(Met) \in Nat /\ client_id \in Nat \ {0}
  <2>1. Met \in SUBSET Peers
    BY DEF Met, TypeInv
  <2>2. IsFiniteSet(Met)
    BY <2>1, TcpServerAssumption, FS_Subset
  <2> QED
    BY <2>2, FS_CardinalityType DEF TypeInv
<1>2. \A p \in backlog : Cardinality(Met \cup {p}) = Cardinality(Met) + 1
  BY NextIdFree
<1>3. Cardinality(Met') \in Nat /\ Cardinality(Met') >= Cardinality(Met)
  BY <1>1, <1>2, MetGrows
<1>4. mishaps \subseteq mishaps'
  BY MishapsGrow
<1>5. Ids \subseteq Nat
  BY IdsFinite
<1>6. ASSUME NEW p \in Peers, AcceptNewClient(p) PROVE Numbered'
  <2>1. p \in backlog /\ client_id' = client_id + 1 /\ Met' = Met \cup {p}
    BY <1>6 DEF AcceptNewClient, Accepted, Met, TypeInv, peers
  <2>2. \A i \in Ids' : i \in Ids \/ i = client_id
    BY SessionsAfter
  <2>3. client_id' <= Cardinality(Met') + 1
    BY <1>1, <1>2, <2>1 DEF Numbered
  <2>4. "renumbered" \notin mishaps => \A i \in Ids' : i < client_id'
    <3> SUFFICES ASSUME "renumbered" \notin mishaps, NEW i \in Ids' PROVE i < client_id'
      OBVIOUS
    <3>1. i \in Ids => i \in Nat /\ i < client_id
      BY <1>5 DEF Numbered
    <3> QED
      BY <1>1, <2>1, <2>2, <3>1
  <2> QED
    BY <1>4, <2>3, <2>4 DEF Numbered
<1>7. CASE OtherConstructed
  <2>1. client_id' = 1 /\ "renumbered" \in mishaps'
    BY <1>7 DEF OtherConstructed
  <2> QED
    BY <1>3, <2>1 DEF Numbered
<1>8. CASE client_id' = client_id /\ ~\E p \in Peers : AcceptNewClient(p)
  <2>1. backlog \subseteq Peers
    BY DEF TypeInv
  <2>2. Ids' \subseteq Ids
    BY <1>8, <2>1, SessionsAfter
  <2>3. client_id' <= Cardinality(Met') + 1
    BY <1>1, <1>3, <1>8 DEF Numbered
  <2> QED
    BY <1>4, <1>8, <2>2, <2>3 DEF Numbered
<1> QED
  BY <1>6, <1>7, <1>8, MetGrows

\* A client is not accepted twice.
LEMMA OneSessionKept ==
  ASSUME TypeInv, Numbered, OneSession, Placed, Elsewhere \/ AtSessions
  PROVE  OneSession'
<1>1. Met \subseteq Met' /\ backlog \cap Met = {}
  BY MetGrows DEF Met
<1>2. \A i \in Ids' : \/ i \in Ids /\ sessions'[i].peer = sessions[i].peer
                      \/ /\ i = client_id
                         /\ \E p \in backlog : AcceptNewClient(p) /\ sessions'[i].peer = p
  BY SessionsAfter
<1>3. \A p : AcceptNewClient(p) => p \in Met'
  BY DEF AcceptNewClient, Accepted, Met, TypeInv, peers
<1>4. \A i \in Ids' : sessions'[i].peer \in Met'
  BY <1>1, <1>2, <1>3 DEF OneSession
<1>5. \A i, j \in Ids' : sessions'[i].peer = sessions'[j].peer => i = j
  <2>1. SUFFICES ASSUME NEW i \in Ids', NEW j \in Ids', sessions'[i].peer = sessions'[j].peer,
                        i # j
                 PROVE  FALSE
    OBVIOUS
  <2>2. \A h \in Ids : sessions[h].peer \notin backlog
    BY <1>1 DEF OneSession
  <2>3. i \in Ids /\ sessions'[i].peer = sessions[i].peer
        /\ j \in Ids /\ sessions'[j].peer = sessions[j].peer
    BY <1>2, <2>1, <2>2
  <2> QED
    BY <2>1, <2>3 DEF OneSession
<1>6. \A p \in Peers \ Met : received'[p] = received[p]
  <2>1. UNCHANGED received \/ (AtClient /\ \E k : Transmit(k))
    BY ReceivedBy
  <2>2. CASE UNCHANGED received
    BY <2>2
  <2>3. CASE AtClient /\ \E k : Transmit(k)
    <3>1. PICK s, d : received' = [received EXCEPT ![s] = d] /\ s = sessions[iter].peer
      BY <2>3 DEF Transmit
    <3>2. s \in Met
      BY <2>3, <3>1 DEF AtClient, OneSession, TypeInv
    <3> QED
      BY <3>1, <3>2 DEF TypeInv
  <2> QED
    BY <2>1, <2>2, <2>3
<1>7. \A p \in Peers \ Met' : received'[p] = <<>>
  BY <1>1, <1>6 DEF OneSession
<1> QED
  BY <1>4, <1>5, <1>7 DEF OneSession

-----------------------------------------------------------------------------
\* What is reported of the links.

\* The links of the clients with a session are up.
LEMMA LinksKnownKept ==
  ASSUME TypeInv, Numbered, Placed, LinksKnown, alive = "yes", Elsewhere \/ AtSessions
  PROVE  LinksKnown'
<1> DEFINE Up(i) == clientState'[i] = "LinkUp" <=> i \in Ids'
<1>0. /\ mConnected => Ids # {}
      /\ mSingleClientConnection => \A i, j \in Ids : i = j
      /\ \A i \in ClientIds : clientState[i] = "LinkUp" <=> i \in Ids
      /\ clientState \in [ClientIds -> {"none", "LinkUp", "LinkDown"}]
  BY DEF LinksKnown, TypeInv
<1>1. CASE Elsewhere
  BY <1>0, <1>1, ElsewhereEffect DEF LinksKnown
<1>2. ASSUME NEW p \in Peers, AcceptNewClient(p) PROVE LinksKnown'
  <2>1. Ids' = (Ids \ ToDrop) \cup {client_id}
    BY <1>2, AcceptEffect
  <2>2. mSingleClientConnection' => \A i, j \in Ids' : i = j
    <3>1. mSingleClientConnection' = mSingleClientConnection
      BY <1>2 DEF AcceptNewClient, Accepted, fixed
    <3>2. mSingleClientConnection => Ids' = {client_id}
      BY <2>1 DEF ToDrop
    <3> QED
      BY <3>1, <3>2
  <2>3. \A i \in ClientIds : Up(i)
    <3>1. \A i \in ClientIds :
            clientState'[i] = IF i = client_id THEN "LinkUp"
                              ELSE IF i \in ToDrop THEN "LinkDown" ELSE clientState[i]
      BY <1>2 DEF AcceptNewClient, Accepted
    <3> QED
      BY <1>0, <2>1, <3>1
  <2> QED
    BY <2>1, <2>2, <2>3 DEF LinksKnown
<1>3. ASSUME NEW closed \in SUBSET Ids, Receive(closed) PROVE LinksKnown'
  <2>1. Ids' = Ids \ closed
    BY <1>3, WithoutEffect DEF Receive, Received
  <2>2. mConnected' => Ids' # {}
    <3>1. mConnected' => mConnected /\ closed = {}
      BY <1>3, Zenon DEF Receive, Received
    <3> QED
      BY <1>0, <2>1, <3>1
  <2>3. mSingleClientConnection' = mSingleClientConnection
    BY <1>3 DEF Receive, Received, fixed
  <2>4. \A i \in ClientIds : Up(i)
    <3>1. \A i \in ClientIds :
            clientState'[i] = IF i \in closed THEN "LinkDown" ELSE clientState[i]
      BY <1>3 DEF Receive, Received
    <3> QED
      BY <1>0, <2>1, <3>1
  <2> QED
    BY <1>0, <2>1, <2>2, <2>3, <2>4 DEF LinksKnown
<1>4. ASSUME AtClient, NEW k \in 0 .. Len(Outgoing), Transmit(k),
             Keep(SubSeq(Outgoing, k + 1, Len(Outgoing)))
      PROVE  LinksKnown'
  <2>1. Ids' = Ids
    BY <1>4, KeepEffect
  <2>2. UNCHANGED <<mConnected, clientState, mSingleClientConnection>>
    BY <1>4 DEF Keep, Transmit, fixed
  <2> QED
    BY <1>0, <2>1, <2>2 DEF LinksKnown
<1>5. CASE SendAll
  BY <1>4, <1>5, SendAllKeeps
<1>6. ASSUME NEW k \in 0 .. Cardinality(Msgs), SendBlocked(k) PROVE LinksKnown'
  BY <1>4, <1>6, SendBlockedKeeps
<1>7. ASSUME NEW k \in 0 .. Cardinality(Msgs), SendFails(k) PROVE LinksKnown'
  <2>1. Ids' = Ids \ {iter}
    BY <1>7, WithoutEffect DEF SendFails, Failed
  <2>2. ~mConnected' /\ mSingleClientConnection' = mSingleClientConnection
    BY <1>7 DEF SendFails, Failed, Transmit, fixed
  <2>3. clientState' = [clientState EXCEPT ![iter] = "LinkDown"]
    BY <1>7 DEF SendFails, Failed
  <2>4. \A i \in ClientIds : Up(i)
    BY <1>0, <2>1, <2>3
  <2> QED
    BY <1>0, <2>1, <2>2, <2>4 DEF LinksKnown
<1>8. CASE Destroy
  BY <1>8 DEF Destroy, LinksKnown
<1> QED
  BY <1>1, <1>2, <1>3, <1>5, <1>6, <1>7, <1>8 DEF AtSessions

\* The sockets that are open are those of the sessions.
LEMMA SocketsOpenKept ==
  ASSUME TypeInv, Numbered, OneSession, Placed, SocketsOpen, Elsewhere \/ AtSessions
  PROVE  SocketsOpen'
<1> SUFFICES ASSUME "renumbered" \notin mishaps' PROVE open' = PeersOf(Ids)'
  BY DEF SocketsOpen
<1>0. "renumbered" \notin mishaps /\ open = PeersOf(Ids)
  BY MishapsGrow DEF SocketsOpen
<1>1. ASSUME NEW S, S \subseteq Ids, sessions' = Without(S), open' = open \ PeersOf(S)
      PROVE  open' = PeersOf(Ids)'
  <2>1. Ids' = Ids \ S /\ \A i \in Ids' : sessions'[i] = sessions[i]
    BY <1>1, WithoutEffect
  <2>2. PeersOf(Ids) \ PeersOf(S) = PeersOf(Ids \ S)
    BY <1>1 DEF PeersOf, OneSession
  <2>3. PeersOf(Ids)' = PeersOf(Ids \ S)
    BY <2>1 DEF PeersOf
  <2> QED
    BY <1>0, <1>1, <2>2, <2>3
<1>2. CASE Elsewhere
  BY <1>0, <1>2, ElsewhereEffect DEF PeersOf
<1>3. ASSUME NEW p \in Peers, AcceptNewClient(p) PROVE open' = PeersOf(Ids)'
  <2> DEFINE K == Ids \ ToDrop
  <2>1. /\ Ids' = K \cup {client_id}
        /\ \A i \in K : sessions'[i] = sessions[i]
        /\ client_id \notin K => sessions'[client_id] = [peer |-> p, msgsToSend |-> <<>>]
    BY <1>3, AcceptEffect
  <2>2. client_id \notin K
    <3>1. client_id \in Nat /\ \A i \in Ids : i < client_id
      BY <1>0 DEF Numbered, TypeInv
    <3> QED
      BY <3>1
  <2>3. open' = (open \ PeersOf(ToDrop)) \cup {p} /\ ToDrop \subseteq Ids
    BY <1>3 DEF AcceptNewClient, Accepted, ToDrop
  <2>4. PeersOf(Ids) \ PeersOf(ToDrop) = PeersOf(K)
    BY <2>3 DEF PeersOf, OneSession
  <2> HIDE DEF K
  <2>5. PeersOf(Ids)' = PeersOf(K) \cup {p}
    <3>1. PeersOf(Ids)' = {sessions'[i].peer : i \in K \cup {client_id}}
      BY <2>1 DEF PeersOf
    <3>2. sessions'[client_id].peer = p
      BY <2>1, <2>2
    <3> QED
      BY <2>1, <3>1, <3>2 DEF PeersOf
  <2> QED
    BY <1>0, <2>3, <2>4, <2>5
<1>4. ASSUME NEW closed \in SUBSET Ids, Receive(closed) PROVE open' = PeersOf(Ids)'
  BY <1>1, <1>4 DEF Receive, Received
<1>5. ASSUME AtClient, NEW k \in 0 .. Len(Outgoing), Transmit(k),
             Keep(SubSeq(Outgoing, k + 1, Len(Outgoing)))
      PROVE  open' = PeersOf(Ids)'
  <2>1. Ids' = Ids /\ open' = open
    BY <1>5, KeepEffect DEF Keep
  <2>2. \A i \in Ids : sessions'[i].peer = sessions[i].peer
    BY <1>5, KeepEffect
  <2> QED
    BY <1>0, <2>1, <2>2 DEF PeersOf
<1>6. CASE SendAll
  BY <1>5, <1>6, SendAllKeeps
<1>7. ASSUME NEW k \in 0 .. Cardinality(Msgs), SendBlocked(k) PROVE open' = PeersOf(Ids)'
  BY <1>5, <1>7, SendBlockedKeeps
<1>8. ASSUME NEW k \in 0 .. Cardinality(Msgs), SendFails(k) PROVE open' = PeersOf(Ids)'
  <2>1. {iter} \subseteq Ids /\ sessions' = Without({iter}) /\ open' = open \ PeersOf({iter})
    BY <1>8 DEF SendFails, Failed, AtClient, TypeInv
  <2> QED
    BY <1>1, <2>1
<1>9. CASE Destroy
  BY <1>9 DEF Destroy, PeersOf, Ids
<1> QED
  BY <1>2, <1>3, <1>4, <1>6, <1>7, <1>8, <1>9 DEF AtSessions

\* The status of the server's socket is that of the end of the last update.
LEMMA SocketReportedKept ==
  ASSUME TypeInv, SocketReported, Elsewhere \/ AtSessions
  PROVE  SocketReported'
<1> SUFFICES ASSUME "closed by send" \notin mishaps'
    PROVE  /\ rxPc' = "update" => (socketState' = "LinkUp" <=> mConnected')
           /\ rxPc' # "update" => (socketState' = "LinkUp" <=> initialConnectedState')
           /\ rxPc' = "report" => (currentConnectedState' <=> mConnected')
  BY DEF SocketReported
<1>0. /\ rxPc = "update" => (socketState = "LinkUp" <=> mConnected)
      /\ rxPc # "update" => (socketState = "LinkUp" <=> initialConnectedState)
      /\ rxPc = "report" => (currentConnectedState <=> mConnected)
  BY MishapsGrow DEF SocketReported
<1>1. ASSUME UNCHANGED <<rxPc, initialConnectedState, currentConnectedState, socketState,
                         mConnected>>
      PROVE  SocketReported'
  BY <1>0, <1>1 DEF SocketReported
<1>2. CASE BeginUpdate
  BY <1>0, <1>2 DEF BeginUpdate
<1>3. CASE AcceptNobody
  BY <1>0, <1>3 DEF AcceptNobody
<1>4. ASSUME NEW p \in Peers, AcceptNewClient(p) PROVE SocketReported'
  BY <1>0, <1>4 DEF AcceptNewClient, Accepted, SocketReported
<1>5. ASSUME NEW closed \in SUBSET Ids, Receive(closed) PROVE SocketReported'
  BY <1>0, <1>5 DEF Receive, Received, SocketReported
<1>6. CASE ReportSocket
  <2>1. CASE currentConnectedState
    BY <1>0, <1>6, <2>1 DEF ReportSocket, TypeInv
  <2>2. CASE ~currentConnectedState
    BY <1>0, <1>6, <2>2 DEF ReportSocket, TypeInv
  <2> QED
    BY <2>1, <2>2
<1>7. ASSUME NEW k, SendFails(k) PROVE FALSE
  BY <1>7 DEF SendFails, Failed
<1>8. ASSUME \/ \E m \in Msgs, i \in {0} \cup ClientIds : Send(m, i)
             \/ \E p \in Peers : Arrive(p)
             \/ OtherConstructed
             \/ TakeMsg \/ EnterSend \/ Skip \/ EndSend
             \/ DismissLoad \/ DismissStore \/ DismissTest \/ OnTimerEvent
             \/ SendAll \/ \E k \in 0 .. Cardinality(Msgs) : SendBlocked(k)
             \/ Destroy
      PROVE  UNCHANGED <<rxPc, initialConnectedState, currentConnectedState, socketState,
                         mConnected>>
  BY <1>8 DEF Send, Arrive, OtherConstructed, TakeMsg, EnterSend, Skip, EndSend, DismissLoad,
              DismissStore, DismissTest, OnTimerEvent, SendAll, SendBlocked, Transmit, Keep,
              Destroy, rx
<1>9. SocketReported' =>
        /\ rxPc' = "update" => (socketState' = "LinkUp" <=> mConnected')
        /\ rxPc' # "update" => (socketState' = "LinkUp" <=> initialConnectedState')
        /\ rxPc' = "report" => (currentConnectedState' <=> mConnected')
  BY DEF SocketReported
<1>10. CASE Elsewhere
  <2>1. CASE BeginUpdate \/ AcceptNobody \/ ReportSocket
    BY <1>2, <1>3, <1>6, <2>1
  <2>2. CASE ~(BeginUpdate \/ AcceptNobody \/ ReportSocket)
    <3>1. UNCHANGED <<rxPc, initialConnectedState, currentConnectedState, socketState,
                      mConnected>>
      BY <1>8, <1>10, <2>2 DEF Elsewhere
    <3> QED
      BY <1>1, <1>9, <3>1
  <2> QED
    BY <2>1, <2>2
<1>11. CASE AtSessions
  <2>1. CASE \/ \E p \in Peers : AcceptNewClient(p)
             \/ \E closed \in SUBSET Ids : Receive(closed)
    BY <1>4, <1>5, <1>9, <2>1
  <2>2. CASE ~(\/ \E p \in Peers : AcceptNewClient(p)
               \/ \E closed \in SUBSET Ids : Receive(closed))
    <3>1. UNCHANGED <<rxPc, initialConnectedState, currentConnectedState, socketState,
                      mConnected>>
      BY <1>7, <1>8, <1>11, <2>2 DEF AtSessions
    <3> QED
      BY <1>1, <1>9, <3>1
  <2> QED
    BY <2>1, <2>2
<1> QED
  BY <1>10, <1>11

-----------------------------------------------------------------------------
\* Sequences of messages.

\* A message is contained when it is at some place.
LEMMA ContainsIs ==
  ASSUME NEW s \in Seq(Msgs), NEW y
  PROVE  Contains(s, y) <=> \E n \in DOMAIN s : s[n] = y
BY LenProperties DEF Contains

\* A message is put behind others.
LEMMA AppendIs ==
  ASSUME NEW s \in Seq(Msgs), NEW x \in Msgs
  PROVE  /\ \A y : Contains(Append(s, x), y) <=> Contains(s, y) \/ y = x
         /\ Distinct(s) /\ ~Contains(s, x) => Distinct(Append(s, x))
<1> DEFINE a == Append(s, x)
<1>1. /\ Len(s) \in Nat /\ Len(a) = Len(s) + 1 /\ DOMAIN a = 1 .. Len(s) + 1
      /\ DOMAIN s = 1 .. Len(s)
      /\ \A i \in 1 .. Len(s) : a[i] = s[i]
      /\ a[Len(s) + 1] = x
  BY AppendProperties, LenProperties
<1>2. PICK l \in Nat : l = Len(s)
  BY <1>1
<1> HIDE DEF a
<1>3. \A y : Contains(a, y) <=> Contains(s, y) \/ y = x
  <2> SUFFICES ASSUME NEW y PROVE (\E i \in 1 .. l + 1 : a[i] = y) <=> (\E i \in 1 .. l : s[i] = y) \/ y = x
    BY <1>1, <1>2 DEF Contains
  <2>1. \A i \in 1 .. l + 1 : i \in 1 .. l \/ i = l + 1
    OBVIOUS
  <2>2. \A i \in 1 .. l : i \in 1 .. l + 1
    OBVIOUS
  <2>3. l + 1 \in 1 .. l + 1
    OBVIOUS
  <2> QED
    BY <1>1, <1>2, <2>1, <2>2, <2>3
<1>4. ASSUME Distinct(s), ~Contains(s, x) PROVE Distinct(a)
  <2>1. \A i \in 1 .. l : a[i] # x
    BY <1>1, <1>2, <1>4 DEF Contains
  <2>2. \A i, j \in 1 .. l : a[i] = a[j] => i = j
    BY <1>1, <1>2, <1>4 DEF Distinct
  <2>3. \A i \in 1 .. l + 1 : i \in 1 .. l \/ i = l + 1
    OBVIOUS
  <2> QED
    BY <1>1, <1>2, <2>1, <2>2, <2>3 DEF Distinct
<1> QED
  BY <1>3, <1>4 DEF a

\* The first message is taken.
LEMMA TailIs ==
  ASSUME NEW s \in Seq(Msgs), s # <<>>
  PROVE  /\ \A y : Contains(s, y) <=> y = Head(s) \/ Contains(Tail(s), y)
         /\ Distinct(s) => Distinct(Tail(s)) /\ ~Contains(Tail(s), Head(s))
<1> DEFINE t == Tail(s)
<1>1. /\ Len(s) \in Nat \ {0} /\ Len(t) = Len(s) - 1 /\ DOMAIN t = 1 .. Len(s) - 1
      /\ DOMAIN s = 1 .. Len(s)
      /\ \A i \in 1 .. Len(s) - 1 : t[i] = s[i + 1]
      /\ Head(s) = s[1]
  <2>1. Len(s) \in Nat \ {0} /\ DOMAIN s = 1 .. Len(s)
    BY EmptySeq, LenProperties
  <2>2. t \in Seq(Msgs) /\ Len(t) = Len(s) - 1 /\ \A i \in 1 .. Len(t) : t[i] = s[i + 1]
    BY HeadTailProperties
  <2>3. DOMAIN t = 1 .. Len(t)
    BY <2>2, LenProperties
  <2> QED
    BY <2>1, <2>2, <2>3
<1> HIDE DEF t
<1>2. PICK l \in Nat : l = Len(s) - 1 /\ Len(s) = l + 1
  <2>1. PICK k \in Nat \ {0} : k = Len(s)
    BY <1>1
  <2>2. k - 1 \in Nat /\ k = (k - 1) + 1
    OBVIOUS
  <2> QED
    BY <2>1, <2>2
<1>3. \A i \in 1 .. l + 1 : i = 1 \/ (i - 1 \in 1 .. l /\ s[i] = t[i - 1])
  <2> TAKE i \in 1 .. l + 1
  <2>1. i # 1 => i - 1 \in 1 .. l /\ (i - 1) + 1 = i
    OBVIOUS
  <2> QED
    BY <1>1, <1>2, <2>1
<1>4. \A i \in 1 .. l : i + 1 \in 1 .. l + 1 /\ t[i] = s[i + 1] /\ i + 1 # 1
  BY <1>1, <1>2
<1>5. \A y : Contains(s, y) <=> y = s[1] \/ Contains(t, y)
  <2> SUFFICES ASSUME NEW y PROVE (\E i \in 1 .. l + 1 : s[i] = y) <=> y = s[1] \/ \E i \in 1 .. l : t[i] = y
    BY <1>1, <1>2 DEF Contains
  <2>1. 1 \in 1 .. l + 1
    OBVIOUS
  <2> QED
    BY <1>3, <1>4, <2>1
<1>6. ASSUME Distinct(s) PROVE Distinct(t) /\ ~Contains(t, s[1])
  <2>1. \A i, j \in 1 .. l + 1 : s[i] = s[j] => i = j
    BY <1>1, <1>2, <1>6 DEF Distinct
  <2>2. \A i, j \in 1 .. l : t[i] = t[j] => i = j
    <3> TAKE i, j \in 1 .. l
    <3> HAVE t[i] = t[j]
    <3>1. i + 1 = j + 1
      BY <1>4, <2>1
    <3> QED
      BY <3>1
  <2>3. \A i \in 1 .. l : t[i] # s[1]
    <3>1. 1 \in 1 .. l + 1
      OBVIOUS
    <3> QED
      BY <1>4, <2>1, <3>1
  <2> QED
    BY <1>1, <1>2, <2>2, <2>3 DEF Distinct, Contains
<1> QED
  BY <1>1, <1>5, <1>6 DEF t

\* Messages are joined.
LEMMA ConcatIs ==
  ASSUME NEW s \in Seq(Msgs), NEW t \in Seq(Msgs)
  PROVE  \A y : Contains(s \o t, y) <=> Contains(s, y) \/ Contains(t, y)
<1> DEFINE a == s \o t
<1>1. PICK k \in Nat, l \in Nat : k = Len(s) /\ l = Len(t)
  BY LenProperties
<1>2. /\ Len(a) = k + l
      /\ \A i \in 1 .. k + l : a[i] = IF i <= k THEN s[i] ELSE t[i - k]
  BY <1>1, ConcatProperties
<1> HIDE DEF a
<1>3. \A i \in 1 .. k : i \in 1 .. k + l /\ a[i] = s[i]
  BY <1>2
<1>4. \A i \in 1 .. l : k + i \in 1 .. k + l /\ a[k + i] = t[i]
  <2> TAKE i \in 1 .. l
  <2>1. k + i \in 1 .. k + l /\ ~(k + i <= k) /\ (k + i) - k = i
    OBVIOUS
  <2> QED
    BY <1>2, <2>1
<1>5. \A i \in 1 .. k + l : (i \in 1 .. k /\ a[i] = s[i]) \/ (i - k \in 1 .. l /\ a[i] = t[i - k])
  BY <1>2
<1>6. \A y : Contains(a, y) <=> Contains(s, y) \/ Contains(t, y)
  <2> SUFFICES ASSUME NEW y
      PROVE (\E i \in 1 .. k + l : a[i] = y) <=> (\E i \in 1 .. k : s[i] = y) \/ (\E i \in 1 .. l : t[i] = y)
    BY <1>1, <1>2 DEF Contains
  <2> QED
    BY <1>3, <1>4, <1>5
<1> QED
  BY <1>6 DEF a

\* The first k messages, and the rest.
LEMMA SplitIs ==
  ASSUME NEW s \in Seq(Msgs), NEW k \in 0 .. Len(s)
  PROVE  LET u == SubSeq(s, 1, k)
             v == SubSeq(s, k + 1, Len(s)) IN
         /\ u \in Seq(Msgs) /\ v \in Seq(Msgs)
         /\ s = u \o v
         /\ \A y : Contains(s, y) <=> Contains(u, y) \/ Contains(v, y)
         /\ \A y : Contains(u, y) <=> \E j \in 1 .. k : s[j] = y
<1>1. Len(s) \in Nat /\ \A i \in 1 .. Len(s) : s[i] \in Msgs
  BY LenProperties, ElementOfSeq
<1>2. /\ SubSeq(s, 1, k) \in Seq(Msgs) /\ Len(SubSeq(s, 1, k)) = k
      /\ \A i \in 1 .. k : SubSeq(s, 1, k)[i] = s[i]
  <2>1. k \in Int /\ \A i \in 1 .. k : s[i] \in Msgs
    BY <1>1
  <2>2. /\ SubSeq(s, 1, k) \in Seq(Msgs) /\ Len(SubSeq(s, 1, k)) = IF 1 <= k THEN k - 1 + 1 ELSE 0
        /\ \A i \in 1 .. k - 1 + 1 : SubSeq(s, 1, k)[i] = s[1 + i - 1]
    BY <2>1, SubSeqProperties, 1 \in Int
  <2> QED
    BY <1>1, <2>2
<1>3. SubSeq(s, k + 1, Len(s)) \in Seq(Msgs)
  <2>1. k + 1 \in Int /\ Len(s) \in Int /\ \A i \in k + 1 .. Len(s) : s[i] \in Msgs
    BY <1>1
  <2> QED
    BY <2>1, SubSeqProperties
<1>4. s = SubSeq(s, 1, k) \o SubSeq(s, k + 1, Len(s))
  <2>1. 1 \in 1 .. Len(s) + 1 /\ k \in 1 - 1 .. Len(s) /\ Len(s) \in k .. Len(s)
    BY <1>1
  <2>2. SubSeq(s, 1, k) \o SubSeq(s, k + 1, Len(s)) = SubSeq(s, 1, Len(s))
    BY <2>1, ConcatAdjacentSubSeq
  <2> QED
    BY <2>2, SubSeqFull
<1>5. \A y : Contains(s, y) <=> Contains(SubSeq(s, 1, k), y) \/ Contains(SubSeq(s, k + 1, Len(s)), y)
  <2>1. PICK u \in Seq(Msgs), v \in Seq(Msgs) :
          u = SubSeq(s, 1, k) /\ v = SubSeq(s, k + 1, Len(s))
    BY <1>2, <1>3
  <2>2. s = u \o v
    BY <1>4, <2>1
  <2>3. \A y : Contains(u \o v, y) <=> Contains(u, y) \/ Contains(v, y)
    BY ConcatIs
  <2> QED
    BY <2>1, <2>2, <2>3
<1>6. \A y : Contains(SubSeq(s, 1, k), y) <=> \E j \in 1 .. k : s[j] = y
  BY <1>2 DEF Contains
<1> QED
  BY <1>2, <1>3, <1>4, <1>5, <1>6

\* What is in order stays in order when more is taken ...
LEMMA InOrderLonger ==
  ASSUME NEW s \in Seq(Msgs), NEW t \in Seq(Msgs), NEW x \in Msgs, InOrder(s, t)
  PROVE  InOrder(s, Append(t, x))
<1> DEFINE u == Append(t, x)
<1>1. \A y : Contains(t, y) => Contains(u, y)
  BY AppendIs
<1>2. /\ Len(t) \in Nat /\ DOMAIN t = 1 .. Len(t) /\ DOMAIN u = 1 .. Len(t) + 1
      /\ \A i \in 1 .. Len(t) : u[i] = t[i]
  BY AppendProperties, LenProperties
<1> HIDE DEF u
<1>3. \A i \in DOMAIN t : i \in DOMAIN u /\ u[i] = t[i]
  BY <1>2
<1>4. \A y, z : Before(t, y, z) => Before(u, y, z)
  BY <1>3, Zenon DEF Before
<1>5. InOrder(s, u)
  BY <1>1, <1>4, Zenon DEF InOrder
<1> QED
  BY <1>5 DEF u

\* ... and when the message taken last is put behind the others.
LEMMA InOrderAppend ==
  ASSUME NEW s \in Seq(Msgs), NEW t \in Seq(Msgs), InOrder(s, t), NEW x \in Msgs,
         Len(t) > 0, x = t[Len(t)], ~Contains(s, x)
  PROVE  InOrder(Append(s, x), t)
<1> DEFINE a == Append(s, x)
<1>1. PICK k \in Nat, l \in Nat : k = Len(t) /\ l = Len(s)
  BY LenProperties
<1>2. /\ DOMAIN s = 1 .. l /\ DOMAIN t = 1 .. k /\ DOMAIN a = 1 .. l + 1
      /\ \A i \in 1 .. l : a[i] = s[i]
      /\ a[l + 1] = x
  BY <1>1, AppendProperties, LenProperties
<1>3. k \in 1 .. k
  BY <1>1
<1>4. Contains(t, x)
  BY <1>1, <1>3 DEF Contains
<1> HIDE DEF a
<1>5. \A i \in 1 .. l : Contains(t, s[i]) /\ Before(t, s[i], x)
  <2> TAKE i \in 1 .. l
  <2>1. Contains(t, s[i]) /\ s[i] # x
    BY <1>1, <1>2 DEF InOrder, Contains
  <2>2. PICK m \in 1 .. k : t[m] = s[i]
    BY <1>1, <2>1 DEF Contains
  <2>3. m # k
    BY <1>1, <2>1, <2>2
  <2>4. m < k
    BY <2>2, <2>3
  <2> QED
    BY <1>1, <1>2, <1>3, <2>1, <2>2, <2>4 DEF Before
<1>6. \A i \in 1 .. l + 1 : i \in 1 .. l \/ i = l + 1
  OBVIOUS
<1>7. \A i \in DOMAIN a : Contains(t, a[i])
  BY <1>2, <1>4, <1>5, <1>6
<1>8. \A i, j \in DOMAIN a : i < j => Before(t, a[i], a[j])
  <2> SUFFICES ASSUME NEW i \in 1 .. l + 1, NEW j \in 1 .. l + 1, i < j
      PROVE Before(t, a[i], a[j])
    BY <1>2
  <2>1. i \in 1 .. l
    OBVIOUS
  <2>2. CASE j \in 1 .. l
    BY <1>2, <2>1, <2>2 DEF InOrder
  <2>3. CASE j = l + 1
    BY <1>2, <1>5, <2>1, <2>3
  <2> QED
    BY <1>6, <2>2, <2>3
<1>9. InOrder(a, t)
  BY <1>7, <1>8, Zenon DEF InOrder
<1> QED
  BY <1>9 DEF a

\* The first messages of some in order are in order.
LEMMA InOrderPart ==
  ASSUME NEW u \in Seq(Msgs), NEW v \in Seq(Msgs), NEW t, InOrder(u \o v, t)
  PROVE  InOrder(u, t)
<1> DEFINE a == u \o v
<1>1. PICK k \in Nat, l \in Nat : k = Len(u) /\ l = Len(v)
  BY LenProperties
<1>2. /\ DOMAIN u = 1 .. k /\ DOMAIN a = 1 .. k + l
      /\ \A i \in 1 .. k + l : a[i] = IF i <= k THEN u[i] ELSE v[i - k]
  BY <1>1, ConcatProperties, LenProperties
<1> HIDE DEF a
<1>3. \A i \in DOMAIN u : i \in DOMAIN a /\ a[i] = u[i]
  BY <1>2
<1>4. InOrder(a, t)
  BY DEF a
<1> QED
  BY <1>3, <1>4, Zenon DEF InOrder

\* Some of distinct messages, in order, are distinct.
LEMMA InOrderDistinct ==
  ASSUME NEW s \in Seq(Msgs), NEW t \in Seq(Msgs), InOrder(s, t), Distinct(t)
  PROVE  Distinct(s)
<1>1. \A i \in DOMAIN s : i \in Int
  BY LenProperties
<1>2. \A i \in DOMAIN t : i \in Int
  BY LenProperties
<1>3. \A y : ~Before(t, y, y)
  <2> SUFFICES ASSUME NEW y, Before(t, y, y) PROVE FALSE
    OBVIOUS
  <2>1. PICK m \in DOMAIN t, n \in DOMAIN t : m < n /\ t[m] = y /\ t[n] = y
    BY Zenon DEF Before
  <2>2. m = n
    BY <2>1 DEF Distinct
  <2> QED
    BY <1>2, <2>1, <2>2
<1>4. \A i, j \in DOMAIN s : s[i] = s[j] => ~(i < j)
  BY <1>3, Zenon DEF InOrder
<1>5. \A i, j \in DOMAIN s : s[i] = s[j] => i = j
  BY <1>1, <1>4
<1> QED
  BY <1>5, Zenon DEF Distinct

\* Joining sequences is associative.
LEMMA JoinTwice ==
  \A a, b, c \in Seq(Msgs) : (a \o b) \o c = a \o (b \o c)
BY ConcatAssociative

\* What is sent and what stays queued is what was sent and queued, and the new message.
Lengthened(r, q, x, u, v) == (r \o u) \o v = Append(r \o q, x)

\* So it is when u is sent and v stays queued of q and the new message x.
LEMMA StreamIs ==
  ASSUME NEW r \in Seq(Msgs), NEW q \in Seq(Msgs), NEW x \in Msgs,
         NEW u \in Seq(Msgs), NEW v \in Seq(Msgs)
  PROVE  u \o v = Append(q, x) => Lengthened(r, q, x, u, v)
<1>1. (r \o u) \o v = r \o (u \o v)
  BY JoinTwice, Zenon
<1>2. PICK w \in Seq(Msgs) : w = <<x>>
  <2>1. \A y \in Msgs : <<y>> \in Seq(Msgs)
    OBVIOUS
  <2> QED
    BY <2>1, Zenon
<1>3. Append(q, x) = q \o w
  BY <1>2, AppendIsConcat, Zenon
<1>4. (r \o q) \o w = r \o (q \o w)
  <2>1. \A b, c \in Seq(Msgs) : (r \o b) \o c = r \o (b \o c)
    BY JoinTwice
  <2>2. \A c \in Seq(Msgs) : (r \o q) \o c = r \o (q \o c)
    BY <2>1
  <2> QED
    BY <2>2
<1>5. r \o q \in Seq(Msgs)
  BY ConcatProperties
<1>6. Append(r \o q, x) = (r \o q) \o w
  BY <1>2, <1>5, AppendIsConcat, Zenon
<1> QED
  BY <1>1, <1>3, <1>4, <1>6, Zenon DEF Lengthened

-----------------------------------------------------------------------------
\* Where the messages are.

\* A message is queued once and taken once.
LEMMA PlacedKept ==
  ASSUME TypeInv, Placed, Elsewhere \/ AtSessions
  PROVE  Placed'
<1> USE DEF vars, fixed, ids, peers, queued, counts, rx, tx, hist
<1>1. ASSUME UNCHANGED <<msgsTxQueue, taken, pToSendMsg>>, txPc' = "idle" <=> txPc = "idle"
      PROVE  Placed'
  BY <1>1 DEF Placed
<1>2. ASSUME NEW m \in Msgs, NEW i, Send(m, i) PROVE Placed'
  <2>1. PICK q \in Seq(Msgs) : q = msgsTxQueue /\ msgsTxQueue' = Append(q, m)
    BY <1>2 DEF Send, TypeInv
  <2>2. Distinct(q) /\ ~Contains(q, m) /\ ~Contains(taken, m)
    BY <1>2, <2>1 DEF Send, Placed
  <2>3. Distinct(msgsTxQueue') /\ \A y : Contains(msgsTxQueue', y) <=> Contains(q, y) \/ y = m
    BY <2>1, <2>2, AppendIs
  <2>4. UNCHANGED <<taken, pToSendMsg, txPc>>
    BY <1>2 DEF Send
  <2> QED
    BY <2>1, <2>2, <2>3, <2>4 DEF Placed
<1>3. CASE TakeMsg
  <2>1. PICK q \in Seq(Msgs), t \in Seq(Msgs) : q = msgsTxQueue /\ t = taken
    BY DEF TypeInv
  <2>2. q # <<>> /\ Distinct(q) /\ Distinct(t) /\ \A m \in Msgs : ~(Contains(q, m) /\ Contains(t, m))
    BY <1>3, <2>1 DEF TakeMsg, Placed
  <2>3. PICK h \in Msgs : h = Head(q)
    BY <2>2, HeadTailProperties
  <2>4. /\ \A y : Contains(q, y) <=> y = h \/ Contains(Tail(q), y)
        /\ Distinct(Tail(q)) /\ ~Contains(Tail(q), h)
    BY <2>2, <2>3, TailIs
  <2>5. /\ \A y : Contains(Append(t, h), y) <=> Contains(t, y) \/ y = h
        /\ Distinct(Append(t, h))
    BY <2>2, <2>4, AppendIs
  <2>6. Len(Append(t, h)) > 0 /\ Append(t, h)[Len(Append(t, h))] = h
    BY AppendProperties, LenProperties
  <2>7. /\ taken' = Append(t, h) /\ msgsTxQueue' = Tail(q) /\ pToSendMsg' = <<h>>
        /\ txPc' = "send"
    BY <1>3, <2>1, <2>3 DEF TakeMsg
  <2> QED
    BY <2>2, <2>4, <2>5, <2>6, <2>7 DEF Placed
<1>4. CASE DismissTest
  BY <1>4 DEF DismissTest, Placed
<1>5. CASE Destroy
  <2>1. UNCHANGED <<taken, pToSendMsg, txPc>> /\ msgsTxQueue' = <<>>
    BY <1>5 DEF Destroy
  <2>2. Distinct(<<>>) /\ \A m : ~Contains(<<>>, m)
    BY DEF Distinct, Contains
  <2> QED
    BY <2>1, <2>2 DEF Placed
<1>6. CASE AtSessions /\ ~Destroy
  <2>1. UNCHANGED <<msgsTxQueue, taken, pToSendMsg, txPc>>
    BY <1>6 DEF AtSessions, AcceptNewClient, Accepted, Receive, Received, SendAll, SendBlocked,
                SendFails, Failed, Transmit
  <2> QED
    BY <1>1, <2>1
<1>7. ASSUME \/ \E p \in Peers : Arrive(p)
             \/ OtherConstructed \/ BeginUpdate \/ AcceptNobody \/ ReportSocket
             \/ EnterSend \/ Skip \/ EndSend
             \/ DismissLoad \/ DismissStore \/ OnTimerEvent
      PROVE  UNCHANGED <<msgsTxQueue, taken, pToSendMsg>> /\ (txPc' = "idle" <=> txPc = "idle")
  BY <1>7 DEF Arrive, OtherConstructed, BeginUpdate, AcceptNobody, ReportSocket, EnterSend, Skip,
              EndSend, DismissLoad, DismissStore, OnTimerEvent
<1>8. CASE Elsewhere
  BY <1>1, <1>2, <1>3, <1>4, <1>7, <1>8 DEF Elsewhere
<1> QED
  BY <1>5, <1>6, <1>8

-----------------------------------------------------------------------------
\* What each client gets.

\* What a client gets and will get are messages.
LEMMA StreamType ==
  ASSUME TypeInv, NEW i \in Ids
  PROVE  /\ Stream(i) \in Seq(Msgs)
         /\ sessions[i].peer \in Peers /\ received[sessions[i].peer] \in Seq(Msgs)
         /\ sessions[i].msgsToSend \in Seq(Msgs)
<1>1. sessions[i] \in Session
  BY DEF TypeInv
<1>2. sessions[i].peer \in Peers /\ sessions[i].msgsToSend \in Seq(Msgs)
  BY <1>1 DEF Session
<1>3. received[sessions[i].peer] \in Seq(Msgs)
  BY <1>2 DEF TypeInv
<1> QED
  BY <1>2, <1>3, ConcatProperties DEF Stream

\* The ids after one are those from its next one on.
LEMMA NextIdAbove ==
  ASSUME NEW S, S \subseteq Nat, 0 \notin S, NEW a \in Nat
  PROVE  \A i \in S : (NextId(S, a) # 0 /\ NextId(S, a) <= i) <=> i > a
<1> SUFFICES ASSUME NEW i \in S
    PROVE (NextId(S, a) # 0 /\ NextId(S, a) <= i) <=> i > a
  OBVIOUS
<1>0. PICK n : n = NextId(S, a)
  OBVIOUS
<1>1. \/ n = 0 /\ \A j \in S : ~(j > a)
      \/ n \in S /\ n > a /\ \A j \in S : j > a => n <= j
  BY <1>0, NextIdIs
<1>2. i \in Nat /\ (n \in S => n \in Nat /\ n # 0)
  OBVIOUS
<1>3. CASE n = 0 /\ \A j \in S : ~(j > a)
  BY <1>0, <1>3
<1>4. CASE n \in S /\ n > a /\ \A j \in S : j > a => n <= j
  <2>1. i > a => n <= i
    BY <1>4
  <2>2. n <= i => i > a
    BY <1>2, <1>4
  <2> QED
    BY <1>0, <1>2, <1>4, <2>1, <2>2
<1> QED
  BY <1>1, <1>3, <1>4

\* The loop goes on to the next session.
LEMMA AheadNext ==
  ASSUME TypeInv, txPc = "loop", iter # 0, txPc' = "loop", iter' = NextId(Ids, iter)
  PROVE  \A i \in Ids : Ahead(i)' <=> Ahead(i) /\ i # iter
<1>1. Ids \subseteq Nat /\ 0 \notin Ids /\ iter \in Nat
  BY IdsFinite DEF TypeInv
<1>2. \A i \in Ids : (iter' # 0 /\ iter' <= i) <=> i > iter
  BY <1>1, NextIdAbove
<1>3. \A i \in Ids : i \in Nat
  BY <1>1
<1>4. \A i \in Ids : i > iter <=> iter <= i /\ i # iter
  BY <1>1, <1>3
<1> QED
  BY <1>2, <1>4 DEF Ahead

\* Nothing that SendMsgToClient is about to send has been sent before.
LEMMA OrderedAlone ==
  ASSUME TypeInv, Placed, Ordered, Elsewhere
  PROVE  Ordered'
<1> USE DEF fixed, ids, peers, queued, counts, rx, tx, hist
<1>0. UNCHANGED <<sessions, received>> /\ Ids' = Ids /\ \A i \in Ids : Stream(i)' = Stream(i)
  BY ElsewhereEffect DEF Stream
<1>1. ASSUME UNCHANGED <<taken, pToSendMsg, txPc, iter, skipped, mClientId>>
      PROVE  Ordered'
  BY <1>0, <1>1 DEF Ordered, Served, Ahead, ForClient
<1>2. ASSUME UNCHANGED taken, txPc' \notin {"send", "loop"}
      PROVE  Ordered'
  BY <1>0, <1>2 DEF Ordered, Served, Ahead
<1>3. ASSUME NEW m \in Msgs, NEW i \in {0} \cup ClientIds, Send(m, i) PROVE Ordered'
  <2>1. UNCHANGED <<taken, pToSendMsg, txPc, iter, skipped>>
    BY <1>3 DEF Send
  <2>2. txPc = "loop" => pToSendMsg[1] # m
    BY <1>3, Sending DEF Send
  <2>3. txPc = "loop" => \A j : ForClient(pToSendMsg[1], j)' <=> ForClient(pToSendMsg[1], j)
    BY <1>3, <2>1, <2>2 DEF Send, ForClient, TypeInv
  <2> QED
    BY <1>0, <2>1, <2>3 DEF Ordered, Served, Ahead
<1>4. CASE TakeMsg
  <2>1. PICK h \in Msgs : h = Head(msgsTxQueue) /\ Contains(msgsTxQueue, h)
    <3>1. PICK q \in Seq(Msgs) : q = msgsTxQueue /\ q # <<>>
      BY <1>4 DEF TakeMsg, TypeInv
    <3>2. PICK h \in Msgs : h = Head(q)
      BY <3>1, HeadTailProperties
    <3> QED
      BY <3>1, <3>2, TailIs
  <2>2. ~Contains(taken, h) /\ taken' = Append(taken, h) /\ taken \in Seq(Msgs)
    BY <1>4, <2>1 DEF TakeMsg, Placed, TypeInv
  <2>3. \A s \in Seq(Msgs) : InOrder(s, taken) => InOrder(s, taken')
    BY <2>2, InOrderLonger
  <2>4. \A s \in Seq(Msgs) : InOrder(s, taken) => ~Contains(s, h)
    <3> SUFFICES ASSUME NEW s \in Seq(Msgs), InOrder(s, taken), Contains(s, h) PROVE FALSE
      OBVIOUS
    <3>1. PICK a \in DOMAIN s : s[a] = h
      BY ContainsIs
    <3> QED
      BY <2>2, <3>1 DEF InOrder
  <2>5. \A p \in Peers : InOrder(received'[p], taken')
    BY <1>0, <2>3 DEF Ordered, TypeInv
  <2>6. pToSendMsg'[1] = h /\ txPc' = "send"
    BY <1>4, <2>1 DEF TakeMsg
  <2>7. ASSUME NEW i \in Ids PROVE Served(i)'
    <3>1. Stream(i) \in Seq(Msgs) /\ InOrder(Stream(i), taken)
      BY StreamType DEF Ordered, Served
    <3> QED
      BY <1>0, <2>3, <2>4, <2>6, <3>1 DEF Served, Ahead
  <2> QED
    BY <1>0, <2>5, <2>7 DEF Ordered
<1>5. CASE EnterSend
  <2>1. UNCHANGED <<taken, pToSendMsg>> /\ txPc = "send" /\ txPc' = "loop"
        /\ iter' = NextId(Ids, 0)
    BY <1>5 DEF EnterSend
  <2>2. Ids \subseteq Nat /\ 0 \notin Ids
    BY IdsFinite
  <2>3. \A i \in Ids : (iter' # 0 /\ iter' <= i) <=> i > 0
    BY <2>1, <2>2, NextIdAbove
  <2>4. \A i \in Ids : i > 0
    <3> TAKE i \in Ids
    <3>1. i \in Nat /\ i # 0
      BY <2>2
    <3> QED
      BY <3>1
  <2>5. \A i \in Ids : Ahead(i) /\ Ahead(i)'
    BY <2>1, <2>3, <2>4 DEF Ahead
  <2> QED
    BY <1>0, <2>1, <2>5 DEF Ordered, Served
<1>6. CASE Skip
  <2>1. /\ UNCHANGED <<taken, pToSendMsg, txPc, skipped, mClientId>> /\ txPc = "loop"
        /\ iter # 0 /\ iter' = NextId(Ids, iter) /\ ~ForClient(pToSendMsg[1], iter)
    BY <1>6 DEF Skip
  <2>2. \A i \in Ids : Ahead(i)' <=> Ahead(i) /\ i # iter
    BY <2>1, AheadNext
  <2>3. \A j : ForClient(pToSendMsg[1], j)' <=> ForClient(pToSendMsg[1], j)
    BY <2>1 DEF ForClient
  <2> QED
    BY <1>0, <2>1, <2>2, <2>3 DEF Ordered, Served
<1>7. ASSUME \/ \E p \in Peers : Arrive(p)
             \/ OtherConstructed \/ BeginUpdate \/ AcceptNobody \/ ReportSocket \/ OnTimerEvent
      PROVE  UNCHANGED <<taken, pToSendMsg, txPc, iter, skipped, mClientId>>
  BY <1>7 DEF Arrive, OtherConstructed, BeginUpdate, AcceptNobody, ReportSocket, OnTimerEvent
<1>8. ASSUME EndSend \/ DismissLoad \/ DismissStore \/ DismissTest
      PROVE  UNCHANGED taken /\ txPc' \notin {"send", "loop"}
  BY <1>8 DEF EndSend, DismissLoad, DismissStore, DismissTest
<1> QED
  BY <1>1, <1>2, <1>3, <1>4, <1>5, <1>6, <1>7, <1>8 DEF Elsewhere

\* What the session at the iterator gets is longer by the new message; no other's changes.
LEMMA KeepStream ==
  ASSUME TypeInv, OneSession, Placed, AtClient, NEW k \in 0 .. Len(Outgoing), Transmit(k),
         Keep(SubSeq(Outgoing, k + 1, Len(Outgoing)))
  PROVE  /\ Ids' = Ids /\ iter \in Ids
         /\ \A i \in Ids : Stream(i)' = IF i = iter THEN Append(Stream(i), pToSendMsg[1])
                                        ELSE Stream(i)
<1>1. iter \in Ids /\ Outgoing = Append(sessions[iter].msgsToSend, pToSendMsg[1])
      /\ Outgoing \in Seq(Msgs) /\ txPc = "loop"
  BY OutgoingIs
<1>2. PICK x \in Msgs : x = pToSendMsg[1]
  BY <1>1, Sending
<1>3. PICK p \in Peers, r \in Seq(Msgs), q \in Seq(Msgs) :
        /\ p = sessions[iter].peer /\ r = received[p] /\ q = sessions[iter].msgsToSend
  BY <1>1, StreamType
<1>4. PICK o \in Seq(Msgs) : o = Outgoing /\ o = Append(q, x) /\ k \in 0 .. Len(o)
  BY <1>1, <1>2, <1>3
<1>5. PICK u \in Seq(Msgs), v \in Seq(Msgs) :
        u = SubSeq(o, 1, k) /\ v = SubSeq(o, k + 1, Len(o)) /\ o = u \o v
  <2>1. SubSeq(o, 1, k) \in Seq(Msgs) /\ SubSeq(o, k + 1, Len(o)) \in Seq(Msgs)
        /\ o = SubSeq(o, 1, k) \o SubSeq(o, k + 1, Len(o))
    BY <1>4, SplitIs
  <2> QED
    BY <2>1, Zenon
<1>6. /\ Ids' = Ids
      /\ \A i \in Ids \ {iter} : sessions'[i] = sessions[i]
      /\ sessions'[iter].peer = p /\ sessions'[iter].msgsToSend = v
  BY <1>3, <1>4, <1>5, KeepEffect
<1>7. \A s \in Peers : received'[s] = IF s = p THEN r \o u ELSE received[s]
  BY <1>3, <1>4, <1>5, TransmitEffect
<1>8. PICK j \in Ids : j = iter
  BY <1>1
<1>9. Stream(j)' = Append(Stream(j), x)
  <2>1. Stream(j) = r \o q
    BY <1>3, <1>8 DEF Stream
  <2>2. Stream(j)' = (r \o u) \o v
    BY <1>3, <1>6, <1>7, <1>8 DEF Stream
  <2>3. u \o v = Append(q, x) => Lengthened(r, q, x, u, v)
    BY StreamIs, Zenon
  <2> QED
    BY <1>4, <1>5, <2>1, <2>2, <2>3, Zenon DEF Lengthened
<1>10. \A i \in Ids \ {iter} : Stream(i)' = Stream(i)
  <2> TAKE i \in Ids \ {iter}
  <2>1. sessions[i].peer \in Peers /\ sessions[i].peer # p
    BY <1>1, <1>3, StreamType DEF OneSession
  <2> QED
    BY <1>6, <1>7, <2>1 DEF Stream
<1> QED
  BY <1>1, <1>2, <1>6, <1>8, <1>9, <1>10

\* What is sent to a client is in order, and the session at the iterator is served.
LEMMA TransmitOrdered ==
  ASSUME TypeInv, OneSession, Placed, Ordered, AtClient,
         NEW k \in 0 .. Len(Outgoing), Transmit(k)
  PROVE  /\ \A p \in Peers : InOrder(received'[p], taken')
         /\ InOrder(Append(Stream(iter), pToSendMsg[1]), taken')
         /\ Contains(Append(Stream(iter), pToSendMsg[1]), pToSendMsg[1])
<1>1. /\ iter \in Ids /\ Outgoing = Append(sessions[iter].msgsToSend, pToSendMsg[1])
      /\ Outgoing \in Seq(Msgs) /\ txPc = "loop" /\ iter # 0 /\ iter \in Nat
  BY OutgoingIs, IdsFinite DEF AtClient
<1>2. PICK x \in Msgs : x = pToSendMsg[1] /\ x = taken[Len(taken)]
  BY <1>1, Sending
<1>3. PICK p \in Peers, r \in Seq(Msgs), q \in Seq(Msgs) :
        /\ p = sessions[iter].peer /\ r = received[p] /\ q = sessions[iter].msgsToSend
  BY <1>1, StreamType
<1>4. PICK o \in Seq(Msgs) : o = Outgoing /\ o = Append(q, x) /\ k \in 0 .. Len(o)
  BY <1>1, <1>2, <1>3
<1>5. PICK b \in Seq(Msgs) : b = Stream(iter) /\ b = r \o q
  BY <1>1, <1>3, StreamType DEF Stream
<1>6. Ahead(iter)
  BY <1>1 DEF Ahead
<1>7. InOrder(b, taken) /\ ~Contains(b, x)
  BY <1>1, <1>2, <1>5, <1>6 DEF Ordered, Served
<1>8. taken \in Seq(Msgs) /\ Len(taken) > 0 /\ taken' = taken
  BY <1>1 DEF TypeInv, Placed, Transmit
<1>9. InOrder(Append(b, x), taken)
  BY <1>2, <1>7, <1>8, InOrderAppend
<1>10. PICK u \in Seq(Msgs), v \in Seq(Msgs) : u = SubSeq(o, 1, k) /\ o = u \o v
  <2>1. SubSeq(o, 1, k) \in Seq(Msgs) /\ SubSeq(o, k + 1, Len(o)) \in Seq(Msgs)
        /\ o = SubSeq(o, 1, k) \o SubSeq(o, k + 1, Len(o))
    BY <1>4, SplitIs
  <2> QED
    BY <2>1, Zenon
<1>11. (r \o u) \o v = Append(b, x)
  <2>1. u \o v = Append(q, x) => Lengthened(r, q, x, u, v)
    BY StreamIs, Zenon
  <2> QED
    BY <1>4, <1>5, <1>10, <2>1, Zenon DEF Lengthened
<1>12. PICK w \in Seq(Msgs) : w = r \o u
  BY ConcatProperties
<1>13. InOrder(w, taken)
  <2>1. InOrder(w \o v, taken)
    BY <1>9, <1>11, <1>12, Zenon
  <2> QED
    BY <2>1, InOrderPart
<1>14. \A s \in Peers : received'[s] = IF s = p THEN w ELSE received[s]
  BY <1>3, <1>4, <1>10, <1>12, TransmitEffect
<1>15. \A s \in Peers : InOrder(received'[s], taken)
  BY <1>13, <1>14 DEF Ordered
<1>16. Contains(Append(b, x), x)
  BY AppendIs
<1> QED
  BY <1>2, <1>5, <1>8, <1>9, <1>15, <1>16

\* The order is kept when sessions are closed or added, and when a message is sent.
LEMMA OrderedAtSessions ==
  ASSUME TypeInv, Numbered, OneSession, Placed, Ordered, AtSessions
  PROVE  Ordered'
<1> USE DEF fixed, ids, peers, queued, counts, rx, tx, hist
<1>1. ASSUME UNCHANGED <<received, taken, txPc, pToSendMsg>>, txPc # "loop",
             \A i \in Ids' : \/ i \in Ids /\ sessions'[i] = sessions[i]
                             \/ Stream(i)' = <<>>
      PROVE  Ordered'
  <2>1. \A t : InOrder(<<>>, t)
    BY DEF InOrder
  <2>2. \A y : ~Contains(<<>>, y)
    BY DEF Contains
  <2>3. ASSUME NEW i \in Ids' PROVE Served(i)'
    <3>1. CASE i \in Ids /\ sessions'[i] = sessions[i]
      <4>1. Stream(i)' = Stream(i) /\ Served(i)
        BY <1>1, <3>1 DEF Stream, Ordered
      <4> QED
        BY <1>1, <4>1 DEF Served, Ahead
    <3>2. CASE Stream(i)' = <<>>
      BY <1>1, <2>1, <2>2, <3>2 DEF Served, Ahead
    <3> QED
      BY <1>1, <3>1, <3>2
  <2> QED
    BY <1>1, <2>3 DEF Ordered
<1>2. ASSUME NEW p \in Peers, AcceptNewClient(p) PROVE Ordered'
  <2> DEFINE K == Ids \ ToDrop
  <2>1. /\ Ids' = K \cup {client_id}
        /\ \A i \in K : sessions'[i] = sessions[i]
        /\ client_id \notin K => sessions'[client_id] = [peer |-> p, msgsToSend |-> <<>>]
    BY <1>2, AcceptEffect
  <2>2. UNCHANGED <<received, taken, txPc, pToSendMsg>> /\ txPc # "loop" /\ p \in backlog
    BY <1>2 DEF AcceptNewClient, Accepted, LockedByTx
  <2>3. received[p] = <<>>
    BY <2>2 DEF OneSession, Met
  <2>4. ASSUME NEW i, i = client_id, i \notin K PROVE Stream(i)' = <<>>
    <3>1. sessions'[i].peer = p /\ sessions'[i].msgsToSend = <<>>
      BY <2>1, <2>4
    <3>2. Stream(i)' = <<>> \o <<>>
      BY <2>2, <2>3, <3>1 DEF Stream
    <3>3. <<>> \o <<>> = <<>>
      OBVIOUS
    <3> QED
      BY <3>2, <3>3
  <2>5. K \subseteq Ids
    OBVIOUS
  <2> HIDE DEF K
  <2>6. \A i \in Ids' : (i \in Ids /\ sessions'[i] = sessions[i]) \/ Stream(i)' = <<>>
    BY <2>1, <2>4, <2>5
  <2> QED
    BY <1>1, <2>2, <2>6
<1>3. ASSUME NEW closed \in SUBSET Ids, Receive(closed) PROVE Ordered'
  <2>1. UNCHANGED <<received, taken, txPc, pToSendMsg>> /\ txPc # "loop"
        /\ sessions' = Without(closed)
    BY <1>3 DEF Receive, Received, LockedByTx
  <2>2. \A i \in Ids' : i \in Ids /\ sessions'[i] = sessions[i]
    BY <2>1, WithoutEffect
  <2> QED
    BY <1>1, <2>1, <2>2
<1>4. ASSUME AtClient, NEW k \in 0 .. Len(Outgoing), Transmit(k),
             Keep(SubSeq(Outgoing, k + 1, Len(Outgoing)))
      PROVE  Ordered'
  <2>1. /\ Ids' = Ids /\ iter \in Ids
        /\ \A i \in Ids : Stream(i)' = IF i = iter THEN Append(Stream(i), pToSendMsg[1])
                                       ELSE Stream(i)
    BY <1>4, KeepStream
  <2>2. /\ \A p \in Peers : InOrder(received'[p], taken')
        /\ InOrder(Append(Stream(iter), pToSendMsg[1]), taken')
        /\ Contains(Append(Stream(iter), pToSendMsg[1]), pToSendMsg[1])
    BY <1>4, TransmitOrdered
  <2>3. /\ UNCHANGED <<taken, pToSendMsg, txPc, skipped, mClientId>> /\ txPc = "loop"
        /\ iter # 0 /\ iter' = NextId(Ids, iter)
    BY <1>4 DEF Transmit, Keep, AtClient
  <2>4. \A i \in Ids : Ahead(i)' <=> Ahead(i) /\ i # iter
    BY <2>3, AheadNext
  <2>5. \A j : ForClient(pToSendMsg[1], j)' <=> ForClient(pToSendMsg[1], j)
    BY <2>3 DEF ForClient
  <2>6. ASSUME NEW i \in Ids \ {iter} PROVE Served(i)'
    BY <2>1, <2>3, <2>4, <2>5, <2>6 DEF Served, Ordered
  <2>7. ASSUME NEW i \in Ids, i = iter PROVE Served(i)'
    <3>1. /\ InOrder(Stream(i)', taken') /\ ~Ahead(i)'
          /\ Contains(Stream(i)', pToSendMsg'[1])
      BY <2>1, <2>2, <2>3, <2>4, <2>7
    <3> QED
      BY <3>1 DEF Served
  <2> QED
    BY <2>1, <2>2, <2>6, <2>7 DEF Ordered
<1>5. CASE SendAll
  BY <1>4, <1>5, SendAllKeeps
<1>6. ASSUME NEW k \in 0 .. Cardinality(Msgs), SendBlocked(k) PROVE Ordered'
  BY <1>4, <1>6, SendBlockedKeeps
<1>7. ASSUME NEW k \in 0 .. Cardinality(Msgs), SendFails(k) PROVE Ordered'
  <2>0. AtClient /\ k < Len(Outgoing) /\ Transmit(k)
    BY <1>7 DEF SendFails, Failed
  <2>1. Len(Outgoing) \in Nat /\ iter \in Ids /\ txPc = "loop" /\ iter # 0
    BY <2>0, OutgoingIs DEF AtClient
  <2>2. PICK n : n = NextId(Ids, iter)
    OBVIOUS
  <2>3. /\ sessions' = Without({iter})
        /\ iter' = IF n = 0 THEN 0 ELSE NextId(Ids, n)
        /\ skipped' = (skipped \cup {n}) \ {0}
        /\ UNCHANGED <<taken, pToSendMsg, txPc, mClientId>>
    BY <1>7, <2>2 DEF SendFails, Failed, Transmit
  <2>4. \A p \in Peers : InOrder(received'[p], taken')
    <3>1. k \in 0 .. Len(Outgoing)
      BY <2>0, <2>1
    <3> QED
      BY <2>0, <3>1, TransmitOrdered
  <2>5. Ids' = Ids \ {iter} /\ \A i \in Ids' : sessions'[i] = sessions[i]
    BY <2>3, WithoutEffect
  <2>6. \A i \in Ids' : Stream(i)' = Stream(i)
    <3> TAKE i \in Ids'
    <3>1. i \in Ids /\ i # iter /\ sessions[i].peer \in Peers
      BY <2>5, StreamType
    <3>2. sessions[i].peer # sessions[iter].peer
      BY <2>1, <3>1 DEF OneSession
    <3>3. received'[sessions[i].peer] = received[sessions[i].peer]
      BY <2>0, <3>1, <3>2 DEF Transmit, TypeInv
    <3> QED
      BY <2>5, <3>3 DEF Stream
  <2>7. \A i \in Ids' : Ahead(i)' <=> Ahead(i) /\ i # n
    <3>0. Ids \subseteq Nat /\ 0 \notin Ids /\ iter \in Nat
      BY <2>1, IdsFinite
    <3>1. SUFFICES ASSUME NEW i \in Ids, i # iter
                   PROVE  (iter' # 0 /\ iter' <= i) <=> iter <= i /\ i # n
      BY <2>1, <2>3, <2>5 DEF Ahead
    <3>2. (n # 0 /\ n <= i) <=> i > iter
      BY <2>2, <3>0, NextIdAbove
    <3>3. n = 0 \/ (n \in Nat /\ n \in Ids)
      BY <2>2, <3>0, NextIdIs
    <3>4. n # 0 => ((iter' # 0 /\ iter' <= i) <=> i > n)
      BY <2>3, <3>0, <3>3, NextIdAbove
    <3>5. i \in Nat /\ i # 0
      BY <3>0
    <3> QED
      BY <2>3, <3>0, <3>1, <3>2, <3>3, <3>4, <3>5
  <2>8. \A j : ForClient(pToSendMsg[1], j)' <=> ForClient(pToSendMsg[1], j)
    BY <2>3 DEF ForClient
  <2>9. ASSUME NEW i \in Ids' PROVE Served(i)'
    <3>1. i \in Ids /\ Served(i) /\ i # 0
      BY <2>5, IdsFinite DEF Ordered
    <3>2. i \notin skipped' => i \notin skipped /\ i # n
      BY <2>3, <3>1
    <3> QED
      BY <2>1, <2>3, <2>6, <2>7, <2>8, <3>1, <3>2 DEF Served
  <2> QED
    BY <2>4, <2>9 DEF Ordered
<1>8. CASE Destroy
  <2>1. Ids' = {} /\ received' = received /\ taken' = taken
    BY <1>8 DEF Destroy, Ids
  <2> QED
    BY <2>1 DEF Ordered
<1> QED
  BY <1>2, <1>3, <1>5, <1>6, <1>7, <1>8 DEF AtSessions

-----------------------------------------------------------------------------
\* The references to a message.

Queued(m) == IF Contains(msgsTxQueue, m) THEN 1 ELSE 0

InHand(m) ==
  IF pToSendMsg # <<m>> THEN 0
  ELSE CASE txPc \in {"send", "loop"} -> 2
         [] txPc \in {"dismiss", "store"} -> 1
         [] txPc = "test" -> 0

\* The Tx thread has two references to its message, then one, then none.
LEMMA InHandIs ==
  ASSUME TypeInv, Placed, NEW m \in Msgs
  PROVE  /\ InHand(m) \in Nat
         /\ pToSendMsg # <<m>> => InHand(m) = 0
         /\ pToSendMsg = <<m>> =>
              /\ txPc # "idle"
              /\ txPc \in {"send", "loop"} => InHand(m) = 2
              /\ txPc \in {"dismiss", "store"} => InHand(m) = 1
              /\ txPc = "test" => InHand(m) = 0
<1>1. pToSendMsg = <<m>> => txPc # "idle"
  BY DEF Placed
<1>2. txPc \in {"idle", "send", "loop", "dismiss", "store", "test"}
  BY DEF TypeInv
<1> QED
  BY <1>1, <1>2 DEF InHand

\* A message is referred to by the queue, by sessions and by the Tx thread.
LEMMA ReferencesIs ==
  ASSUME TypeInv, Placed, NEW m \in Msgs
  PROVE  /\ References(m) = Queued(m) + HeldBy(m, Ids) + InHand(m)
         /\ References(m) \in Nat
         /\ Queued(m) \in {0, 1} /\ HeldBy(m, Ids) \in Nat /\ InHand(m) \in Nat
<1>1. References(m) = Queued(m) + HeldBy(m, Ids) + InHand(m)
  BY DEF References, Queued, InHand
<1>2. Queued(m) \in {0, 1}
  BY DEF Queued
<1> QED
  BY <1>1, <1>2, HeldByType, InHandIs

\* How many of the sessions in I, as f gives them, hold m in their queue.
Holding(f, I, m) == Cardinality({i \in I : Contains(f[i].msgsToSend, m)})

\* The sessions that hold a message are some of S and some of the others.
LEMMA HoldingSplit ==
  ASSUME NEW f, NEW I, IsFiniteSet(I), NEW S, S \subseteq I, NEW m
  PROVE  /\ Holding(f, I, m) = Holding(f, S, m) + Holding(f, I \ S, m)
         /\ Holding(f, S, m) \in Nat /\ Holding(f, I \ S, m) \in Nat
<1> DEFINE A == {i \in S : Contains(f[i].msgsToSend, m)}
           B == {i \in I \ S : Contains(f[i].msgsToSend, m)}
           C == {i \in I : Contains(f[i].msgsToSend, m)}
<1>1. A \cup B = C /\ A \cap B = {}
  OBVIOUS
<1>2. IsFiniteSet(A) /\ IsFiniteSet(B)
  <2>1. A \in SUBSET I /\ B \in SUBSET I
    OBVIOUS
  <2> QED
    BY <2>1, FS_Subset
<1>3. Holding(f, I, m) = Cardinality(C) /\ Holding(f, S, m) = Cardinality(A)
      /\ Holding(f, I \ S, m) = Cardinality(B)
  BY DEF Holding
<1> HIDE DEF A, B, C
<1>4. Cardinality(A \cup B) = Cardinality(A) + Cardinality(B) - Cardinality(A \cap B)
  BY <1>2, FS_Union
<1>5. PICK a \in Nat, b \in Nat : a = Cardinality(A) /\ b = Cardinality(B)
  BY <1>2, FS_CardinalityType
<1>6. Cardinality(A \cap B) = 0
  BY <1>1, FS_EmptySet
<1>7. Cardinality(C) = a + b
  <2>1. Cardinality(C) = Cardinality(A) + Cardinality(B) - Cardinality(A \cap B)
    BY <1>1, <1>4, Zenon
  <2> QED
    BY <1>5, <1>6, <2>1
<1> QED
  BY <1>3, <1>5, <1>7

\* A session holds a message or it does not.
LEMMA HoldingOne ==
  ASSUME NEW f, NEW i, NEW m
  PROVE  Holding(f, {i}, m) = IF Contains(f[i].msgsToSend, m) THEN 1 ELSE 0
<1>1. CASE Contains(f[i].msgsToSend, m)
  <2>1. {j \in {i} : Contains(f[j].msgsToSend, m)} = {i}
    BY <1>1
  <2> QED
    BY <1>1, <2>1, FS_Singleton DEF Holding
<1>2. CASE ~Contains(f[i].msgsToSend, m)
  <2>1. {j \in {i} : Contains(f[j].msgsToSend, m)} = {}
    BY <1>2
  <2> QED
    BY <1>2, <2>1, FS_EmptySet DEF Holding
<1> QED
  BY <1>1, <1>2

\* A session, and the others.
LEMMA HoldingWithout ==
  ASSUME NEW f, NEW I, IsFiniteSet(I), NEW i \in I, NEW m
  PROVE  /\ Holding(f, I, m) = (IF Contains(f[i].msgsToSend, m) THEN 1 ELSE 0)
                               + Holding(f, I \ {i}, m)
         /\ Holding(f, I \ {i}, m) \in Nat
<1>1. {i} \subseteq I
  OBVIOUS
<1>2. \A S : S \subseteq I => /\ Holding(f, I, m) = Holding(f, S, m) + Holding(f, I \ S, m)
                              /\ Holding(f, I \ S, m) \in Nat
  BY HoldingSplit
<1>3. Holding(f, I, m) = Holding(f, {i}, m) + Holding(f, I \ {i}, m)
      /\ Holding(f, I \ {i}, m) \in Nat
  BY <1>1, <1>2
<1> QED
  BY <1>3, HoldingOne

\* The sessions that are closed, and the others.
LEMMA HeldSplit ==
  ASSUME TypeInv, NEW S, S \subseteq Ids, NEW m
  PROVE  /\ HeldBy(m, Ids) = HeldBy(m, S) + HeldBy(m, Ids \ S)
         /\ HeldBy(m, S) \in Nat /\ HeldBy(m, Ids \ S) \in Nat
<1>1. \A I : HeldBy(m, I) = Holding(sessions, I, m)
  BY DEF HeldBy, Holding
<1>2. IsFiniteSet(Ids)
  BY IdsFinite
<1>3. /\ Holding(sessions, Ids, m) = Holding(sessions, S, m) + Holding(sessions, Ids \ S, m)
      /\ Holding(sessions, S, m) \in Nat /\ Holding(sessions, Ids \ S, m) \in Nat
  BY <1>2, HoldingSplit, Zenon
<1> QED
  BY <1>1, <1>3, Zenon

\* A message that is not taken yet is held by no session.
LEMMA NotTakenNotHeld ==
  ASSUME TypeInv, Ordered, NEW m \in Msgs, NEW S, S \subseteq Ids, ~Contains(taken, m)
  PROVE  HeldBy(m, S) = 0
<1>1. ASSUME NEW i \in Ids PROVE ~Contains(sessions[i].msgsToSend, m)
  <2>1. PICK r \in Seq(Msgs), q \in Seq(Msgs), s \in Seq(Msgs) :
          q = sessions[i].msgsToSend /\ r = received[sessions[i].peer] /\ s = Stream(i) /\ s = r \o q
    BY StreamType DEF Stream
  <2>2. Contains(q, m) => Contains(s, m)
    BY <2>1, ConcatIs
  <2>3. InOrder(s, taken)
    BY <2>1 DEF Ordered, Served
  <2>4. ASSUME Contains(s, m) PROVE FALSE
    <3>1. PICK a \in DOMAIN s : s[a] = m
      BY <2>4, ContainsIs
    <3> QED
      BY <2>3, <3>1 DEF InOrder
  <2> QED
    BY <2>1, <2>2, <2>4
<1>2. {i \in S : Contains(sessions[i].msgsToSend, m)} = {}
  BY <1>1
<1> QED
  BY <1>2, FS_EmptySet DEF HeldBy

\* A message whose count and references stay as they are.
LEMMA CountsSame ==
  ASSUME NEW m, Counts(m),
         UNCHANGED <<mUseCnt, deletes, taken, pToSendMsg, loaded>>,
         References(m)' = References(m),
         alive' = "yes" => alive = "yes",
         txPc' = "store" => txPc = "store"
  PROVE  Counts(m)'
BY DEF Counts

\* A message that loses t references by as many dismissals.
LEMMA CountsDismissed ==
  ASSUME TypeInv, Placed, NEW m \in Msgs, Counts(m), NEW t \in Nat,
         References(m)' \in Nat, References(m) = t + References(m)',
         t = 0 => mUseCnt'[m] = mUseCnt[m] /\ deletes'[m] = deletes[m],
         t > 0 => /\ mUseCnt'[m] = mUseCnt[m] - t
                  /\ deletes'[m] = deletes[m] + (IF mUseCnt[m] = t THEN 1 ELSE 0),
         UNCHANGED <<taken, pToSendMsg, txPc, loaded>>,
         alive' = "yes" => alive = "yes",
         t > 0 => Contains(taken, m) \/ alive' # "yes",
         t > 0 /\ pToSendMsg = <<m>> => txPc # "store" /\ References(m)' > 0
  PROVE  Counts(m)'
<1>1. PICK u \in Int, d \in Int, g \in Nat :
        u = mUseCnt[m] /\ d = deletes[m] /\ g = References(m)' /\ u = t + g
  BY DEF TypeInv, Counts
<1>2. CASE t = 0
  <2>1. mUseCnt'[m] = u /\ deletes'[m] = d /\ References(m)' = References(m)
    BY <1>1, <1>2
  <2> QED
    BY <1>1, <2>1 DEF Counts
<1>3. CASE t > 0
  <2>1. mUseCnt'[m] = g /\ d = 0 /\ deletes'[m] = IF g = 0 THEN 1 ELSE 0
    <3>1. u > 0 /\ d = 0
      BY <1>1, <1>3 DEF Counts
    <3>2. u = t <=> g = 0
      BY <1>1
    <3> QED
      BY <1>1, <1>3, <3>1, <3>2
  <2>2. mUseCnt'[m] = References(m)'
    BY <1>1, <2>1
  <2>3. pToSendMsg = <<m>> => deletes'[m] = 0 /\ txPc # "store"
    BY <1>1, <1>3, <2>1
  <2>4. alive' = "yes" => Contains(taken, m)
    BY <1>3
  <2>5. deletes'[m] = 0 \/ (deletes'[m] = 1 /\ mUseCnt'[m] = 0)
    BY <1>1, <2>1
  <2>6. mUseCnt'[m] = 0 => deletes'[m] = 1
    BY <1>1, <2>1
  <2> QED
    BY <2>2, <2>3, <2>4, <2>5, <2>6 DEF Counts
<1> QED
  BY <1>2, <1>3

\* The steps that leave the sessions alone keep the counts.
LEMMA CountedAlone ==
  ASSUME TypeInv, Placed, Ordered, alive = "yes", Elsewhere, NEW m \in Msgs, Counts(m)
  PROVE  Counts(m)'
<1> USE DEF fixed, ids, peers, queued, counts, rx, tx, hist
<1>0. sessions' = sessions /\ Ids' = Ids /\ HeldBy(m, Ids)' = HeldBy(m, Ids)
  BY ElsewhereEffect DEF HeldBy
<1>1. /\ References(m) = Queued(m) + HeldBy(m, Ids) + InHand(m)
      /\ Queued(m) \in {0, 1} /\ HeldBy(m, Ids) \in Nat /\ InHand(m) \in Nat
  BY ReferencesIs
<1>2. /\ References(m)' = Queued(m)' + HeldBy(m, Ids) + InHand(m)'
      /\ TypeInv' /\ Placed'
  <2>1. TypeInv' /\ Placed'
    BY OtherTypes, PlacedKept
  <2>2. References(m)' = Queued(m)' + HeldBy(m, Ids)' + InHand(m)'
    BY DEF References, Queued, InHand
  <2> QED
    BY <1>0, <2>1, <2>2
<1>3. ASSUME \/ \E p \in Peers : Arrive(p)
             \/ OtherConstructed \/ BeginUpdate \/ AcceptNobody \/ ReportSocket
             \/ EnterSend \/ Skip \/ OnTimerEvent
      PROVE  Counts(m)'
  <2>1. /\ UNCHANGED <<mUseCnt, deletes, msgsTxQueue, taken, pToSendMsg, loaded>>
        /\ \/ txPc' = txPc
           \/ txPc = "send" /\ txPc' = "loop"
    BY <1>3 DEF Arrive, OtherConstructed, BeginUpdate, AcceptNobody, ReportSocket, EnterSend,
                Skip, OnTimerEvent
  <2>2. Queued(m)' = Queued(m) /\ InHand(m)' = InHand(m)
    <3>1. CASE txPc' = txPc
      BY <2>1, <3>1 DEF Queued, InHand
    <3>2. CASE txPc = "send" /\ txPc' = "loop"
      BY <2>1, <3>2 DEF Queued, InHand
    <3> QED
      BY <2>1, <3>1, <3>2
  <2>3. References(m)' = References(m)
    BY <1>1, <1>2, <2>2
  <2> QED
    BY <2>1, <2>3, CountsSame
<1>4. ASSUME NEW n \in Msgs, NEW i, Send(n, i) PROVE Counts(m)'
  <2>1. /\ UNCHANGED <<deletes, taken, pToSendMsg, loaded, txPc, alive>>
        /\ mUseCnt' = [mUseCnt EXCEPT ![n] = 1]
        /\ ~Contains(taken, n) /\ ~Contains(msgsTxQueue, n)
    BY <1>4 DEF Send
  <2>2. Contains(msgsTxQueue', m) <=> Contains(msgsTxQueue, m) \/ m = n
    <3>1. PICK q \in Seq(Msgs) : q = msgsTxQueue /\ msgsTxQueue' = Append(q, n)
      BY <1>4 DEF Send, TypeInv
    <3> QED
      BY <3>1, AppendIs
  <2>3. InHand(m)' = InHand(m)
    BY <2>1 DEF InHand
  <2>4. CASE m = n
    <3>1. HeldBy(m, Ids) = 0
      BY <2>1, <2>4, NotTakenNotHeld
    <3>2. pToSendMsg # <<m>>
      <4>1. ASSUME pToSendMsg = <<m>> PROVE FALSE
        <5>1. txPc # "idle" /\ pToSendMsg[1] = m
          BY <4>1 DEF Placed
        <5> QED
          BY <2>1, <2>4, <5>1, Sending
      <4> QED
        BY <4>1
    <3>3. InHand(m) = 0
      BY <3>2 DEF InHand
    <3>4. Queued(m)' = 1
      BY <2>2, <2>4 DEF Queued
    <3>5. References(m)' = 1
      BY <1>2, <2>3, <3>1, <3>3, <3>4
    <3>6. mUseCnt'[m] = 1 /\ deletes'[m] = 0
      BY <2>1, <2>4 DEF TypeInv, Counts
    <3> QED
      BY <2>1, <3>2, <3>5, <3>6 DEF Counts
  <2>5. CASE m # n
    <3>1. Queued(m)' = Queued(m)
      BY <2>2, <2>5 DEF Queued
    <3>2. References(m)' = References(m)
      BY <1>1, <1>2, <2>3, <3>1
    <3>3. mUseCnt'[m] = mUseCnt[m]
      BY <2>1, <2>5 DEF TypeInv
    <3> QED
      BY <2>1, <3>2, <3>3 DEF Counts
  <2> QED
    BY <2>4, <2>5
<1>5. CASE TakeMsg
  <2>1. PICK q \in Seq(Msgs), h \in Msgs : q = msgsTxQueue /\ q # <<>> /\ h = Head(q)
    <3>1. PICK q \in Seq(Msgs) : q = msgsTxQueue /\ q # <<>>
      BY <1>5 DEF TakeMsg, TypeInv
    <3> QED
      BY <3>1, HeadTailProperties
  <2>2. /\ \A y : Contains(q, y) <=> y = h \/ Contains(Tail(q), y)
        /\ ~Contains(Tail(q), h)
    BY <2>1, TailIs DEF Placed
  <2>3. /\ UNCHANGED <<deletes, loaded, alive>> /\ txPc = "idle" /\ txPc' = "send"
        /\ mUseCnt' = [mUseCnt EXCEPT ![h] = @ + 1]
        /\ msgsTxQueue' = Tail(q) /\ pToSendMsg' = <<h>> /\ taken' = Append(taken, h)
        /\ pToSendMsg = <<>>
    BY <1>5, <2>1 DEF TakeMsg, Placed
  <2>4. Contains(taken', m) <=> Contains(taken, m) \/ m = h
    <3>1. PICK s \in Seq(Msgs) : s = taken
      BY DEF TypeInv
    <3> QED
      BY <2>3, <3>1, AppendIs
  <2>5. InHand(m) = 0
    BY <2>3 DEF InHand
  <2>6. CASE m = h
    <3>1. Queued(m) = 1 /\ Queued(m)' = 0 /\ InHand(m)' = 2
      BY <2>1, <2>2, <2>3, <2>6 DEF Queued, InHand
    <3>2. mUseCnt'[m] = mUseCnt[m] + 1
      BY <2>3, <2>6 DEF TypeInv
    <3>3. ~Contains(taken, m)
      BY <2>1, <2>2, <2>6 DEF Placed
    <3>4. deletes'[m] = 0
      BY <2>3, <3>3 DEF Counts
    <3>5. PICK u \in Nat : u = HeldBy(m, Ids)
      BY <1>1
    <3>6. References(m) = 1 + u /\ References(m)' = u + 2
      BY <1>1, <1>2, <2>5, <3>1, <3>5
    <3>7. mUseCnt[m] = 1 + u
      BY <3>6 DEF Counts
    <3>8. mUseCnt'[m] = References(m)' /\ mUseCnt'[m] # 0
      BY <3>2, <3>6, <3>7
    <3> QED
      BY <2>3, <3>4, <3>8 DEF Counts
  <2>7. CASE m # h
    <3>1. Queued(m)' = Queued(m)
      BY <2>1, <2>2, <2>3, <2>7 DEF Queued
    <3>2. InHand(m)' = 0 /\ pToSendMsg' # <<m>>
      BY <2>3, <2>7 DEF InHand
    <3>3. mUseCnt'[m] = mUseCnt[m]
      BY <2>3, <2>7 DEF TypeInv
    <3>4. References(m)' = References(m)
      BY <1>1, <1>2, <2>5, <3>1, <3>2
    <3>5. pToSendMsg # <<m>>
      BY <2>3
    <3> QED
      BY <2>3, <2>4, <2>7, <3>2, <3>3, <3>4, <3>5 DEF Counts
  <2> QED
    BY <2>6, <2>7
<1>6. CASE EndSend
  <2>1. /\ UNCHANGED <<msgsTxQueue, pToSendMsg, taken, loaded, alive>>
        /\ txPc = "loop" /\ txPc' = "dismiss"
        /\ Dismissed([n \in Msgs |-> IF pToSendMsg = <<n>> THEN 1 ELSE 0])
    BY <1>6 DEF EndSend
  <2>2. Queued(m)' = Queued(m)
    BY <2>1 DEF Queued
  <2>3. PICK times \in [Msgs -> Nat] :
          times[m] = (IF pToSendMsg = <<m>> THEN 1 ELSE 0) /\ Dismissed(times)
    BY <2>1
  <2>4. /\ times[m] = 0 /\ mUseCnt[m] >= 0 =>
             mUseCnt'[m] = mUseCnt[m] /\ deletes'[m] = deletes[m]
        /\ times[m] > 0 /\ mUseCnt[m] >= times[m] =>
             /\ mUseCnt'[m] = mUseCnt[m] - times[m]
             /\ deletes'[m] = deletes[m] + (IF mUseCnt[m] = times[m] THEN 1 ELSE 0)
    BY <2>3, DismissedIs
  <2>5. PICK v \in Nat : v = Queued(m) + HeldBy(m, Ids)
    BY <1>1
  <2>6. mUseCnt[m] = v + InHand(m) /\ deletes[m] \in Int
    BY <1>1, <2>5 DEF Counts, TypeInv
  <2>7. CASE pToSendMsg = <<m>>
    <3>1. InHand(m) = 2 /\ InHand(m)' = 1
      BY <2>1, <2>7 DEF InHand
    <3>2. mUseCnt'[m] = v + 1 /\ deletes'[m] = deletes[m]
      BY <2>3, <2>4, <2>6, <2>7, <3>1
    <3>3. References(m)' = v + 1
      BY <1>1, <1>2, <2>2, <2>5, <3>1
    <3> QED
      BY <2>1, <2>7, <3>2, <3>3 DEF Counts
  <2>8. CASE pToSendMsg # <<m>>
    <3>1. InHand(m) = 0 /\ InHand(m)' = 0
      BY <2>1, <2>8 DEF InHand
    <3>2. mUseCnt'[m] = mUseCnt[m] /\ deletes'[m] = deletes[m]
      BY <2>3, <2>4, <2>6, <2>8, <3>1
    <3>3. References(m)' = References(m)
      BY <1>1, <1>2, <2>2, <3>1
    <3> QED
      BY <2>1, <2>8, <3>2, <3>3 DEF Counts
  <2> QED
    BY <2>7, <2>8
<1>7. CASE DismissLoad
  <2>1. /\ UNCHANGED <<mUseCnt, deletes, msgsTxQueue, pToSendMsg, taken, alive>>
        /\ loaded' = mUseCnt[pToSendMsg[1]]
        /\ txPc = "dismiss" /\ txPc' = "store"
    BY <1>7 DEF DismissLoad
  <2>2. Queued(m)' = Queued(m) /\ InHand(m)' = InHand(m)
    BY <2>1 DEF Queued, InHand
  <2>3. References(m)' = References(m)
    BY <1>1, <1>2, <2>2
  <2>4. pToSendMsg = <<m>> => loaded' = mUseCnt[m]
    BY <2>1
  <2> QED
    BY <2>1, <2>3, <2>4 DEF Counts
<1>8. CASE DismissStore
  <2>1. /\ UNCHANGED <<deletes, msgsTxQueue, pToSendMsg, taken, alive>>
        /\ mUseCnt' = [mUseCnt EXCEPT ![pToSendMsg[1]] = Max({loaded - 1, 0})]
        /\ txPc = "store" /\ txPc' = "test"
    BY <1>8 DEF DismissStore
  <2>2. Queued(m)' = Queued(m)
    BY <2>1 DEF Queued
  <2>3. CASE pToSendMsg = <<m>>
    <3>1. InHand(m) = 1 /\ InHand(m)' = 0
      BY <2>1, <2>3 DEF InHand
    <3>2. PICK v \in Nat : v = Queued(m) + HeldBy(m, Ids)
      BY <1>1
    <3>3. mUseCnt[m] = v + 1 /\ References(m)' = v
      BY <1>1, <1>2, <2>2, <3>1, <3>2 DEF Counts
    <3>4. loaded = v + 1 /\ deletes[m] = 0
      BY <2>1, <2>3, <3>3 DEF Counts
    <3>5. Max({loaded - 1, 0}) = v
      <4>1. loaded - 1 = v
        BY <3>4
      <4>2. Max({v, 0}) = IF v >= 0 THEN v ELSE 0
        BY MaxOfTwo
      <4> QED
        BY <4>1, <4>2
    <3>6. mUseCnt'[m] = v
      BY <2>1, <2>3, <3>5 DEF TypeInv
    <3> QED
      BY <2>1, <2>3, <3>3, <3>4, <3>6 DEF Counts
  <2>4. CASE pToSendMsg # <<m>>
    <3>1. InHand(m) = 0 /\ InHand(m)' = 0
      BY <2>1, <2>4 DEF InHand
    <3>2. pToSendMsg[1] # m
      BY <2>1, <2>4, Sending
    <3>3. mUseCnt'[m] = mUseCnt[m]
      BY <2>1, <3>2 DEF TypeInv
    <3>4. References(m)' = References(m)
      BY <1>1, <1>2, <2>2, <3>1
    <3> QED
      BY <2>1, <2>4, <3>3, <3>4 DEF Counts
  <2> QED
    BY <2>3, <2>4
<1>9. CASE DismissTest
  <2>1. /\ UNCHANGED <<mUseCnt, msgsTxQueue, taken, alive>>
        /\ deletes' = [deletes EXCEPT ![pToSendMsg[1]] =
                         IF mUseCnt[pToSendMsg[1]] = 0 THEN @ + 1 ELSE @]
        /\ pToSendMsg' = <<>> /\ txPc = "test" /\ txPc' = "idle"
    BY <1>9 DEF DismissTest
  <2>2. Queued(m)' = Queued(m)
    BY <2>1 DEF Queued
  <2>3. InHand(m) = 0 /\ InHand(m)' = 0 /\ pToSendMsg' # <<m>>
    BY <2>1 DEF InHand
  <2>4. References(m)' = References(m)
    BY <1>1, <1>2, <2>2, <2>3
  <2>5. CASE pToSendMsg = <<m>>
    <3>1. deletes[m] = 0 /\ Contains(taken, m)
      BY <2>1, <2>5, Sending DEF Counts
    <3>2. deletes'[m] = IF mUseCnt[m] = 0 THEN 1 ELSE 0
      BY <2>1, <2>5, <3>1 DEF TypeInv
    <3> QED
      BY <2>1, <2>3, <2>4, <3>1, <3>2 DEF Counts
  <2>6. CASE pToSendMsg # <<m>>
    <3>1. pToSendMsg[1] # m
      BY <2>1, <2>6, Sending
    <3>2. deletes'[m] = deletes[m]
      BY <2>1, <3>1 DEF TypeInv
    <3> QED
      BY <2>1, <2>3, <2>4, <2>6, <3>2 DEF Counts
  <2> QED
    BY <2>5, <2>6
<1> QED
  BY <1>3, <1>4, <1>5, <1>6, <1>7, <1>8, <1>9 DEF Elsewhere

\* The messages queued for the sessions that are closed are dismissed.
LEMMA CountsClosing ==
  ASSUME TypeInv, Placed, Ordered, NEW m \in Msgs, Counts(m), NEW S, S \subseteq Ids,
         Dismissed([n \in Msgs |-> HeldBy(n, S)]), HeldBy(m, Ids)' = HeldBy(m, Ids \ S),
         UNCHANGED <<msgsTxQueue, taken, pToSendMsg, txPc, loaded, alive>>,
         pToSendMsg = <<m>> /\ HeldBy(m, S) > 0 => txPc \notin {"store", "test"}
  PROVE  Counts(m)'
<1>1. /\ References(m) = Queued(m) + HeldBy(m, Ids) + InHand(m)
      /\ Queued(m) \in {0, 1} /\ HeldBy(m, Ids) \in Nat /\ InHand(m) \in Nat
  BY ReferencesIs
<1>2. PICK t \in Nat, g \in Nat : t = HeldBy(m, S) /\ g = HeldBy(m, Ids \ S)
                                  /\ HeldBy(m, Ids) = t + g
  BY HeldSplit
<1>3. Queued(m)' = Queued(m) /\ InHand(m)' = InHand(m)
  BY DEF Queued, InHand
<1>4. References(m)' = Queued(m)' + HeldBy(m, Ids)' + InHand(m)'
  BY DEF References, Queued, InHand
<1>5. PICK v \in Nat : References(m)' = v /\ References(m) = t + v /\ v >= InHand(m)
  <2>1. References(m)' = Queued(m) + g + InHand(m)
    BY <1>2, <1>3, <1>4
  <2>2. References(m) = t + (Queued(m) + g + InHand(m))
    BY <1>1, <1>2
  <2> QED
    BY <1>1, <2>1, <2>2
<1>6. mUseCnt[m] = t + v
  BY <1>5 DEF Counts
<1>7. PICK times \in [Msgs -> Nat] : times[m] = t /\ Dismissed(times)
  <2>1. [n \in Msgs |-> HeldBy(n, S)] \in [Msgs -> Nat]
    BY HeldByType
  <2> QED
    BY <1>2, <2>1
<1>8. /\ t = 0 => mUseCnt'[m] = mUseCnt[m] /\ deletes'[m] = deletes[m]
      /\ t > 0 => /\ mUseCnt'[m] = mUseCnt[m] - t
                  /\ deletes'[m] = deletes[m] + (IF mUseCnt[m] = t THEN 1 ELSE 0)
  <2>1. /\ times[m] = 0 /\ mUseCnt[m] >= 0 =>
             mUseCnt'[m] = mUseCnt[m] /\ deletes'[m] = deletes[m]
        /\ times[m] > 0 /\ mUseCnt[m] >= times[m] =>
             /\ mUseCnt'[m] = mUseCnt[m] - times[m]
             /\ deletes'[m] = deletes[m] + (IF mUseCnt[m] = times[m] THEN 1 ELSE 0)
    BY <1>7, DismissedIs
  <2>2. t + v >= 0 /\ t + v >= t
    OBVIOUS
  <2> QED
    BY <1>6, <1>7, <2>1, <2>2
<1>9. t > 0 => Contains(taken, m)
  BY <1>2, NotTakenNotHeld
<1>10. t > 0 /\ pToSendMsg = <<m>> => txPc # "store" /\ References(m)' > 0
  <2>1. SUFFICES ASSUME t > 0, pToSendMsg = <<m>> PROVE txPc # "store" /\ References(m)' > 0
    OBVIOUS
  <2>2. txPc \notin {"store", "test", "idle"}
    BY <1>2, <2>1, InHandIs
  <2>3. InHand(m) \in {1, 2}
    BY <2>1, <2>2, InHandIs DEF TypeInv
  <2> QED
    BY <1>5, <2>2, <2>3
<1> QED
  BY <1>5, <1>8, <1>9, <1>10, CountsDismissed

\* The parts of a sequence of distinct messages have none in common.
LEMMA DistinctParts ==
  ASSUME NEW u \in Seq(Msgs), NEW v \in Seq(Msgs), Distinct(u \o v)
  PROVE  Distinct(v) /\ \A y : ~(Contains(u, y) /\ Contains(v, y))
<1> DEFINE a == u \o v
<1>1. PICK k \in Nat, l \in Nat : k = Len(u) /\ l = Len(v)
  BY LenProperties
<1>2. /\ DOMAIN u = 1 .. k /\ DOMAIN v = 1 .. l /\ DOMAIN a = 1 .. k + l
      /\ \A i \in 1 .. k + l : a[i] = IF i <= k THEN u[i] ELSE v[i - k]
  BY <1>1, ConcatProperties, LenProperties
<1> HIDE DEF a
<1>3. \A i \in 1 .. k : i \in 1 .. k + l /\ a[i] = u[i]
  BY <1>2
<1>4. \A i \in 1 .. l : k + i \in 1 .. k + l /\ a[k + i] = v[i]
  <2> TAKE i \in 1 .. l
  <2>1. k + i \in 1 .. k + l /\ ~(k + i <= k) /\ (k + i) - k = i
    OBVIOUS
  <2> QED
    BY <1>2, <2>1
<1>5. \A i, j \in 1 .. k + l : a[i] = a[j] => i = j
  BY <1>2 DEF a, Distinct
<1>6. \A i, j \in 1 .. l : v[i] = v[j] => i = j
  <2> TAKE i, j \in 1 .. l
  <2> HAVE v[i] = v[j]
  <2>1. k + i = k + j
    BY <1>4, <1>5
  <2> QED
    BY <2>1
<1>7. ASSUME NEW i \in 1 .. k, NEW j \in 1 .. l, u[i] = v[j] PROVE FALSE
  <2>1. i = k + j
    BY <1>3, <1>4, <1>5, <1>7
  <2> QED
    BY <2>1
<1>8. \A y : ~(Contains(u, y) /\ Contains(v, y))
  BY <1>1, <1>7 DEF Contains
<1> QED
  BY <1>2, <1>6, <1>8 DEF Distinct

\* The messages for a client are distinct, and only the last one is new.
LEMMA OutgoingDistinct ==
  ASSUME TypeInv, Placed, Ordered, AtClient
  PROVE  /\ Distinct(Outgoing)
         /\ \A y : Contains(Outgoing, y) <=>
                     Contains(sessions[iter].msgsToSend, y) \/ y = pToSendMsg[1]
         /\ ~Contains(sessions[iter].msgsToSend, pToSendMsg[1])
<1>1. /\ iter \in Ids /\ Outgoing = Append(sessions[iter].msgsToSend, pToSendMsg[1])
      /\ txPc = "loop" /\ iter # 0 /\ iter \in Nat
  BY OutgoingIs, IdsFinite DEF AtClient
<1>2. PICK x \in Msgs : x = pToSendMsg[1]
  BY <1>1, Sending
<1>3. PICK r \in Seq(Msgs), q \in Seq(Msgs), b \in Seq(Msgs) :
        q = sessions[iter].msgsToSend /\ b = r \o q /\ b = Stream(iter)
  BY <1>1, StreamType DEF Stream
<1>4. Ahead(iter)
  BY <1>1 DEF Ahead
<1>5. InOrder(b, taken) /\ ~Contains(b, x)
  BY <1>1, <1>2, <1>3, <1>4 DEF Ordered, Served
<1>6. Distinct(b)
  BY <1>5, InOrderDistinct DEF TypeInv, Placed
<1>7. Distinct(q)
  <2>1. Distinct(r \o q)
    BY <1>3, <1>6, Zenon
  <2> QED
    BY <2>1, DistinctParts
<1>8. ~Contains(q, x)
  <2>1. Contains(r \o q, x) <=> Contains(r, x) \/ Contains(q, x)
    BY ConcatIs
  <2>2. ~Contains(r \o q, x)
    BY <1>3, <1>5, Zenon
  <2> QED
    BY <2>1, <2>2
<1>9. /\ \A y : Contains(Append(q, x), y) <=> Contains(q, y) \/ y = x
      /\ Distinct(q) /\ ~Contains(q, x) => Distinct(Append(q, x))
  BY AppendIs
<1> QED
  BY <1>1, <1>2, <1>3, <1>7, <1>8, <1>9

\* A socket that takes no more: the messages it has taken lose a reference, the new one
\* gains one when it is queued.
LEMMA CountsBlocked ==
  ASSUME TypeInv, Placed, Ordered, NEW k \in 0 .. Cardinality(Msgs), SendBlocked(k),
         NEW m \in Msgs, Counts(m)
  PROVE  Counts(m)'
<1> USE DEF fixed, ids, peers, queued, counts, rx, tx, hist
<1>1. /\ AtClient /\ k \in 0 .. Len(Outgoing) /\ Transmit(k)
      /\ Keep(SubSeq(Outgoing, k + 1, Len(Outgoing)))
  BY SendBlockedKeeps
<1>2. /\ iter \in Ids /\ Outgoing \in Seq(Msgs) /\ txPc = "loop" /\ Len(Outgoing) \in Nat
      /\ Outgoing[Len(Outgoing)] = pToSendMsg[1]
  BY <1>1, OutgoingIs
<1>3. PICK x \in Msgs : x = pToSendMsg[1] /\ pToSendMsg = <<x>>
  BY <1>2, Sending
<1>4. PICK o \in Seq(Msgs), u \in Seq(Msgs), v \in Seq(Msgs) :
        /\ o = Outgoing /\ u = SubSeq(o, 1, k) /\ v = SubSeq(o, k + 1, Len(o))
        /\ o = u \o v
        /\ \A y : Contains(o, y) <=> Contains(u, y) \/ Contains(v, y)
        /\ \A y : Contains(u, y) <=> \E j \in 1 .. k : o[j] = y
  <2>1. PICK o \in Seq(Msgs) : o = Outgoing /\ k \in 0 .. Len(o)
    BY <1>1, <1>2
  <2>2. /\ SubSeq(o, 1, k) \in Seq(Msgs) /\ SubSeq(o, k + 1, Len(o)) \in Seq(Msgs)
        /\ o = SubSeq(o, 1, k) \o SubSeq(o, k + 1, Len(o))
        /\ \A y : Contains(o, y) <=>
                    Contains(SubSeq(o, 1, k), y) \/ Contains(SubSeq(o, k + 1, Len(o)), y)
        /\ \A y : Contains(SubSeq(o, 1, k), y) <=> \E j \in 1 .. k : o[j] = y
    BY <2>1, SplitIs
  <2> QED
    BY <2>1, <2>2, Zenon
<1>5. /\ \A y : Contains(o, y) <=> Contains(sessions[iter].msgsToSend, y) \/ y = x
      /\ ~Contains(sessions[iter].msgsToSend, x)
      /\ \A y : ~(Contains(u, y) /\ Contains(v, y))
  <2>1. Distinct(o)
    BY <1>1, <1>4, OutgoingDistinct
  <2>2. Distinct(u \o v)
    BY <1>4, <2>1, Zenon
  <2>3. \A y : ~(Contains(u, y) /\ Contains(v, y))
    BY <2>2, DistinctParts
  <2>4. /\ \A y : Contains(Outgoing, y) <=>
                     Contains(sessions[iter].msgsToSend, y) \/ y = pToSendMsg[1]
        /\ ~Contains(sessions[iter].msgsToSend, pToSendMsg[1])
    BY <1>1, OutgoingDistinct
  <2> QED
    BY <1>3, <1>4, <2>3, <2>4, Zenon
<1>6. Contains(v, x)
  <2>1. ~Contains(u, x)
    <3>0. k < Len(Outgoing) /\ Distinct(Outgoing)
      BY <1>1, OutgoingDistinct DEF SendBlocked
    <3>1. Distinct(o) /\ DOMAIN o = 1 .. Len(o) /\ k < Len(o) /\ o[Len(o)] = x
          /\ Len(o) \in Nat
      <4>1. DOMAIN o = 1 .. Len(o)
        BY LenProperties
      <4> QED
        BY <1>2, <1>3, <1>4, <3>0, <4>1, Zenon
    <3>2. \A j \in 1 .. k : j \in 1 .. Len(o) /\ j # Len(o)
      <4>1. PICK l \in Nat : l = Len(o)
        BY <3>1
      <4>2. k \in 0 .. l
        BY <1>1, <1>4, <4>1
      <4>3. k \in Nat /\ k < l
        BY <3>1, <4>1, <4>2
      <4>4. \A j \in 1 .. k : j \in 1 .. l /\ j # l
        BY <4>3
      <4> QED
        BY <4>1, <4>4
    <3>3. Len(o) \in 1 .. Len(o)
      BY <3>1
    <3>4. \A j \in 1 .. k : o[j] # x
      BY <3>1, <3>2, <3>3 DEF Distinct
    <3> QED
      BY <1>4, <3>4
  <2> QED
    BY <1>4, <1>5, <2>1
<1>7. /\ Ids' = Ids
      /\ \A i \in Ids \ {iter} : sessions'[i] = sessions[i]
      /\ sessions'[iter].msgsToSend = v
  BY <1>1, <1>4, KeepEffect
<1>8. PICK i \in Ids : i = iter
  BY <1>2
<1>9. PICK h \in Nat, a \in {0, 1}, b \in {0, 1} :
        /\ h = HeldBy(m, Ids \ {i})
        /\ a = IF Contains(sessions[i].msgsToSend, m) THEN 1 ELSE 0
        /\ b = IF Contains(v, m) THEN 1 ELSE 0
        /\ HeldBy(m, Ids) = a + h
        /\ HeldBy(m, Ids)' = b + h
  <2>1. IsFiniteSet(Ids)
    BY IdsFinite
  <2>2. PICK h : h = Holding(sessions, Ids \ {i}, m)
    OBVIOUS
  <2>3. Holding(sessions', Ids \ {i}, m) = h
    BY <1>7, <1>8, <2>2 DEF Holding
  <2>4. h \in Nat /\ Holding(sessions, Ids, m) =
                       (IF Contains(sessions[i].msgsToSend, m) THEN 1 ELSE 0) + h
    BY <2>1, <2>2, HoldingWithout
  <2>5. PICK f : f = sessions'
    OBVIOUS
  <2>6. Holding(f, Ids, m) = (IF Contains(v, m) THEN 1 ELSE 0) + h
    <3>1. f[i].msgsToSend = v /\ Holding(f, Ids \ {i}, m) = h
      BY <1>7, <1>8, <2>3, <2>5
    <3>2. Holding(f, Ids, m) = (IF Contains(f[i].msgsToSend, m) THEN 1 ELSE 0)
                               + Holding(f, Ids \ {i}, m)
      BY <2>1, HoldingWithout
    <3> QED
      BY <3>1, <3>2, Zenon
  <2>7. /\ HeldBy(m, Ids) = Holding(sessions, Ids, m)
        /\ HeldBy(m, Ids \ {i}) = h
        /\ HeldBy(m, Ids)' = Holding(f, Ids, m)
    BY <1>7, <2>2, <2>5 DEF HeldBy, Holding
  <2> QED
    BY <2>4, <2>6, <2>7
<1>10. PICK e \in {0, 1}, z \in {0, 1} :
         /\ e = IF Contains(u, m) THEN 1 ELSE 0
         /\ z = IF m = x THEN 1 ELSE 0
         /\ b = a - e + z
         /\ e = 1 => a = 1 /\ z = 0
  <2>1. /\ Contains(v, m) <=> (Contains(sessions[i].msgsToSend, m) /\ ~Contains(u, m)) \/ m = x
        /\ Contains(u, m) => Contains(sessions[i].msgsToSend, m) /\ m # x
        /\ m = x => ~Contains(sessions[i].msgsToSend, m)
    BY <1>4, <1>5, <1>6, <1>8
  <2>2. PICK e : e = IF Contains(u, m) THEN 1 ELSE 0
    OBVIOUS
  <2>3. PICK z : z = IF m = x THEN 1 ELSE 0
    OBVIOUS
  <2>4. CASE m = x
    <3>1. a = 0 /\ b = 1 /\ e = 0 /\ z = 1
      BY <1>9, <2>1, <2>2, <2>3, <2>4
    <3> QED
      BY <2>2, <2>3, <3>1
  <2>5. CASE m # x /\ Contains(u, m)
    <3>1. a = 1 /\ b = 0 /\ e = 1 /\ z = 0
      BY <1>9, <2>1, <2>2, <2>3, <2>5
    <3> QED
      BY <2>2, <2>3, <3>1
  <2>6. CASE m # x /\ ~Contains(u, m)
    <3>1. a = b /\ e = 0 /\ z = 0
      BY <1>9, <2>1, <2>2, <2>3, <2>6
    <3> QED
      BY <2>2, <2>3, <3>1
  <2> QED
    BY <2>4, <2>5, <2>6
<1>11. /\ UNCHANGED <<msgsTxQueue, taken, pToSendMsg, txPc, loaded, alive>>
       /\ mUseCnt'[m] = mUseCnt[m] - (IF \E j \in 1 .. k : Outgoing[j] = m THEN 1 ELSE 0)
                                   + (IF pToSendMsg = <<m>> THEN 1 ELSE 0)
       /\ deletes'[m] = deletes[m] + IF mUseCnt[m] = 1 /\ mUseCnt'[m] = 0 THEN 1 ELSE 0
  BY <1>1 DEF SendBlocked, Transmit
<1>12. mUseCnt'[m] = mUseCnt[m] - e + z
  <2>1. (\E j \in 1 .. k : Outgoing[j] = m) <=> Contains(u, m)
    BY <1>4
  <2>2. pToSendMsg = <<m>> <=> m = x
    BY <1>3
  <2> QED
    BY <1>10, <1>11, <2>1, <2>2
<1>13. /\ References(m) = Queued(m) + HeldBy(m, Ids) + InHand(m)
       /\ Queued(m) \in {0, 1} /\ InHand(m) \in Nat
       /\ pToSendMsg = <<m>> => InHand(m) = 2
  BY <1>2, ReferencesIs, InHandIs
<1>14. References(m)' = Queued(m) + HeldBy(m, Ids)' + InHand(m)
  <2>1. Queued(m)' = Queued(m) /\ InHand(m)' = InHand(m)
    BY <1>11 DEF Queued, InHand
  <2>2. References(m)' = Queued(m)' + HeldBy(m, Ids)' + InHand(m)'
    BY DEF References, Queued, InHand
  <2> QED
    BY <2>1, <2>2
<1>15. PICK c \in Nat, d \in Int : c = Queued(m) + InHand(m) /\ d = deletes[m]
  BY <1>13 DEF TypeInv
<1>16. mUseCnt[m] = c + a + h /\ References(m)' = c + b + h
  <2>1. PICK s \in Nat, t \in Nat : s = Queued(m) /\ t = InHand(m) /\ c = s + t
    BY <1>13, <1>15
  <2>2. mUseCnt[m] = s + (a + h) + t
    BY <1>9, <1>13, <2>1, Zenon DEF Counts
  <2>3. References(m)' = s + (b + h) + t
    BY <1>9, <1>14, <2>1, Zenon
  <2>4. a \in Nat /\ b \in Nat
    OBVIOUS
  <2>5. s + (a + h) + t = (s + t) + a + h /\ s + (b + h) + t = (s + t) + b + h
    BY <2>4
  <2> QED
    BY <2>1, <2>2, <2>3, <2>5, Zenon
<1>17. mUseCnt'[m] = References(m)'
  BY <1>10, <1>12, <1>16
<1>18. CASE e = 0
  <2>1. mUseCnt[m] = 1 => mUseCnt'[m] # 0
    BY <1>10, <1>12, <1>16, <1>18
  <2>2. deletes'[m] = d
    BY <1>11, <1>15, <2>1
  <2>3. mUseCnt'[m] = 0 => mUseCnt[m] = 0
    BY <1>10, <1>12, <1>16, <1>18
  <2>4. mUseCnt[m] = 0 => mUseCnt'[m] = 0
    <3>1. mUseCnt[m] = 0 => c = 0
      BY <1>16
    <3>2. c = 0 => pToSendMsg # <<m>>
      BY <1>13, <1>15
    <3>3. m = x => pToSendMsg = <<m>>
      BY <1>3
    <3> QED
      BY <1>10, <1>12, <1>18, <3>1, <3>2, <3>3
  <2> QED
    BY <1>2, <1>11, <1>15, <1>17, <2>2, <2>3, <2>4 DEF Counts
<1>19. CASE e = 1
  <2>1. mUseCnt[m] = c + 1 + h /\ mUseCnt'[m] = c + h /\ m # x
    BY <1>10, <1>12, <1>16, <1>19
  <2>2. d = 0
    BY <1>15, <2>1 DEF Counts
  <2>3. deletes'[m] = IF c + h = 0 THEN 1 ELSE 0
    BY <1>11, <1>15, <2>1, <2>2
  <2>4. pToSendMsg # <<m>> /\ Contains(taken, m)
    <3>1. pToSendMsg # <<m>>
      BY <1>3, <2>1
    <3>2. Contains(sessions[i].msgsToSend, m)
      BY <1>9, <1>10, <1>19
    <3>3. HeldBy(m, Ids) # 0
      BY <1>9, <1>10, <1>19
    <3> QED
      BY <3>1, <3>3, NotTakenNotHeld
  <2> QED
    BY <1>2, <1>11, <1>17, <2>1, <2>3, <2>4 DEF Counts
<1> QED
  BY <1>10, <1>18, <1>19

\* The steps that close or add sessions, or send, keep the counts, unless a client goes
\* while the Tx thread dismisses the message without a lock.
LEMMA CountedAtSessions ==
  ASSUME TypeInv, Numbered, Placed, Ordered, AtSessions, "raced" \notin mishaps',
         NEW m \in Msgs, Counts(m)
  PROVE  Counts(m)'
<1> USE DEF fixed, ids, peers, queued, counts, rx, tx, hist
<1>1. ASSUME NEW S, DismissQueued(S) PROVE
             pToSendMsg = <<m>> /\ HeldBy(m, S) > 0 => txPc \notin {"store", "test"}
  <2>1. SUFFICES ASSUME pToSendMsg = <<m>>, HeldBy(m, S) > 0, txPc \in {"store", "test"}
                 PROVE  FALSE
    OBVIOUS
  <2>2. pToSendMsg[1] = m
    BY <2>1
  <2>3. mishaps' = mishaps \cup {"raced"}
    BY <1>1, <2>1, <2>2 DEF DismissQueued
  <2> QED
    BY <2>3
<1>2. ASSUME NEW p \in Peers, AcceptNewClient(p) PROVE Counts(m)'
  <2> DEFINE K == Ids \ ToDrop
  <2>1. /\ Ids' = K \cup {client_id}
        /\ \A i \in K : sessions'[i] = sessions[i]
        /\ client_id \notin K => sessions'[client_id] = [peer |-> p, msgsToSend |-> <<>>]
    BY <1>2, AcceptEffect
  <2>2. /\ UNCHANGED <<msgsTxQueue, taken, pToSendMsg, txPc, loaded, alive>>
        /\ DismissQueued(ToDrop)
    BY <1>2 DEF AcceptNewClient, Accepted
  <2>3. ToDrop \subseteq Ids
    BY DEF ToDrop
  <2>4. {i \in Ids' : Contains(sessions'[i].msgsToSend, m)}
          = {i \in K : Contains(sessions[i].msgsToSend, m)}
    <3>1. client_id \notin K => ~Contains(sessions'[client_id].msgsToSend, m)
      <4>1. ~Contains(<<>>, m)
        BY DEF Contains
      <4> QED
        BY <2>1, <4>1
    <3> HIDE DEF K
    <3> QED
      BY <2>1, <3>1
  <2>5. HeldBy(m, Ids)' = HeldBy(m, Ids \ ToDrop)
    BY <2>4 DEF HeldBy
  <2> QED
    BY <1>1, <2>2, <2>3, <2>5, CountsClosing DEF DismissQueued
<1>3. ASSUME NEW S, S \subseteq Ids, sessions' = Without(S)
      PROVE  HeldBy(m, Ids)' = HeldBy(m, Ids \ S)
  <2>1. Ids' = Ids \ S /\ \A i \in Ids' : sessions'[i] = sessions[i]
    BY <1>3, WithoutEffect
  <2> QED
    BY <2>1 DEF HeldBy
<1>4. ASSUME NEW closed \in SUBSET Ids, Receive(closed) PROVE Counts(m)'
  <2>1. /\ UNCHANGED <<msgsTxQueue, taken, pToSendMsg, txPc, loaded, alive>>
        /\ DismissQueued(closed) /\ sessions' = Without(closed)
    BY <1>4 DEF Receive, Received
  <2>2. HeldBy(m, Ids)' = HeldBy(m, Ids \ closed)
    BY <1>3, <2>1
  <2> QED
    BY <1>1, <2>1, <2>2, CountsClosing DEF DismissQueued
<1>5. CASE SendAll
  <2>1. /\ UNCHANGED <<msgsTxQueue, taken, pToSendMsg, txPc, loaded, alive>> /\ txPc = "loop"
        /\ Dismissed([n \in Msgs |-> HeldBy(n, {iter})]) /\ {iter} \subseteq Ids
    BY <1>5, OutgoingIs DEF SendAll, Transmit
  <2>2. HeldBy(m, Ids)' = HeldBy(m, Ids \ {iter})
    <3>1. /\ Ids' = Ids
          /\ \A i \in Ids \ {iter} : sessions'[i] = sessions[i]
          /\ sessions'[iter].msgsToSend = SubSeq(Outgoing, Len(Outgoing) + 1, Len(Outgoing))
      BY <1>5, SendAllKeeps, KeepEffect
    <3>2. sessions'[iter].msgsToSend = <<>>
      BY <1>5, <3>1, OutgoingIs, SubSeqEmpty DEF SendAll
    <3>3. ~Contains(sessions'[iter].msgsToSend, m)
      BY <3>2 DEF Contains
    <3>4. {i \in Ids' : Contains(sessions'[i].msgsToSend, m)}
            = {i \in Ids \ {iter} : Contains(sessions[i].msgsToSend, m)}
      BY <3>1, <3>3
    <3> QED
      BY <3>4 DEF HeldBy
  <2> QED
    BY <2>1, <2>2, CountsClosing
<1>6. ASSUME NEW k \in 0 .. Cardinality(Msgs), SendBlocked(k) PROVE Counts(m)'
  BY <1>6, CountsBlocked
<1>7. ASSUME NEW k \in 0 .. Cardinality(Msgs), SendFails(k) PROVE Counts(m)'
  <2>1. /\ UNCHANGED <<msgsTxQueue, taken, pToSendMsg, txPc, loaded, alive>> /\ AtClient
        /\ Dismissed([n \in Msgs |-> HeldBy(n, {iter})]) /\ sessions' = Without({iter})
    BY <1>7 DEF SendFails, Failed, Transmit
  <2>2. {iter} \subseteq Ids /\ txPc = "loop"
    BY <2>1, OutgoingIs
  <2>3. HeldBy(m, Ids)' = HeldBy(m, Ids \ {iter})
    BY <1>3, <2>1, <2>2
  <2> QED
    BY <2>1, <2>2, <2>3, CountsClosing
<1>8. CASE Destroy
  <2>1. /\ UNCHANGED <<taken, pToSendMsg, txPc, loaded>> /\ txPc = "idle"
        /\ alive' = "destroyed" /\ msgsTxQueue' = <<>> /\ Ids' = {}
        /\ Dismissed([n \in Msgs |-> HeldBy(n, Ids)
                                     + IF Contains(msgsTxQueue, n) THEN 1 ELSE 0])
    BY <1>8 DEF Destroy, Ids
  <2>2. pToSendMsg # <<m>>
    BY <2>1 DEF Placed
  <2>3. PICK t \in Nat : t = References(m) /\ t = HeldBy(m, Ids) + Queued(m)
    <3>1. InHand(m) = 0
      BY <2>2 DEF InHand
    <3> QED
      BY <3>1, ReferencesIs
  <2>4. PICK times \in [Msgs -> Nat] : times[m] = t /\ Dismissed(times)
    <3>1. \A n \in Msgs : HeldBy(n, Ids) \in Nat
      BY HeldByType
    <3>2. [n \in Msgs |-> HeldBy(n, Ids) + IF Contains(msgsTxQueue, n) THEN 1 ELSE 0]
            \in [Msgs -> Nat]
      BY <3>1
    <3> QED
      BY <2>1, <2>3, <3>2 DEF Queued
  <2>5. References(m)' = 0
    <3>1. HeldBy(m, Ids)' = 0
      BY <2>1, FS_EmptySet DEF HeldBy
    <3>2. Queued(m)' = 0 /\ InHand(m)' = 0
      BY <2>1, <2>2 DEF Queued, InHand, Contains
    <3>3. References(m)' = Queued(m)' + HeldBy(m, Ids)' + InHand(m)'
      BY DEF References, Queued, InHand
    <3> QED
      BY <3>1, <3>2, <3>3
  <2>6. mUseCnt[m] = t
    BY <2>3 DEF Counts
  <2>7. /\ t = 0 => mUseCnt'[m] = mUseCnt[m] /\ deletes'[m] = deletes[m]
        /\ t > 0 => /\ mUseCnt'[m] = mUseCnt[m] - t
                    /\ deletes'[m] = deletes[m] + (IF mUseCnt[m] = t THEN 1 ELSE 0)
    <3>1. /\ times[m] = 0 /\ mUseCnt[m] >= 0 =>
               mUseCnt'[m] = mUseCnt[m] /\ deletes'[m] = deletes[m]
          /\ times[m] > 0 /\ mUseCnt[m] >= times[m] =>
               /\ mUseCnt'[m] = mUseCnt[m] - times[m]
               /\ deletes'[m] = deletes[m] + (IF mUseCnt[m] = times[m] THEN 1 ELSE 0)
      BY <2>4, DismissedIs
    <3> QED
      BY <2>4, <2>6, <3>1
  <2>8. References(m) = t + References(m)' /\ References(m)' \in Nat
    BY <2>3, <2>5
  <2> QED
    BY <2>1, <2>2, <2>7, <2>8, CountsDismissed
<1> QED
  BY <1>2, <1>4, <1>5, <1>6, <1>7, <1>8 DEF AtSessions

-----------------------------------------------------------------------------
\* The inductive invariant.

\* The invariant holds at the start.
LEMMA InitIInv == Init => IInv
<1> SUFFICES ASSUME Init PROVE IInv
  OBVIOUS
<1> USE DEF Init, Ids
<1>1. Ids = {}
  OBVIOUS
<1>2. TypeInv
  <2>1. sessions \in [Ids -> Session] /\ Ids \in SUBSET ClientIds
    BY <1>1
  <2>2. <<>> \in Seq(Msgs)
    BY EmptySeq
  <2>3. /\ mSingleClientConnection \in BOOLEAN /\ mConnected \in BOOLEAN
        /\ initialConnectedState \in BOOLEAN /\ currentConnectedState \in BOOLEAN
    OBVIOUS
  <2>4. /\ client_id \in Nat \ {0} /\ iter \in Ids \cup {0} /\ loaded \in Int
        /\ mClientId \in [Msgs -> Nat] /\ mUseCnt \in [Msgs -> Int] /\ deletes \in [Msgs -> Int]
    OBVIOUS
  <2>5. /\ received \in [Peers -> Seq(Msgs)] /\ taken \in Seq(Msgs) /\ msgsTxQueue \in Seq(Msgs)
        /\ clientState \in [ClientIds -> {"none", "LinkUp", "LinkDown"}]
    BY <2>2
  <2>6. /\ met \in SUBSET Peers /\ backlog \in SUBSET met
        /\ rxPc \in {"update", "accept", "receive", "report"}
        /\ socketState \in {"LinkDown", "LinkUp"}
        /\ txPc \in {"idle", "send", "loop", "dismiss", "store", "test"}
        /\ iter = 0
    OBVIOUS
  <2> QED
    BY <2>1, <2>3, <2>4, <2>5, <2>6 DEF TypeInv
<1>3. Numbered
  <2>1. Met = {}
    BY DEF Met
  <2>2. Cardinality(Met) = 0
    BY <2>1, FS_EmptySet
  <2> QED
    BY <1>1, <2>2 DEF Numbered
<1>4. OneSession
  BY <1>1 DEF OneSession
<1>5. Status
  BY <1>1 DEF Status, LinksKnown, SocketsOpen, SocketReported, PeersOf
<1>6. Placed
  BY DEF Placed, Distinct, Contains
<1>7. Ordered
  BY <1>1 DEF Ordered, InOrder
<1>8. Counted
  <2> SUFFICES ASSUME NEW m \in Msgs PROVE Counts(m)
    BY DEF Counted
  <2>1. References(m) = 0
    <3>1. HeldBy(m, Ids) = 0
      BY <1>1, FS_EmptySet DEF HeldBy
    <3>2. Queued(m) = 0 /\ InHand(m) = 0
      BY DEF Queued, InHand, Contains
    <3>3. References(m) = Queued(m) + HeldBy(m, Ids) + InHand(m)
      BY DEF References, Queued, InHand
    <3> QED
      BY <3>1, <3>2, <3>3
  <2> QED
    BY <2>1 DEF Counts, Contains
<1> QED
  BY <1>2, <1>3, <1>4, <1>5, <1>6, <1>7, <1>8 DEF IInv

\* Every step keeps it.
LEMMA NextIInv == IInv /\ [Next]_vars => IInv'
<1> SUFFICES ASSUME IInv, [Next]_vars PROVE IInv'
  OBVIOUS
<1>1. TypeInv /\ Numbered /\ OneSession /\ Status /\ Placed /\ Ordered /\ Counted
  BY DEF IInv
<1>2. CASE Next
  <2>1. alive = "yes" /\ (Elsewhere \/ AtSessions)
    BY <1>2, NextIs
  <2>2. TypeInv' /\ Placed'
    BY <1>1, <2>1, OtherTypes, SessionTypes, PlacedKept
  <2>3. Numbered' /\ OneSession'
    BY <1>1, <2>1, NumberedKept, OneSessionKept
  <2>4. Status'
    <3>1. LinksKnown /\ SocketsOpen /\ SocketReported
      BY <1>1 DEF Status
    <3>2. LinksKnown'
      BY <1>1, <2>1, <3>1, LinksKnownKept
    <3>3. SocketsOpen'
      BY <1>1, <2>1, <3>1, SocketsOpenKept
    <3>4. SocketReported'
      BY <1>1, <2>1, <3>1, SocketReportedKept
    <3> QED
      BY <3>2, <3>3, <3>4 DEF Status
  <2>5. Ordered'
    BY <1>1, <2>1, OrderedAlone, OrderedAtSessions
  <2>6. Counted'
    <3> SUFFICES ASSUME "raced" \notin mishaps', NEW m \in Msgs PROVE Counts(m)'
      BY DEF Counted
    <3>1. "raced" \notin mishaps
      BY <2>1, MishapsGrow
    <3>2. Counts(m)
      BY <1>1, <3>1 DEF Counted
    <3> QED
      BY <1>1, <2>1, <3>2, CountedAlone, CountedAtSessions
  <2> QED
    BY <2>2, <2>3, <2>4, <2>5, <2>6 DEF IInv
<1>3. CASE UNCHANGED vars
  <2> USE DEF vars, fixed, ids, peers, queued, counts, rx, tx, hist
  <2>1. TypeInv' /\ Ids' = Ids
    BY <1>1, <1>3 DEF TypeInv, Ids
  <2>2. Numbered' /\ OneSession'
    BY <1>1, <1>3, <2>1 DEF Numbered, OneSession, Met
  <2>3. Status'
    BY <1>1, <1>3, <2>1 DEF Status, LinksKnown, SocketsOpen, SocketReported, PeersOf
  <2>4. Placed'
    BY <1>1, <1>3 DEF Placed
  <2>5. Ordered'
    BY <1>1, <1>3, <2>1 DEF Ordered, Served, Stream, Ahead, ForClient
  <2>6. Counted'
    BY <1>1, <1>3, <2>1 DEF Counted, Counts, References, HeldBy
  <2> QED
    BY <2>1, <2>2, <2>3, <2>4, <2>5, <2>6 DEF IInv
<1> QED
  BY <1>2, <1>3

-----------------------------------------------------------------------------
\* Where a message comes first.

\* A sequence has a message as a part when it contains it.
LEMMA PartIs ==
  ASSUME NEW s \in Seq(Msgs), NEW x \in Msgs
  PROVE  <<x>> \in SubSeqs(s) <=> Contains(s, x)
<1>1. PICK l \in Nat : l = Len(s) /\ DOMAIN s = 1 .. l
  BY LenProperties
<1>2. \A i \in 1 .. l : s[i] \in Msgs
  BY <1>1, ElementOfSeq
<1>3. \A i, j \in 0 .. l :
        /\ SubSeq(s, i + 1, j) \in Seq(Msgs)
        /\ Len(SubSeq(s, i + 1, j)) = IF i + 1 <= j THEN j - i ELSE 0
        /\ i + 1 <= j => SubSeq(s, i + 1, j)[1] = s[i + 1]
  <2> TAKE i, j \in 0 .. l
  <2>1. PICK a \in Int, b \in Int : a = i + 1 /\ b = j
    OBVIOUS
  <2>2. \A n \in a .. b : s[n] \in Msgs
    BY <1>2, <2>1
  <2>3. /\ SubSeq(s, a, b) \in Seq(Msgs)
        /\ Len(SubSeq(s, a, b)) = IF a <= b THEN b - a + 1 ELSE 0
        /\ \A n \in 1 .. b - a + 1 : SubSeq(s, a, b)[n] = s[a + n - 1]
    BY <2>2, SubSeqProperties
  <2>4. b - a + 1 = j - i
    BY <2>1
  <2>5. a <= b => 1 \in 1 .. b - a + 1 /\ a + 1 - 1 = a
    OBVIOUS
  <2> QED
    BY <2>1, <2>3, <2>4, <2>5
<1>4. ASSUME NEW i \in 1 .. l, s[i] = x PROVE <<x>> \in SubSeqs(s)
  <2>1. PICK h \in 0 .. l : h = i - 1 /\ h + 1 = i /\ i \in 0 .. l /\ i - h = 1
    OBVIOUS
  <2>2. PICK v \in Seq(Msgs) : v = SubSeq(s, h + 1, i) /\ Len(v) = 1 /\ v[1] = x
    <3>1. /\ SubSeq(s, h + 1, i) \in Seq(Msgs)
          /\ Len(SubSeq(s, h + 1, i)) = IF h + 1 <= i THEN i - h ELSE 0
          /\ h + 1 <= i => SubSeq(s, h + 1, i)[1] = s[h + 1]
      BY <1>3, <2>1, Zenon
    <3>2. h + 1 <= i
      BY <2>1
    <3>3. Len(SubSeq(s, h + 1, i)) = 1
      BY <2>1, <3>1, <3>2, Zenon
    <3>4. SubSeq(s, h + 1, i)[1] = x
      BY <1>4, <2>1, <3>1, <3>2, Zenon
    <3> QED
      BY <3>1, <3>3, <3>4, Zenon
  <2>3. v = <<x>>
    <3>1. PICK w \in Seq(Msgs) : w = <<x>> /\ Len(w) = 1 /\ w[1] = x
      <4>1. <<x>> \in Seq(Msgs) /\ Len(<<x>>) = 1 /\ <<x>>[1] = x
        OBVIOUS
      <4> QED
        BY <4>1, Zenon
    <3>2. \A n \in 1 .. 1 : n = 1
      OBVIOUS
    <3>3. v = w
      BY <2>2, <3>1, <3>2, SeqEqual
    <3> QED
      BY <3>1, <3>3, Zenon
  <2>4. SubSeq(s, h + 1, i) \in SubSeqs(s)
    <3>1. h \in 0 .. Len(s) /\ i \in 0 .. Len(s)
      BY <1>1, <2>1, Zenon
    <3> QED
      <4>1. \A a, b \in 0 .. Len(s) : SubSeq(s, a + 1, b) \in SubSeqs(s)
        <5> DEFINE part(a, b) == SubSeq(s, a + 1, b)
        <5>1. SubSeqs(s) = {part(a, b) : a, b \in 0 .. Len(s)}
          BY DEF SubSeqs
        <5> HIDE DEF part
        <5>2. \A a, b \in 0 .. Len(s) : part(a, b) \in SubSeqs(s)
          BY <5>1
        <5> QED
          BY <5>2 DEF part
      <4> QED
        BY <3>1, <4>1
  <2> QED
    BY <2>2, <2>3, <2>4, Zenon
<1>5. ASSUME <<x>> \in SubSeqs(s) PROVE \E i \in 1 .. l : s[i] = x
  <2>1. PICK i \in 0 .. l, j \in 0 .. l : <<x>> = SubSeq(s, i + 1, j)
    BY <1>1, <1>5 DEF SubSeqs
  <2>2. Len(<<x>>) = 1 /\ <<x>>[1] = x
    OBVIOUS
  <2>3. i + 1 <= j
    BY <1>3, <2>1, <2>2
  <2>4. s[i + 1] = x
    BY <1>3, <2>1, <2>2, <2>3
  <2>5. i + 1 \in 1 .. l
    BY <2>3
  <2> QED
    BY <2>4, <2>5
<1> QED
  BY <1>1, <1>4, <1>5 DEF Contains

\* The first place of a message is the one it has, when no other is the same.
LEMMA FirstIs ==
  ASSUME NEW t \in Seq(Msgs), Distinct(t), NEW n \in DOMAIN t
  PROVE  IndexFirstSubSeq(<<t[n]>>, t) = n
<1>1. PICK l \in Nat : l = Len(t) /\ DOMAIN t = 1 .. l
  BY LenProperties
<1>2. PICK x \in Msgs : x = t[n]
  BY <1>1, ElementOfSeq
<1>3. \A i \in 0 .. l : <<x>> \in SubSeqs(SubSeq(t, 1, i)) <=> n <= i
  <2> TAKE i \in 0 .. l
  <2>1. /\ SubSeq(t, 1, i) \in Seq(Msgs)
        /\ Contains(SubSeq(t, 1, i), x) <=> \E j \in 1 .. i : t[j] = x
    BY <1>1, SplitIs
  <2>2. <<x>> \in SubSeqs(SubSeq(t, 1, i)) <=> Contains(SubSeq(t, 1, i), x)
    BY <2>1, PartIs
  <2>3. (\E j \in 1 .. i : t[j] = x) <=> n <= i
    <3>1. \A j \in 1 .. i : j \in 1 .. l
      OBVIOUS
    <3>2. \A j \in 1 .. l : t[j] = x => j = n
      BY <1>1, <1>2 DEF Distinct
    <3>3. n \in 1 .. l /\ (n <= i => n \in 1 .. i)
      BY <1>1
    <3> QED
      BY <1>2, <3>1, <3>2, <3>3
  <2> QED
    BY <2>1, <2>2, <2>3
<1> DEFINE First(i) == /\ <<x>> \in SubSeqs(SubSeq(t, 1, i))
                       /\ \A j \in 0 .. i - 1 : <<x>> \notin SubSeqs(SubSeq(t, 1, j))
<1>4. \A i \in 0 .. l : First(i) <=> i = n
  <2> TAKE i \in 0 .. l
  <2>1. \A j \in 0 .. i - 1 : j \in 0 .. l
    OBVIOUS
  <2>2. n \in 1 .. l
    BY <1>1
  <2>3. (\A j \in 0 .. i - 1 : ~(n <= j)) <=> i <= n
    <3>1. i - 1 \in 0 .. i - 1 \/ i = 0
      OBVIOUS
    <3>2. i <= n => \A j \in 0 .. i - 1 : ~(n <= j)
      BY <2>2
    <3>3. i > n => n <= i - 1 /\ i - 1 \in 0 .. i - 1
      BY <2>2
    <3> QED
      BY <2>2, <3>2, <3>3
  <2> QED
    BY <1>3, <2>1, <2>2, <2>3
<1>5. n \in 0 .. l /\ n \in Int
  BY <1>1
<1> HIDE DEF First
<1>6. (CHOOSE i \in 0 .. l : First(i)) = n
  BY <1>4, <1>5
<1>7. Len(<<x>>) = 1
  OBVIOUS
<1>8. IndexFirstSubSeq(<<x>>, t) = (CHOOSE i \in 0 .. l : First(i)) - (Len(<<x>>) - 1)
  BY <1>1, Zenon DEF IndexFirstSubSeq, First
<1>9. IndexFirstSubSeq(<<x>>, t) = n - (1 - 1)
  BY <1>6, <1>7, <1>8
<1> QED
  BY <1>2, <1>5, <1>9

-----------------------------------------------------------------------------
\* The theorems.

\* The invariant holds in every reachable state.
THEOREM Invariance == Spec => []IInv
BY InitIInv, NextIInv, PTL DEF Spec

\* What cTcpServer reports of its clients' links and of its socket is so: a client is
\* reported up when it has a session, and no accepted client is left without one.
THEOREM LinksAsReported == Spec => []StatusMatchesSessions
<1>1. IInv => StatusMatchesSessions
  <2> SUFFICES ASSUME IInv PROVE StatusMatchesSessions
    OBVIOUS
  <2>1. TypeInv /\ LinksKnown /\ SocketsOpen /\ SocketReported
    BY DEF IInv, Status
  <2>2. (\A i, j \in Ids : i = j) => Cardinality(Ids) <= 1
    <3>1. SUFFICES ASSUME \A i, j \in Ids : i = j PROVE Cardinality(Ids) <= 1
      OBVIOUS
    <3>2. CASE Ids = {}
      BY <3>2, FS_EmptySet
    <3>3. ASSUME NEW i \in Ids PROVE Cardinality(Ids) <= 1
      <4>1. Ids = {i}
        BY <3>1, <3>3
      <4> QED
        BY <4>1, FS_Singleton
    <3> QED
      BY <3>2, <3>3
  <2>3. alive = "yes" =>
          /\ mConnected => Ids # {}
          /\ mSingleClientConnection => Cardinality(Ids) <= 1
          /\ {i \in ClientIds : clientState[i] = "LinkUp"} = Ids
    <3> SUFFICES ASSUME alive = "yes"
        PROVE  /\ mConnected => Ids # {}
               /\ mSingleClientConnection => Cardinality(Ids) <= 1
               /\ {i \in ClientIds : clientState[i] = "LinkUp"} = Ids
      OBVIOUS
    <3>1. /\ mConnected => Ids # {}
          /\ mSingleClientConnection => \A i, j \in Ids : i = j
          /\ \A i \in ClientIds : clientState[i] = "LinkUp" <=> i \in Ids
      BY <2>1 DEF LinksKnown
    <3>2. Ids \subseteq ClientIds
      BY <2>1 DEF TypeInv
    <3> QED
      BY <2>2, <3>1, <3>2
  <2>4. rxPc = "update" /\ "closed by send" \notin mishaps =>
          (socketState = "LinkUp") = mConnected
    <3>1. mConnected \in BOOLEAN
      BY <2>1 DEF TypeInv
    <3>2. rxPc = "update" /\ "closed by send" \notin mishaps =>
            (socketState = "LinkUp" <=> mConnected)
      BY <2>1 DEF SocketReported
    <3> QED
      BY <3>1, <3>2
  <2> QED
    BY <2>1, <2>3, <2>4 DEF StatusMatchesSessions, SocketsOpen
<1> QED
  BY <1>1, Invariance, PTL

\* A message counts its references, is deleted with the last one and is not lost.
THEOREM ReferencesCounted == Spec => []CountsReferences
<1>1. IInv => CountsReferences
  <2> SUFFICES ASSUME IInv PROVE CountsReferences
    OBVIOUS
  <2>1. TypeInv /\ Numbered /\ OneSession /\ Placed /\ Counted
    BY DEF IInv
  <2>2. client_id \in 1 .. Cardinality(Peers) + 1
    <3>1. Met \in SUBSET Peers
      BY <2>1 DEF TypeInv, Met
    <3>2. IsFiniteSet(Peers) /\ IsFiniteSet(Met) /\ Cardinality(Met) <= Cardinality(Peers)
      BY <3>1, TcpServerAssumption, FS_Subset
    <3>3. Cardinality(Met) \in Nat /\ Cardinality(Peers) \in Nat
      BY <3>2, FS_CardinalityType
    <3>4. client_id \in Nat \ {0} /\ client_id <= Cardinality(Met) + 1
      BY <2>1 DEF TypeInv, Numbered
    <3> QED
      BY <3>2, <3>3, <3>4
  <2>3. ASSUME NEW i \in Ids
        PROVE  sessions[i].peer \in met \ backlog /\ sessions[i].msgsToSend \in Seq(Msgs)
    BY <2>1, <2>3, StreamType DEF OneSession, Met
  <2>4. Len(pToSendMsg) = IF txPc = "idle" THEN 0 ELSE 1
    <3>1. CASE txPc = "idle"
      BY <2>1, <3>1 DEF Placed
    <3>2. CASE txPc # "idle"
      BY <2>1, <3>2, Sending
    <3> QED
      BY <3>1, <3>2
  <2>5. TypeOK
    BY <2>1, <2>2, <2>3, <2>4 DEF TypeOK, TypeInv
  <2> QED
    BY <2>1, <2>5 DEF CountsReferences, Counted, Counts
<1> QED
  BY <1>1, Invariance, PTL

\* A client gets the messages meant for it, in the order the Tx thread took them and none
\* twice; but for the session that SendMsgToClient passes over after an erase.
THEOREM AllServedInOrder == Spec => []ClientsServedInOrder
<1>1. IInv => ClientsServedInOrder
  <2> SUFFICES ASSUME IInv PROVE ClientsServedInOrder
    OBVIOUS
  <2>1. TypeInv /\ Placed /\ Ordered
    BY DEF IInv
  <2>2. OrderKept
    <3> SUFFICES ASSUME NEW p \in Peers, NEW a \in DOMAIN received[p], NEW b \in DOMAIN received[p],
                        a < b
        PROVE IndexFirstSubSeq(<<received[p][a]>>, taken)
                < IndexFirstSubSeq(<<received[p][b]>>, taken)
      BY DEF OrderKept
    <3>1. InOrder(received[p], taken) /\ taken \in Seq(Msgs) /\ Distinct(taken)
      BY <2>1 DEF Ordered, TypeInv, Placed
    <3>2. PICK m \in DOMAIN taken, n \in DOMAIN taken :
            m < n /\ taken[m] = received[p][a] /\ taken[n] = received[p][b]
      BY <3>1 DEF InOrder, Before
    <3>3. IndexFirstSubSeq(<<taken[m]>>, taken) = m /\ IndexFirstSubSeq(<<taken[n]>>, taken) = n
      BY <3>1, FirstIs
    <3> QED
      BY <3>2, <3>3
  <2>3. RequiredClientsServed
    <3> SUFFICES ASSUME txPc = "loop", iter = 0, NEW i \in Ids \ skipped,
                        ForClient(pToSendMsg[1], i)
        PROVE  \/ Contains(received[sessions[i].peer], pToSendMsg[1])
               \/ Contains(sessions[i].msgsToSend, pToSendMsg[1])
      BY DEF RequiredClientsServed
    <3>1. Contains(Stream(i), pToSendMsg[1])
      BY <2>1 DEF Ordered, Served, Ahead
    <3>2. PICK r \in Seq(Msgs), q \in Seq(Msgs) :
            r = received[sessions[i].peer] /\ q = sessions[i].msgsToSend /\ Stream(i) = r \o q
      BY <2>1, StreamType DEF Stream
    <3>3. \A y : Contains(r \o q, y) <=> Contains(r, y) \/ Contains(q, y)
      BY ConcatIs
    <3> QED
      BY <3>1, <3>2, <3>3
  <2> QED
    BY <2>2, <2>3 DEF ClientsServedInOrder
<1> QED
  BY <1>1, Invariance, PTL

=============================================================================
