----------------------------- MODULE TcpServer -----------------------------
(***************************************************************************)
(* A cTcp in server mode, without waitForAckP: cTcpServer's sessions and   *)
(* the queues of messages their sockets would not take.  The Rx thread     *)
(* accepts and drops clients in cTcp::Update, the Tx thread sends in       *)
(* SendMsgToClient, and mLockMutex keeps the two apart but for the read of *)
(* mConnected that begins an Update, the report that ends it and the last  *)
(* Dismiss of SendQueuedMsg.  The timer thread calls SendMsgToClient with  *)
(* no message.                                                             *)
(*                                                                         *)
(* Incrementing the end iterator of a map leaves it at the end, as in the  *)
(* library of the project's toolset.  What clients send is left out, and   *)
(* so are the timers of the heartbeat and of silence.                      *)
(***************************************************************************)
EXTENDS Integers, SequencesExt, FiniteSetsExt

CONSTANTS
  Peers,      \* clients that may connect, once each
  Msgs,
  MaxOthers   \* bound on the cTcp objects constructed beside this one

ASSUME TcpServerAssumption == IsFiniteSet(Peers) /\ MaxOthers \in Nat

VARIABLES
  mSingleClientConnection,  \* given once
  client_id,      \* static: one for all the cTcp objects of the program
  backlog,        \* peers waiting to be accepted
  sessions,       \* id -> [peer, msgsToSend], for the ids in use
  mConnected,
  mSendTimerId,   \* "invalid" or "armed"
  msgsTxQueue,
  mClientId,      \* of each message: an id, or 0 for everyone
  mUseCnt,        \* of each message
  mTXstate,
  rxPc,
  initialConnectedState, currentConnectedState,
  socketState,    \* the SOCKET status last reported
  clientState,    \* the status last reported of each id
  txPc,
  pToSendMsg,     \* the Tx thread's message, as <<>> or <<m>>
  iter,           \* SendMsgToClient's, as the id it is at or 0 for end()
  sent,
  loaded,         \* what the Tx thread's last Dismiss has read
  alive,          \* "yes", "destroyed" or "crashed"
  \* History variables: they record what happened, and keep actions from
  \* using a message, a peer or a constructor twice.
  others,         \* cTcp objects constructed beside this one
  met,            \* peers that have tried to connect
  open,           \* accepted peers whose socket the server has not closed
  skipped,        \* ids SendMsgToClient has passed over after an erase
  received,       \* messages put on the wire to each peer, in order
  taken,          \* messages in the order the Tx thread took them
  deletes,        \* number of times each message was deleted
  mishaps         \* what has happened that the promises below do not survive

rx     == <<rxPc, initialConnectedState, currentConnectedState, socketState>>
hist   == <<received, skipped, mishaps>>
tx     == <<txPc, pToSendMsg, iter, sent, loaded, taken, mTXstate>>
peers  == <<backlog, met, open>>
ids    == <<client_id, others>>
counts == <<mUseCnt, deletes>>
queued == <<msgsTxQueue, mClientId>>
fixed  == <<mSingleClientConnection, alive>>
vars == <<fixed, ids, peers, sessions, mConnected, mSendTimerId, queued, counts,
          rx, clientState, tx, hist>>

ClientIds == 1 .. Cardinality(Peers)

Ids == DOMAIN sessions

PeersOf(S) == {sessions[i].peer : i \in S}

Without(S) == [i \in Ids \ S |-> sessions[i]]

\* The least id of S above i, or 0.
NextId(S, i) ==
  LET above == {j \in S : j > i} IN IF above = {} THEN 0 ELSE Min(above)

-----------------------------------------------------------------------------
Init ==
  /\ mSingleClientConnection \in BOOLEAN
  /\ client_id = 1
  /\ backlog = {} /\ met = {} /\ open = {}
  /\ sessions = <<>>
  /\ mConnected = FALSE
  /\ mSendTimerId = "invalid"
  /\ msgsTxQueue = <<>>
  /\ mClientId = [m \in Msgs |-> 0]
  /\ mUseCnt = [m \in Msgs |-> 0]
  /\ mTXstate = "LinkDown"
  /\ rxPc = "update"
  /\ initialConnectedState = FALSE /\ currentConnectedState = FALSE
  /\ socketState = "LinkDown"
  /\ clientState = [i \in ClientIds |-> "none"]
  /\ txPc = "idle"
  /\ pToSendMsg = <<>>
  /\ iter = 0
  /\ sent = FALSE
  /\ loaded = 0
  /\ alive = "yes"
  /\ others = 0
  /\ skipped = {}
  /\ received = [p \in Peers |-> <<>>]
  /\ taken = <<>>
  /\ deletes = [m \in Msgs |-> 0]
  /\ mishaps = {}

\* The counts once each message m was dismissed times[m] times.
Dismissed(times) ==
  /\ mUseCnt' = [m \in Msgs |-> Max({mUseCnt[m] - times[m], 0})]
  /\ deletes' = [m \in Msgs |->
       deletes[m] + Max({times[m] + 1 - Max({mUseCnt[m], 1}), 0})]

\* How many of the sessions in S hold m in their queue.
HeldBy(m, S) == Cardinality({i \in S : Contains(sessions[i].msgsToSend, m)})

\* The sessions in S are closed by the Rx thread: their queued messages are
\* dismissed, perhaps between the load and the test of the Tx thread's Dismiss.
DismissQueued(S) ==
  /\ Dismissed([m \in Msgs |-> HeldBy(m, S)])
  /\ mishaps' = IF txPc \in {"store", "test"} /\ HeldBy(pToSendMsg[1], S) > 0
                THEN mishaps \cup {"raced"} ELSE mishaps

-----------------------------------------------------------------------------
\* cTcp::Send: the message is created and queued, for everyone or for one id.
Send(m, i) ==
  /\ ~Contains(msgsTxQueue, m) /\ ~Contains(taken, m)
  /\ mUseCnt' = [mUseCnt EXCEPT ![m] = 1]
  /\ mClientId' = [mClientId EXCEPT ![m] = i]
  /\ msgsTxQueue' = Append(msgsTxQueue, m)
  /\ UNCHANGED <<fixed, ids, peers, sessions, mConnected, mSendTimerId,
                 deletes, rx, clientState, tx, hist>>

\* A client connects: it waits to be accepted.
Arrive(p) ==
  /\ p \notin met
  /\ met' = met \cup {p}
  /\ backlog' = backlog \cup {p}
  /\ UNCHANGED <<fixed, ids, open, sessions, mConnected, mSendTimerId, queued,
                 counts, rx, clientState, tx, hist>>

\* The constructor of another cTcp: client_id is static.
OtherConstructed ==
  /\ others < MaxOthers
  /\ others' = others + 1
  /\ client_id' = 1
  /\ mishaps' = mishaps \cup {"renumbered"}
  /\ UNCHANGED <<fixed, peers, sessions, mConnected, mSendTimerId, queued,
                 counts, rx, clientState, tx, received, skipped>>

-----------------------------------------------------------------------------
\* The Rx thread: cTcp::Update.

\* mConnected is read before mLockMutex is taken.
BeginUpdate ==
  /\ rxPc = "update"
  /\ initialConnectedState' = mConnected
  /\ rxPc' = "accept"
  /\ UNCHANGED <<fixed, ids, peers, sessions, mConnected, mSendTimerId, queued,
                 counts, currentConnectedState, socketState, clientState, tx,
                 hist>>

\* mLockMutex is held to the end of receiveFromClients.
LockedByTx == txPc = "loop"

\* No client waits, or the one that does is gone or not allowed.
AcceptNobody ==
  /\ rxPc = "accept" /\ ~LockedByTx
  /\ \/ UNCHANGED backlog
     \/ \E p \in backlog : backlog' = backlog \ {p}
  /\ rxPc' = "receive"
  /\ UNCHANGED <<fixed, ids, met, open, sessions, mConnected, mSendTimerId,
                 queued, counts, initialConnectedState, currentConnectedState,
                 socketState, clientState, tx, hist>>

\* The client is given a session, unless client_id is in use: map::insert then
\* does nothing.  It is reported up all the same.
Accepted(p, dropped, next) ==
  LET kept == Without(dropped) IN
  /\ rxPc = "accept" /\ ~LockedByTx
  /\ p \in backlog
  /\ backlog' = backlog \ {p}
  /\ sessions' = [i \in DOMAIN kept \cup {client_id} |->
       IF i \in DOMAIN kept THEN kept[i] ELSE [peer |-> p, msgsToSend |-> <<>>]]
  /\ clientState' = [i \in ClientIds |->
       IF i = client_id THEN "LinkUp"
       ELSE IF i \in dropped THEN "LinkDown" ELSE clientState[i]]
  /\ open' = (open \ PeersOf(dropped)) \cup {p}
  /\ mConnected' = TRUE
  /\ client_id' = next
  /\ rxPc' = "receive"
  /\ DismissQueued(dropped)
  /\ UNCHANGED <<fixed, others, met, mSendTimerId, queued,
                 initialConnectedState, currentConnectedState, socketState, tx,
                 received, skipped>>

ToDrop == IF mSingleClientConnection THEN Ids ELSE {}

AcceptNewClient_KeepsOld(p) == Accepted(p, {}, client_id + 1)

AcceptNewClient(p) == Accepted(p, ToDrop, client_id + 1)

\* receiveFromClients found the sessions in closed to be closed.
Received(closed, connected) ==
  /\ rxPc = "receive" /\ ~LockedByTx
  /\ sessions' = Without(closed)
  /\ mConnected' = connected
  /\ currentConnectedState' = connected
  /\ clientState' = [i \in ClientIds |->
       IF i \in closed THEN "LinkDown" ELSE clientState[i]]
  /\ open' = open \ PeersOf(closed)
  /\ rxPc' = "report"
  /\ UNCHANGED <<fixed, ids, backlog, met, mSendTimerId, queued,
                 initialConnectedState, socketState, tx, received, skipped>>

\* Mutants of Receive: mConnected is left; the queues are left to leak.
Receive_StillConnected(closed) ==
  Received(closed, mConnected) /\ DismissQueued(closed)
Receive_KeepsQueue(closed) ==
  Received(closed, mConnected /\ closed = {}) /\ UNCHANGED <<counts, mishaps>>

Receive(closed) ==
  Received(closed, mConnected /\ closed = {}) /\ DismissQueued(closed)

\* The end of Update: a change of mConnected since its beginning is reported.
ReportSocket ==
  /\ rxPc = "report"
  /\ rxPc' = "update"
  /\ socketState' = IF initialConnectedState = currentConnectedState
                    THEN socketState
                    ELSE IF currentConnectedState THEN "LinkUp" ELSE "LinkDown"
  /\ UNCHANGED <<fixed, ids, peers, sessions, mConnected, mSendTimerId, queued,
                 counts, initialConnectedState, currentConnectedState,
                 clientState, tx, hist>>

-----------------------------------------------------------------------------
\* The Tx thread: cTcp::SendQueuedMsg.

\* GetNextMsgToSend and AddRef: the reference the queue had is the Tx thread's.
TakeMsg ==
  /\ txPc = "idle"
  /\ msgsTxQueue # <<>>
  /\ pToSendMsg' = <<Head(msgsTxQueue)>>
  /\ msgsTxQueue' = Tail(msgsTxQueue)
  /\ mUseCnt' = [mUseCnt EXCEPT ![Head(msgsTxQueue)] = @ + 1]
  /\ taken' = Append(taken, Head(msgsTxQueue))
  /\ txPc' = "send"
  /\ UNCHANGED <<fixed, ids, peers, sessions, mConnected, mSendTimerId,
                 mClientId, deletes, rx, clientState, iter, sent, loaded,
                 mTXstate, hist>>

\* SendMsg takes mLockMutex, and SendMsgToClient begins its loop.
EnterSend ==
  /\ txPc = "send"
  /\ iter' = NextId(Ids, 0)
  /\ sent' = FALSE
  /\ skipped' = {}
  /\ txPc' = "loop"
  /\ UNCHANGED <<fixed, ids, peers, sessions, mConnected, mSendTimerId, queued,
                 counts, rx, clientState, pToSendMsg, loaded, taken, mTXstate,
                 received, mishaps>>

ForClient(m, i) == mClientId[m] \in {0, i}

Skip ==
  /\ txPc = "loop" /\ iter # 0
  /\ ~ForClient(pToSendMsg[1], iter)
  /\ iter' = NextId(Ids, iter)
  /\ UNCHANGED <<fixed, ids, peers, sessions, mConnected, mSendTimerId, queued,
                 counts, rx, clientState, txPc, pToSendMsg, sent, loaded,
                 taken, mTXstate, hist>>

AtClient == txPc = "loop" /\ iter # 0 /\ ForClient(pToSendMsg[1], iter)

\* Mutant of Outgoing: the new message overtakes the queued ones.
Outgoing_NewFirst == pToSendMsg \o sessions[iter].msgsToSend

\* The messages for the session at iter: the queued ones, then the new one.
Outgoing == Append(sessions[iter].msgsToSend, pToSendMsg[1])

\* The first k of them are put on the wire; those that were queued are dismissed.
Transmit(k) ==
  /\ received' = [received EXCEPT ![sessions[iter].peer] =
                    @ \o SubSeq(Outgoing, 1, k)]
  /\ UNCHANGED <<fixed, ids, backlog, met, queued, rx, txPc, pToSendMsg,
                 loaded, taken, mTXstate>>

\* The session goes on with the messages of q queued.
Keep(q) ==
  /\ sessions' = [sessions EXCEPT ![iter].msgsToSend = q]
  /\ iter' = NextId(Ids, iter)
  /\ sent' = TRUE
  /\ UNCHANGED <<open, mConnected, clientState, skipped, mishaps>>

\* All are sent.
SendAll ==
  /\ AtClient
  /\ Transmit(Len(Outgoing))
  /\ Keep(<<>>)
  /\ Dismissed([m \in Msgs |-> HeldBy(m, {iter})])
  /\ UNCHANGED mSendTimerId

\* The socket will take no more after k messages: the new one is queued behind
\* the others, and the timer kicked.
SendBlocked(k) ==
  /\ AtClient /\ k < Len(Outgoing)
  /\ Transmit(k)
  /\ Keep(SubSeq(Outgoing, k + 1, Len(Outgoing)))
  /\ mUseCnt' = [m \in Msgs |->
       mUseCnt[m] - (IF \E j \in 1 .. k : Outgoing[j] = m THEN 1 ELSE 0)
                  + (IF pToSendMsg = <<m>> THEN 1 ELSE 0)]
  /\ deletes' = [m \in Msgs |->
       deletes[m] + IF mUseCnt[m] = 1 /\ mUseCnt'[m] = 0 THEN 1 ELSE 0]
  /\ mSendTimerId' = "armed"

\* The socket fails after k messages: the session is closed and erased.  erase
\* returns the next one, and the loop's own increment goes past it.
Failed(k, next, passed) ==
  /\ AtClient /\ k < Len(Outgoing)
  /\ Transmit(k)
  /\ sessions' = Without({iter})
  /\ open' = open \ PeersOf({iter})
  /\ mConnected' = FALSE
  /\ clientState' = [clientState EXCEPT ![iter] = "LinkDown"]
  /\ Dismissed([m \in Msgs |-> HeldBy(m, {iter})])
  /\ iter' = next
  /\ sent' = (sent \/ k > 0)
  /\ skipped' = (skipped \cup {passed}) \ {0}
  /\ mishaps' = mishaps \cup {"closed by send"}
  /\ UNCHANGED mSendTimerId

\* Mutants of SendFails: the loop ends, or stays at the erased session.
SendFails_Stops(k) == Failed(k, 0, NextId(Ids, iter))
SendFails(k) ==
  LET next == NextId(Ids, iter)
  IN Failed(k, IF next = 0 THEN 0 ELSE NextId(Ids, next), next)

\* Mutant of EndSend: the message is dismissed only when it was sent.
EndSend_IfSent ==
  /\ txPc = "loop" /\ iter = 0
  /\ IF sent THEN Dismissed([m \in Msgs |-> IF pToSendMsg = <<m>> THEN 1 ELSE 0])
     ELSE UNCHANGED counts
  /\ mTXstate' = IF sent THEN "LinkUp" ELSE mTXstate
  /\ txPc' = "dismiss"
  /\ UNCHANGED <<fixed, ids, peers, sessions, mConnected, mSendTimerId, queued,
                 rx, clientState, pToSendMsg, iter, sent, loaded, taken, hist>>

\* "remove message regardless"; back in SendQueuedMsg, the TX link is up.
EndSend ==
  /\ txPc = "loop" /\ iter = 0
  /\ Dismissed([m \in Msgs |-> IF pToSendMsg = <<m>> THEN 1 ELSE 0])
  /\ mTXstate' = IF sent THEN "LinkUp" ELSE mTXstate
  /\ txPc' = "dismiss"
  /\ UNCHANGED <<fixed, ids, peers, sessions, mConnected, mSendTimerId, queued,
                 rx, clientState, pToSendMsg, iter, sent, loaded, taken, hist>>

\* The Dismiss that ends SendQueuedMsg, without a lock: the count is loaded ...
DismissLoad ==
  /\ txPc = "dismiss"
  /\ loaded' = mUseCnt[pToSendMsg[1]]
  /\ txPc' = "store"
  /\ UNCHANGED <<fixed, ids, peers, sessions, mConnected, mSendTimerId, queued,
                 counts, rx, clientState, pToSendMsg, iter, sent, taken,
                 mTXstate, hist>>

\* ... stored ...
DismissStore ==
  /\ txPc = "store"
  /\ mUseCnt' = [mUseCnt EXCEPT ![pToSendMsg[1]] = Max({loaded - 1, 0})]
  /\ txPc' = "test"
  /\ UNCHANGED <<fixed, ids, peers, sessions, mConnected, mSendTimerId, queued,
                 deletes, rx, clientState, pToSendMsg, iter, sent, loaded,
                 taken, mTXstate, hist>>

\* ... and read again for the test.
DismissTest ==
  /\ txPc = "test"
  /\ deletes' = [deletes EXCEPT ![pToSendMsg[1]] =
                   IF mUseCnt[pToSendMsg[1]] = 0 THEN @ + 1 ELSE @]
  /\ pToSendMsg' = <<>>
  /\ loaded' = 0
  /\ txPc' = "idle"
  /\ UNCHANGED <<fixed, ids, peers, sessions, mConnected, mSendTimerId, queued,
                 mUseCnt, rx, clientState, iter, sent, taken, mTXstate, hist>>

-----------------------------------------------------------------------------
\* The timer thread: OnTimerEvent calls SendMsgToClient(NULL), which reads the
\* client id of no message, or dismisses it.
OnTimerEvent ==
  /\ mSendTimerId = "armed"
  /\ mSendTimerId' = "invalid"
  /\ alive' = "crashed"
  /\ UNCHANGED <<mSingleClientConnection, ids, peers, sessions, mConnected,
                 queued, counts, rx, clientState, tx, hist>>

\* Mutant of Destroy: the messages not yet taken are left to leak.
Destroy_LeaksTxQueue ==
  /\ rxPc = "update" /\ txPc = "idle"
  /\ alive' = "destroyed"
  /\ sessions' = <<>> /\ open' = {} /\ mSendTimerId' = "invalid"
  /\ Dismissed([m \in Msgs |-> HeldBy(m, Ids)])
  /\ msgsTxQueue' = <<>>
  /\ UNCHANGED <<mSingleClientConnection, ids, backlog, met, mConnected,
                 mClientId, rx, clientState, tx, hist>>

\* The destructors of cTcp and cTcpServer, when both threads have ended.  The
\* clients' links are not reported down.
Destroy ==
  /\ rxPc = "update" /\ txPc = "idle"
  /\ alive' = "destroyed"
  /\ sessions' = <<>> /\ open' = {} /\ mSendTimerId' = "invalid"
  /\ Dismissed([m \in Msgs |->
       HeldBy(m, Ids) + IF Contains(msgsTxQueue, m) THEN 1 ELSE 0])
  /\ msgsTxQueue' = <<>>
  /\ UNCHANGED <<mSingleClientConnection, ids, backlog, met, mConnected,
                 mClientId, rx, clientState, tx, hist>>

-----------------------------------------------------------------------------
Next ==
  /\ alive = "yes"
  /\ \/ \E m \in Msgs, i \in {0} \cup ClientIds : Send(m, i)
     \/ \E p \in Peers : Arrive(p) \/ AcceptNewClient(p)
     \/ OtherConstructed
     \/ BeginUpdate \/ AcceptNobody \/ ReportSocket
     \/ \E closed \in SUBSET Ids : Receive(closed)
     \/ TakeMsg \/ EnterSend \/ Skip \/ SendAll \/ EndSend
     \/ \E k \in 0 .. Cardinality(Msgs) : SendBlocked(k) \/ SendFails(k)
     \/ DismissLoad \/ DismissStore \/ DismissTest
     \/ OnTimerEvent \/ Destroy

Spec == Init /\ [][Next]_vars

-----------------------------------------------------------------------------
\* The threads and the messages they hold, by type.
TypeOK ==
  /\ client_id \in 1 .. Cardinality(Peers) + 1
  /\ Ids \subseteq ClientIds
  /\ \A i \in Ids : sessions[i].peer \in met \ backlog
                    /\ sessions[i].msgsToSend \in Seq(Msgs)
  /\ msgsTxQueue \in Seq(Msgs)
  /\ rxPc \in {"update", "accept", "receive", "report"}
  /\ iter \in Ids \cup {0}
  /\ Len(pToSendMsg) = IF txPc = "idle" THEN 0 ELSE 1

\* How many references to m the queues and the Tx thread hold.
References(m) ==
  (IF Contains(msgsTxQueue, m) THEN 1 ELSE 0) + HeldBy(m, Ids)
  + (IF pToSendMsg # <<m>> THEN 0
     ELSE CASE txPc \in {"send", "loop"} -> 2
            [] txPc \in {"dismiss", "store"} -> 1
            [] txPc = "test" -> 0)

\* A message counts the references to it and is deleted with the last one,
\* however many sockets it waits for, are closed, or are destroyed; unless a
\* client went while the Tx thread dismissed the message without a lock.
CountsReferences ==
  /\ TypeOK
  /\ "raced" \notin mishaps => \A m \in Msgs :
       /\ mUseCnt[m] = References(m)
       /\ deletes[m] = 0 \/ (deletes[m] = 1 /\ mUseCnt[m] = 0)
       /\ Contains(taken, m) /\ pToSendMsg # <<m>> /\ mUseCnt[m] = 0
            => deletes[m] = 1

\* "keep order of messages": a client gets messages in the order the Tx thread
\* took them, none twice, however often its socket would not take them.
OrderKept ==
  \A p \in Peers :
    \A a, b \in DOMAIN received[p] : a < b =>
      IndexFirstSubSeq(<<received[p][a]>>, taken)
        < IndexFirstSubSeq(<<received[p][b]>>, taken)

\* "send data to required clients": once SendMsgToClient has gone through the
\* sessions, each one the message is for has been sent it or keeps it in its
\* queue; but for the session after one that was closed on the way.
RequiredClientsServed ==
  txPc = "loop" /\ iter = 0 =>
    \A i \in Ids \ skipped : ForClient(pToSendMsg[1], i) =>
      \/ Contains(received[sessions[i].peer], pToSendMsg[1])
      \/ Contains(sessions[i].msgsToSend, pToSendMsg[1])

\* A client gets the messages meant for it, all of them and in order, whatever its
\* socket and the other clients do.
ClientsServedInOrder == OrderKept /\ RequiredClientsServed

\* mConnected only when there is a client, one client only when only one is
\* allowed, and the clients last reported up are those with a session.  A client
\* that was accepted, and whose socket is still open, has a session to be served
\* in, unless another cTcp made the server give it an id in use.  Between updates
\* the SOCKET status last reported is mConnected, unless a send has closed a
\* socket.
StatusMatchesSessions ==
  /\ alive = "yes" =>
       /\ mConnected => Ids # {}
       /\ mSingleClientConnection => Cardinality(Ids) <= 1
       /\ {i \in ClientIds : clientState[i] = "LinkUp"} = Ids
  /\ "renumbered" \notin mishaps => open = PeersOf(Ids)
  /\ rxPc = "update" /\ "closed by send" \notin mishaps =>
       (socketState = "LinkUp") = mConnected
=============================================================================
