------------------------------ MODULE TcpSend ------------------------------
(***************************************************************************)
(* The transmit side of a cTcp in client mode: Send() queues a message and *)
(* waits for its fate, the Tx thread takes messages from the queue, sends  *)
(* them and waits for an ACK, resending on a timeout or a NAK, and the Rx  *)
(* thread connects, and turns what the peer answers into mAckNakStatus and *)
(* an event.  The Rx thread runs without mLockMutex in this mode.          *)
(*                                                                         *)
(* mUseCnt is an int that AddRef and Dismiss change without a lock.  The   *)
(* Tx thread's changes are one action each and the sender's Dismiss is a   *)
(* load and a store, so that either may lose the other's update.           *)
(*                                                                         *)
(* Time is abstract: each wait may end by its timeout.  mTxMsgEvent is     *)
(* left out: the Tx thread also polls the queue when its wait times out.   *)
(* The heartbeat timer is left out; the heartbeat that the Rx thread sends *)
(* when it has connected is not.                                           *)
(***************************************************************************)
EXTENDS Integers, FiniteSets, SequencesExt

CONSTANTS
  Clients,      \* threads that call Send
  RxThread,     \* calls Send too, for the heartbeat of a new connection
  Msgs,
  Heartbeat,    \* mInitParams.hb is not empty
  MaxRetries,   \* mInitParams.maxretriesP
  MaxLinks      \* bound on the number of connections

ASSUME TcpSendAssumption ==
  /\ Heartbeat \in BOOLEAN
  /\ MaxRetries \in Nat
  /\ MaxLinks \in Nat
  /\ RxThread \notin Clients

VARIABLES
  waitForAckP,    \* of mInitParams, given once
  msgsTxQueue,
  mAckNakStatus,  \* "none", "ack" or "nak"
  mAckNakEvent,   \* auto-reset: a wait that it ends resets it
  mTXstate,
  mConnected,
  iResult,        \* the client's: "zero", "error" for SOCKET_ERROR, or "other"
  mUseCnt,        \* of each message
  msgStatus,      \* mAckNakStatus of each message
  mAckEvent,      \* of each message
  pc,             \* of each sender
  sending,        \* the message of each sender's Send, as <<>> or <<m>>
  loaded,         \* the count each sender's Dismiss has read
  txPc,
  pToSendMsg,     \* the Tx thread's message, as <<>> or <<m>>
  retriesLeft,
  rxPc,
  wasconnected,
  unanswered,     \* transmissions the peer may still answer
  links,          \* connections made so far
  \* History variables: they record what happened and guard no action.
  results,        \* what the Send of each message returned, or "none"
  attempts,       \* number of calls of send() with each message
  acks,           \* ACKs received
  ackSinceTaken,  \* an ACK arrived since the Tx thread took its message
  deletes         \* number of times each message was deleted

shared == <<mAckNakStatus, mAckNakEvent>>
counts == <<mUseCnt, deletes>>
reply  == <<msgStatus, mAckEvent>>
sender == <<pc, sending, loaded, results>>
txCtl  == <<txPc, pToSendMsg, retriesLeft, mTXstate>>
wire   == <<attempts, unanswered>>
link   == <<waitForAckP, mConnected, iResult, rxPc, wasconnected, links>>
answers == <<ackSinceTaken, acks>>
vars == <<msgsTxQueue, shared, counts, reply, sender, txCtl, wire, link,
          answers>>

Senders == Clients \cup {RxThread}

-----------------------------------------------------------------------------
Init ==
  /\ waitForAckP \in BOOLEAN
  /\ msgsTxQueue = <<>>
  /\ mAckNakStatus = "none"
  /\ mAckNakEvent = FALSE
  /\ mTXstate = "LinkDown"
  /\ mConnected \in BOOLEAN   \* the constructor tries to connect
  /\ iResult = "zero"
  /\ mUseCnt = [m \in Msgs |-> 0]
  /\ msgStatus = [m \in Msgs |-> "none"]
  /\ mAckEvent = [m \in Msgs |-> FALSE]
  /\ pc = [s \in Senders |-> "idle"]
  /\ sending = [s \in Senders |-> <<>>]
  /\ loaded = [s \in Senders |-> 0]
  /\ txPc = "idle"
  /\ pToSendMsg = <<>>
  /\ retriesLeft = 0
  /\ rxPc = "update"
  /\ wasconnected = FALSE
  /\ unanswered = 0
  /\ links = IF mConnected THEN 1 ELSE 0
  /\ results = [m \in Msgs |-> "none"]
  /\ attempts = [m \in Msgs |-> 0]
  /\ ackSinceTaken = FALSE
  /\ acks = 0
  /\ deletes = [m \in Msgs |-> 0]

\* Dismiss of a message whose count was read as n.
DismissFrom(m, n) ==
  LET left == IF n > 0 THEN n - 1 ELSE 0 IN
  /\ mUseCnt' = [mUseCnt EXCEPT ![m] = left]
  /\ deletes' = IF left = 0 THEN [deletes EXCEPT ![m] = @ + 1] ELSE deletes

Dismiss(m) == DismissFrom(m, mUseCnt[m])

-----------------------------------------------------------------------------
\* cTcp::Send.

Fresh(m) == mUseCnt[m] = 0 /\ deletes[m] = 0

\* The message is created and queued.  With waitForAckP the sender takes a
\* reference of its own and waits.
Queue(s, m) ==
  /\ pc[s] = "idle"
  /\ Fresh(m)
  /\ msgsTxQueue' = Append(msgsTxQueue, m)
  /\ mUseCnt' = [mUseCnt EXCEPT ![m] = IF waitForAckP THEN 2 ELSE 1]
  /\ IF waitForAckP
     THEN /\ pc' = [pc EXCEPT ![s] = "wait"]
          /\ sending' = [sending EXCEPT ![s] = <<m>>]
          /\ UNCHANGED results
     ELSE /\ results' = [results EXCEPT ![m] = "ok"]
          /\ UNCHANGED <<pc, sending>>
  /\ UNCHANGED <<deletes, loaded>>

Send(c, m) ==
  /\ Queue(c, m)
  /\ UNCHANGED <<shared, reply, txCtl, wire, link, answers>>

\* The wait for the Tx thread's verdict is over.  Unless it was an ACK, Send
\* fails and empties the queue of everybody's messages.
Verdict(s, res) ==
  /\ pc' = [pc EXCEPT ![s] = "dismiss"]
  /\ results' = [results EXCEPT ![sending[s][1]] = res]
  /\ msgsTxQueue' = IF res = "ok" THEN msgsTxQueue ELSE <<>>
  /\ UNCHANGED <<shared, counts, msgStatus, sending, loaded, txCtl, wire, link,
                 answers>>

SendWakes(s) ==
  /\ pc[s] = "wait"
  /\ LET m == sending[s][1] IN
     /\ mAckEvent[m]
     /\ mAckEvent' = [mAckEvent EXCEPT ![m] = FALSE]
     /\ Verdict(s, IF msgStatus[m] = "ack" THEN "ok" ELSE "failed")

SendTimesOut(s) ==
  /\ pc[s] = "wait"
  /\ ~mAckEvent[sending[s][1]]
  /\ Verdict(s, "failed")
  /\ UNCHANGED mAckEvent

DismissLoad(s) ==
  /\ pc[s] = "dismiss"
  /\ pc' = [pc EXCEPT ![s] = "store"]
  /\ loaded' = [loaded EXCEPT ![s] = mUseCnt[sending[s][1]]]
  /\ UNCHANGED <<msgsTxQueue, shared, counts, reply, sending, results, txCtl,
                 wire, link, answers>>

DismissStore(s) ==
  /\ pc[s] = "store"
  /\ pc' = [pc EXCEPT ![s] = "idle"]
  /\ DismissFrom(sending[s][1], loaded[s])
  /\ sending' = [sending EXCEPT ![s] = <<>>]
  /\ loaded' = [loaded EXCEPT ![s] = 0]
  /\ UNCHANGED <<msgsTxQueue, shared, reply, results, txCtl, wire, link,
                 answers>>

-----------------------------------------------------------------------------
\* The Tx thread: cTcp::SendQueuedMsg.

\* The message at position i is taken out of the queue.
Taken(i) ==
  /\ txPc = "idle"
  /\ i \in DOMAIN msgsTxQueue
  /\ pToSendMsg' = <<msgsTxQueue[i]>>
  /\ msgsTxQueue' = RemoveAt(msgsTxQueue, i)
  /\ ackSinceTaken' = FALSE
  /\ UNCHANGED acks
  /\ txPc' = "addref"
  /\ UNCHANGED <<mAckNakEvent, counts, reply, sender, retriesLeft, mTXstate,
                 wire, link>>

\* Mutants of TakeMsg: the status is not reset; the newest message goes first.
TakeMsg_NoReset == Taken(1) /\ UNCHANGED mAckNakStatus
\* GetNextMsgToSend, and the reset of the status.  The event is not reset.
TakeMsg == Taken(1) /\ mAckNakStatus' = "none"

\* Mutant of AddRef: the Tx thread takes no reference of its own.
AddRef_Forgotten ==
  /\ txPc = "addref"
  /\ txPc' = "send"
  /\ UNCHANGED <<msgsTxQueue, shared, counts, reply, sender, pToSendMsg,
                 retriesLeft, mTXstate, wire, link, answers>>

AddRef ==
  /\ txPc = "addref"
  /\ mUseCnt' = [mUseCnt EXCEPT ![pToSendMsg[1]] = @ + 1]
  /\ txPc' = "send"
  /\ UNCHANGED <<msgsTxQueue, shared, deletes, reply, sender, pToSendMsg,
                 retriesLeft, mTXstate, wire, link, answers>>

\* cTcpClient::Send looks at no result of send(), which puts the message on the
\* wire or fails, and dismisses the message whether it was sent or not.
ClientSend(m) ==
  /\ Dismiss(m)
  /\ IF mConnected
     THEN /\ attempts' = [attempts EXCEPT ![m] = @ + 1]
          /\ unanswered' \in {unanswered, unanswered + 1}
     ELSE UNCHANGED wire
  /\ UNCHANGED <<msgsTxQueue, reply, sender, pToSendMsg, link, answers>>

\* What it may return: it looks at the result of the last call of the Rx thread,
\* and only if that was SOCKET_ERROR at the last error of its own thread, which is
\* that of this send(), or of an earlier one if this has succeeded.
Sent == IF ~mConnected \/ iResult = "zero" THEN {FALSE}
        ELSE IF iResult = "error" THEN BOOLEAN
        ELSE {TRUE}

\* SendMsg has succeeded, or not.
Proceed(sent) ==
  /\ txPc' = IF sent /\ waitForAckP THEN "wait" ELSE "done"
  /\ retriesLeft' = IF sent /\ waitForAckP THEN MaxRetries + 1 ELSE 0
  /\ mTXstate' = IF sent /\ ~waitForAckP THEN "LinkUp" ELSE mTXstate

\* Mutant of FirstSend: the result of SendMsg is not looked at.
FirstSend_Unchecked ==
  txPc = "send" /\ ClientSend(pToSendMsg[1]) /\ Proceed(TRUE) /\ UNCHANGED shared

FirstSend ==
  /\ txPc = "send"
  /\ ClientSend(pToSendMsg[1])
  /\ \E sent \in Sent : Proceed(sent)
  /\ UNCHANGED shared

\* The wait for the answer ends, by the event or by the timeout.
AckWaitEnds ==
  /\ txPc = "wait"
  /\ txPc' = IF mAckNakEvent THEN "woken" ELSE "timedout"
  /\ mAckNakEvent' = FALSE
  /\ retriesLeft' = retriesLeft - 1
  /\ UNCHANGED <<msgsTxQueue, mAckNakStatus, counts, reply, sender, pToSendMsg,
                 mTXstate, wire, link, answers>>

NoAck == txPc = "timedout" \/ (txPc = "woken" /\ mAckNakStatus = "nak")

\* The loop ends and the state of the TX link is known.
LinkState(s) ==
  /\ mTXstate' = s
  /\ retriesLeft' = 0
  /\ txPc' = "answer"
  /\ UNCHANGED <<msgsTxQueue, shared, counts, reply, sender, pToSendMsg, wire,
                 link, answers>>

AckReceived == txPc = "woken" /\ ~NoAck /\ LinkState("LinkUp")

GiveUp == NoAck /\ retriesLeft = 0 /\ LinkState("LinkDown")

\* The result of this SendMsg is not looked at.
Resend ==
  /\ NoAck
  /\ retriesLeft > 0
  /\ mAckNakStatus' = "none"
  /\ ClientSend(pToSendMsg[1])
  /\ txPc' = "wait"
  /\ UNCHANGED <<mAckNakEvent, retriesLeft, mTXstate>>

\* The message's sender is told: the status is read again.
TellSender ==
  /\ txPc = "answer"
  /\ msgStatus' = [msgStatus EXCEPT ![pToSendMsg[1]] = mAckNakStatus]
  /\ mAckEvent' = [mAckEvent EXCEPT ![pToSendMsg[1]] = TRUE]
  /\ txPc' = "done"
  /\ UNCHANGED <<msgsTxQueue, shared, counts, sender, pToSendMsg, retriesLeft,
                 mTXstate, wire, link, answers>>

TxDismiss ==
  /\ txPc = "done"
  /\ Dismiss(pToSendMsg[1])
  /\ pToSendMsg' = <<>>
  /\ txPc' = "idle"
  /\ UNCHANGED <<msgsTxQueue, shared, reply, sender, retriesLeft, mTXstate,
                 wire, link, answers>>

-----------------------------------------------------------------------------
\* The Rx thread: cTcp::Update, when it is not inside a Send of its own.

\* ReceivePackets clears iResult before it does anything else.
Poll ==
  /\ rxPc = "update"
  /\ pc[RxThread] = "idle"
  /\ rxPc' = "recv"
  /\ iResult' = "zero"
  /\ wasconnected' = mConnected
  /\ UNCHANGED <<waitForAckP, msgsTxQueue, shared, counts, reply, sender,
                 txCtl, wire, mConnected, links, answers>>

\* TryToConnect.
Connect ==
  /\ rxPc = "recv"
  /\ ~mConnected
  /\ links < MaxLinks
  /\ links' = links + 1
  /\ mConnected' = TRUE
  /\ UNCHANGED <<waitForAckP, msgsTxQueue, shared, counts, reply, sender,
                 txCtl, wire, iResult, rxPc, wasconnected, answers>>

\* The rest of Update: the heartbeat of a new connection, while messages last.
EndUpdate ==
  /\ rxPc' = "update"
  /\ IF Heartbeat /\ mConnected /\ ~wasconnected /\ \E m \in Msgs : Fresh(m)
     THEN \E m \in Msgs : Queue(RxThread, m)
     ELSE UNCHANGED <<msgsTxQueue, counts, sender>>

\* Nothing to receive but messages, or no connection.
RecvNothing ==
  /\ rxPc = "recv"
  /\ iResult' \in (IF mConnected THEN {"error", "other"} ELSE {"zero"})
  /\ EndUpdate
  /\ UNCHANGED <<waitForAckP, shared, reply, txCtl, wire, mConnected,
                 wasconnected, links, answers>>

\* recv() finds the connection closed ...
RecvClosed ==
  /\ rxPc = "recv"
  /\ mConnected
  /\ iResult' \in {"zero", "error"}
  /\ unanswered' = 0
  /\ rxPc' = "close"
  /\ UNCHANGED <<waitForAckP, msgsTxQueue, shared, counts, reply, sender,
                 txCtl, attempts, mConnected, wasconnected, links, answers>>

\* ... and ReceivePackets closes it, under a send() of the Tx thread or not.
Close ==
  /\ rxPc = "close"
  /\ mConnected' = FALSE
  /\ unanswered' = 0
  /\ rxPc' = "update"
  /\ UNCHANGED <<waitForAckP, msgsTxQueue, shared, counts, reply, sender,
                 txCtl, attempts, iResult, wasconnected, links, answers>>

\* An answer: IsAckNak stores the status ...
RecvAnswer(a) ==
  /\ waitForAckP
  /\ rxPc = "recv"
  /\ mConnected
  /\ unanswered > 0
  /\ unanswered' = unanswered - 1
  /\ iResult' = "other"
  /\ mAckNakStatus' = a
  /\ rxPc' = "signal"
  /\ ackSinceTaken' = (ackSinceTaken \/ a = "ack")
  /\ acks' = IF a = "ack" THEN acks + 1 ELSE acks
  /\ UNCHANGED <<waitForAckP, msgsTxQueue, mAckNakEvent, counts, reply, sender,
                 txCtl, attempts, mConnected, wasconnected, links>>

\* ... then signals the event.
SignalAnswer ==
  /\ rxPc = "signal"
  /\ mAckNakEvent' = TRUE
  /\ EndUpdate
  /\ UNCHANGED <<waitForAckP, mAckNakStatus, reply, txCtl, wire, mConnected,
                 iResult, wasconnected, links, answers>>

-----------------------------------------------------------------------------
Next ==
  \/ \E c \in Clients, m \in Msgs : Send(c, m)
  \/ \E s \in Senders :
       SendWakes(s) \/ SendTimesOut(s) \/ DismissLoad(s) \/ DismissStore(s)
  \/ TakeMsg \/ AddRef \/ FirstSend \/ AckWaitEnds \/ AckReceived \/ Resend
  \/ GiveUp \/ TellSender \/ TxDismiss
  \/ Poll \/ Connect \/ RecvNothing \/ RecvClosed \/ Close
  \/ SignalAnswer
  \/ \E a \in {"ack", "nak"} : RecvAnswer(a)

Spec == Init /\ [][Next]_vars

-----------------------------------------------------------------------------
\* Types; a thread holds a message exactly while it works on one.
TypeOK ==
  /\ msgsTxQueue \in Seq(Msgs)
  /\ mAckNakStatus \in {"none", "ack", "nak"}
  /\ mAckNakEvent \in BOOLEAN
  /\ mTXstate \in {"LinkUp", "LinkDown"}
  /\ mUseCnt \in [Msgs -> 0 .. 3]
  /\ mAckEvent \in [Msgs -> BOOLEAN]
  /\ \A s \in Senders : Len(sending[s]) = IF pc[s] = "idle" THEN 0 ELSE 1
  /\ Len(pToSendMsg) = IF txPc = "idle" THEN 0 ELSE 1
  /\ retriesLeft \in 0 .. MaxRetries + 1

Succeeded == {m \in Msgs : results[m] = "ok"}

\* With waitForAckP, Send returns success for no more messages than ACKs were
\* received, so none counts for two, and only for a message that send() was called
\* with.  And no message is sent more than MaxRetries + 1 times, whatever the peer
\* answers and however often the link is lost.
SuccessIsAnswered ==
  /\ TypeOK
  /\ \A m \in Msgs : attempts[m] <= MaxRetries + 1
  /\ waitForAckP => /\ \A m \in Succeeded : attempts[m] > 0
                    /\ Cardinality(Succeeded) <= acks

\* The verdict "ack" is given on an ACK that arrived after the Tx thread took the
\* message: not on one that was there, though it may answer an earlier message.
AckAfterTaking ==
  [][\A m \in Msgs : msgStatus[m] # "ack" /\ msgStatus'[m] = "ack"
       => ackSinceTaken /\ pToSendMsg = <<m>>]_vars

\* Every success rests on an ACK of its own, received in time, and on a send(); not
\* on its being transmitted, as send() may fail and the ACK be a late one.
VerdictsAreAnswered == []SuccessIsAnswered /\ AckAfterTaking

\* Without waitForAckP no message in the queue, in the Tx thread's hands or in a
\* sender's was deleted, and none was deleted twice.
NoUseAfterDelete ==
  ~waitForAckP => \A m \in Msgs :
    /\ deletes[m] <= 1
    /\ deletes[m] = 1 => /\ ~Contains(msgsTxQueue, m)
                         /\ pToSendMsg # <<m>>
                         /\ \A s \in Senders : sending[s] # <<m>>
=============================================================================
