----------------------------- MODULE TcpReceive -----------------------------
(***************************************************************************)
(* The receive side of a cTcp in client mode: the Rx thread cuts what the  *)
(* socket delivers into messages (cTcpMsg::Add), restarts the silence      *)
(* timer for each (KickRxTimer) and gives it to the callback, or to a      *)
(* waiting sender if it is an ACK; the timer thread turns the RX link down *)
(* when the timer expires (OnTimerEvent).  The timers are those of         *)
(* TimerService: one expiry at a time, also of a timer killed meanwhile.   *)
(* The code knows a timer by the number of its slot, which a new timer may *)
(* have as soon as the old one is killed.                                  *)
(*                                                                         *)
(* mRxTimerId is read and written by both threads without a lock, so each  *)
(* access to it, and each call to the timer manager, is a step.            *)
(***************************************************************************)
EXTENDS Integers, SequencesExt

CONSTANTS
  Setups,   \* records: params, and the streams a server may send with them
  Timers,   \* bound on the timers created, 1 .. n in the order of creation
  Slots,    \* of the timer manager, for this cTcp
  MaxLinks, \* bound on the number of connections
  NULL

\* Characters, as in cTcpMsg.h and in the search for the end of a message.
ACK == 6
NAK == 21
ETX == 3
None == -1
INVALID_TIMER == -1

ASSUME TcpReceiveAssumption ==
  /\ Timers \subseteq Nat
  /\ INVALID_TIMER \notin Slots
  /\ NULL \notin Timers
  /\ MaxLinks \in Nat
  /\ \A s \in Setups : s.params.RxEtx \in {None, ETX}

VARIABLES
  mInitParams,
  stream,      \* all that the server sends on this connection
  read,        \* how much of it the Rx thread has read
  links,       \* connections made
  rxBuf,       \* what is left of mRxBuf
  mDataV,      \* of mpRxMsg
  rxPc,
  mRXstate,
  mRxTimerId,
  newTimer,    \* what CreateTimer has returned
  slot,        \* of each timer
  mAckNakStatus,
  timerPc,     \* where OnTimerEvent is
  life, expiring, phase, suspended,  \* of TimerService: nothing suspends it here
  \* History variables.
  events,      \* messages given to the callback
  earlier,     \* those due from connections that are lost
  kicked,      \* the timer was restarted, in another slot, since the pending expiry
  mishaps

rxVars    == <<rxBuf, mDataV, rxPc>>
timerVars == <<life, expiring, phase, suspended>>
vars == <<mInitParams, stream, read, links, rxVars, mRXstate, mRxTimerId,
          newTimer, slot, mAckNakStatus, timerPc, timerVars, events, earlier, kicked,
          mishaps>>

TimerManager == INSTANCE TimerService

Streams == UNION {s.streams : s \in {t \in Setups : t.params = mInitParams}}

Init ==
  /\ \E s \in Setups : mInitParams = s.params /\ stream \in s.streams
  /\ read = 0
  /\ links = 1
  /\ rxBuf = <<>> /\ mDataV = <<>> /\ rxPc = "poll"
  /\ mRXstate = "LinkDown"
  /\ mRxTimerId = INVALID_TIMER
  /\ newTimer = INVALID_TIMER
  /\ slot = [k \in Timers |-> INVALID_TIMER]
  /\ mAckNakStatus = "none"
  /\ timerPc = "idle"
  /\ TimerManager!Init
  /\ events = <<>>
  /\ earlier = <<>>
  /\ kicked = FALSE
  /\ mishaps = {}

-----------------------------------------------------------------------------
\* cTcpMsg::Add, on the data gathered so far and a non-empty buffer.

IsAnswer(c) == c \in {ACK, NAK}

\* memchr and memsearch: the first position, or 0.
PositionOf(needle, s) ==
  LET found == {i \in 1 .. Len(s) - Len(needle) + 1 :
                  SubSeq(s, i, i + Len(needle) - 1) = needle}
  IN  IF found = {} THEN 0 ELSE CHOOSE i \in found : \A j \in found : i <= j

\* Where the message begins in the buffer: 0 if it cannot begin there.
StartIn(buf) ==
  IF mDataV = <<>> /\ mInitParams.RxStx # None
  THEN PositionOf(<<mInitParams.RxStx>>, buf)
  ELSE 1

\* pTmp: where its end is in what follows, or 0.  With both an ETX and an end
\* string, the end string is looked for at the position of the ETX.
EndIn(rest) ==
  LET endStr == mInitParams.RxEndStr
      etx == PositionOf(<<ETX>>, rest)
  IN  IF mInitParams.RxEtx = None THEN
        IF endStr = <<>> THEN 0 ELSE PositionOf(endStr, rest)
      ELSE IF \/ etx = 0
              \/ Len(rest) - etx + 1 < Len(endStr)
              \/ IsPrefix(endStr, SubSeq(rest, etx, Len(rest)))
      THEN etx
      ELSE 0

\* How many characters the end of a message loses.
EndLength ==
  (IF mInitParams.RxEtx # None THEN 1 ELSE 0)
  + (IF mInitParams.RemoveEndStr THEN Len(mInitParams.RxEndStr) ELSE 0)

\* What is left of a message that is complete.
Trimmed(data) ==
  SubSeq(data, IF mInitParams.RxStx # None THEN 2 ELSE 1, Len(data) - EndLength)

\* The count in the first three characters, which it includes.
TotalCount(data) == data[1] * 65536 + data[2] * 256 + data[3]

Added(data, completed, taken) ==
  [data |-> data, completed |-> completed, taken |-> taken]

\* Mutant of AddByCount: the count is looked for in each buffer.
AddByCount_PerBuffer(data, buf) ==
  IF Len(buf) > 3 /\ TotalCount(buf) <= Len(data)
  THEN Added(SubSeq(data, 4, TotalCount(buf)), TRUE,
             Len(buf) - (Len(data) - TotalCount(buf)))
  ELSE Added(data, FALSE, Len(buf))

\* With prependCount: what exceeds the count is left in the buffer.
AddByCount(data, buf) ==
  IF Len(data) > 3 /\ TotalCount(data) <= Len(data)
  THEN Added(SubSeq(data, 4, TotalCount(data)), TRUE,
             Len(buf) - (Len(data) - TotalCount(data)))
  ELSE Added(data, FALSE, Len(buf))

\* A buffer in which a message cannot begin is skipped.
Add(buf) ==
  LET start == StartIn(buf)
      rest == SubSeq(buf, start, Len(buf))
      end  == EndIn(rest)
      stop == IF end # 0 /\ (mInitParams.RemoveEndStr \/ mInitParams.RxEndStr = <<>>)
              THEN end ELSE Len(rest)
      data == mDataV \o SubSeq(rest, 1, stop)
  IN  IF IsAnswer(Head(buf)) THEN Added(<<Head(buf)>>, TRUE, 1)
      ELSE IF start = 0 THEN Added(mDataV, FALSE, Len(buf))
      ELSE IF end # 0 THEN Added(Trimmed(data), TRUE, start - 1 + stop)
      ELSE IF mInitParams.prependCount THEN AddByCount(data, buf)
      ELSE Added(data, mInitParams.RxStx = None /\ mInitParams.RxEndStr = <<>>,
                 start - 1 + stop)

-----------------------------------------------------------------------------
\* The messages in a stream: the reference that Add is compared with.

FirstFrom(needle, s, i) ==
  LET p == PositionOf(needle, SubSeq(s, i, Len(s))) IN IF p = 0 THEN 0 ELSE i + p - 1

\* The end of the message whose first character is at i, and its content.
FrameAt(s, i) ==
  LET p == mInitParams
      endStr == (IF p.RxEtx # None THEN <<ETX>> ELSE <<>>) \o p.RxEndStr
      start == IF p.RxStx # None THEN i + 1 ELSE i
      end == FirstFrom(endStr, s, start)
      kept == IF p.RemoveEndStr THEN 0 ELSE Len(p.RxEndStr)
      counted == i + 2 <= Len(s) /\ i + TotalCount(SubSeq(s, i, i + 2)) - 1 <= Len(s)
  IN  IF IsAnswer(s[i]) THEN [found |-> TRUE, last |-> i, content |-> <<s[i]>>]
      ELSE IF p.prependCount THEN
        IF counted
        THEN LET last == i + TotalCount(SubSeq(s, i, i + 2)) - 1
             IN [found |-> TRUE, last |-> last, content |-> SubSeq(s, i + 3, last)]
        ELSE [found |-> FALSE]
      ELSE IF end = 0 THEN [found |-> FALSE]
      ELSE [found |-> TRUE, last |-> end + Len(endStr) - 1,
            content |-> SubSeq(s, start, end - 1 + kept)]

\* Where there is a start character, what is between messages is skipped.
Frames(s) ==
  LET from[i \in 1 .. Len(s) + 1] ==
        IF i > Len(s) THEN <<>>
        ELSE IF mInitParams.RxStx \notin {None, s[i]} /\ ~IsAnswer(s[i]) THEN from[i + 1]
        ELSE IF FrameAt(s, i).found
        THEN <<FrameAt(s, i).content>> \o from[FrameAt(s, i).last + 1]
        ELSE <<>>
  IN  from[1]

\* With waitForAckP a message that begins like an answer is one.
AnswersSender(m) == mInitParams.waitForAckP /\ m # <<>> /\ IsAnswer(Head(m))

ForCallback(ms) == SelectSeq(ms, LAMBDA m : ~AnswersSender(m))

-----------------------------------------------------------------------------
\* The Rx thread: receiveFromServer.

\* ReceivePackets returns part of what has arrived.
ReceivePackets ==
  /\ rxPc = "poll"
  /\ \E n \in read + 1 .. Len(stream) :
       /\ read' = n
       /\ rxBuf' = SubSeq(stream, read + 1, n)
  /\ rxPc' = "add"
  /\ UNCHANGED <<mInitParams, stream, links, mDataV, mRXstate, mRxTimerId,
                 newTimer, slot, mAckNakStatus, timerPc, timerVars, events,
                 earlier, kicked, mishaps>>

\* It finds that the connection is lost, and makes another one.  mpRxMsg stays
\* as it is.  A counted message is not torn here: the count made of two messages
\* may be less than 3, for which Add erases more characters than there are.
Reconnect ==
  /\ rxPc = "poll"
  /\ links < MaxLinks
  /\ mInitParams.prependCount => mDataV = <<>>
  /\ links' = links + 1
  /\ stream' \in Streams
  /\ read' = 0
  /\ earlier' = earlier \o ForCallback(Frames(SubSeq(stream, 1, read)))
  /\ mishaps' = IF mDataV = <<>> THEN mishaps ELSE mishaps \cup {"torn"}
  /\ UNCHANGED <<mInitParams, rxVars, mRXstate, mRxTimerId, newTimer, slot,
                 mAckNakStatus, timerPc, timerVars, events, kicked>>

\* One call of Add.  An ACK in the first place of the buffer discards the
\* message begun.
AddToMsg ==
  /\ rxPc = "add"
  /\ LET added == Add(rxBuf)
     IN  /\ mDataV' = added.data
         /\ rxBuf' = SubSeq(rxBuf, added.taken + 1, Len(rxBuf))
         /\ rxPc' = IF added.completed THEN "linkUp"
                    ELSE IF rxBuf' = <<>> THEN "poll" ELSE "add"
  /\ mishaps' = IF IsAnswer(Head(rxBuf)) /\ mDataV # <<>>
                THEN mishaps \cup {"misread"} ELSE mishaps
  /\ UNCHANGED <<mInitParams, stream, read, links, mRXstate, mRxTimerId,
                 newTimer, slot, mAckNakStatus, timerPc, timerVars, events,
                 earlier, kicked>>

Kick(from, to) ==
  /\ rxPc = from
  /\ rxPc' = to
  /\ UNCHANGED <<mInitParams, stream, read, links, rxBuf, mDataV,
                 mAckNakStatus, timerPc, events, earlier, mishaps>>

\* KickRxTimer: UpdateRxState(LinkUp) ...
KickLinkUp ==
  /\ Kick("linkUp", IF mInitParams.silence THEN "kill" ELSE "deliver")
  /\ mRXstate' = "LinkUp"
  /\ UNCHANGED <<mRxTimerId, newTimer, slot, timerVars, kicked>>

InSlot(id) == {k \in Timers : life[k] = "live" /\ slot[k] = id}

KillTimer(id) ==
  IF InSlot(id) # {} THEN \E k \in InSlot(id) : TimerManager!Cancel(k)
  ELSE UNCHANGED timerVars

\* ... KillTimer ...
KickKill ==
  /\ Kick("kill", "create")
  /\ KillTimer(mRxTimerId)
  /\ UNCHANGED <<mRXstate, mRxTimerId, newTimer, slot, kicked>>

\* ... CreateTimer, which takes a free slot: other users of the manager may
\* have taken any of the others ...
KickCreate ==
  /\ Kick("create", "assign")
  /\ \E k \in Timers, id \in Slots :
       /\ \A j \in Timers : j < k => life[j] # "unborn"
       /\ InSlot(id) = {}
       /\ TimerManager!Start(k)
       /\ slot' = [slot EXCEPT ![k] = id]
       /\ newTimer' = id
  /\ UNCHANGED <<mRXstate, mRxTimerId, kicked>>

\* Mutant of KickAssign: the timer is killed once it is replaced.
KickAssign_ThenKill ==
  /\ Kick("assign", "deliver")
  /\ mRxTimerId' = newTimer
  /\ newTimer' = INVALID_TIMER
  /\ kicked' = (phase = "pending" /\ slot[expiring] # newTimer)
  /\ KillTimer(newTimer)
  /\ UNCHANGED <<mRXstate, slot>>

\* ... and the assignment of what it returns.
KickAssign ==
  /\ Kick("assign", "deliver")
  /\ mRxTimerId' = newTimer
  /\ newTimer' = INVALID_TIMER
  /\ kicked' = (phase = "pending" /\ slot[expiring] # newTimer)
  /\ UNCHANGED <<mRXstate, slot, timerVars>>

\* IsAckNak, or the callback, and a new message.
Deliver ==
  /\ rxPc = "deliver"
  /\ IF AnswersSender(mDataV)
     THEN /\ mAckNakStatus' = IF Head(mDataV) = ACK THEN "ack" ELSE "nak"
          /\ UNCHANGED events
     ELSE /\ events' = Append(events, mDataV)
          /\ UNCHANGED mAckNakStatus
  /\ mDataV' = <<>>
  /\ rxPc' = IF rxBuf = <<>> THEN "poll" ELSE "add"
  /\ UNCHANGED <<mInitParams, stream, read, links, rxBuf, mRXstate, mRxTimerId,
                 newTimer, slot, timerPc, timerVars, earlier, kicked, mishaps>>

-----------------------------------------------------------------------------
\* The timer thread.

TimerUnchanged ==
  UNCHANGED <<mInitParams, stream, read, links, rxVars, newTimer, slot, mAckNakStatus,
              events, earlier, mishaps>>

Expire ==
  /\ timerPc = "idle"
  /\ \E k \in Timers : TimerManager!Expire(k)
  /\ kicked' = FALSE
  /\ UNCHANGED <<timerPc, mRXstate, mRxTimerId>>
  /\ TimerUnchanged

\* The manager calls OnTimerEvent ...
CallOnTimerEvent ==
  /\ TimerManager!Deliver
  /\ timerPc' = "compare"
  /\ UNCHANGED <<mRXstate, mRxTimerId, kicked>>
  /\ TimerUnchanged

\* Mutant of CompareTimer: the timer is not compared.
CompareTimer_Any ==
  /\ timerPc = "compare"
  /\ timerPc' = "stop"
  /\ UNCHANGED timerVars
  /\ UNCHANGED <<mRXstate, mRxTimerId, kicked>>
  /\ TimerUnchanged

\* ... which returns if it does not know the timer, ...
CompareTimer ==
  /\ timerPc = "compare"
  /\ IF slot[expiring] = mRxTimerId
     THEN timerPc' = "stop" /\ UNCHANGED timerVars
     ELSE timerPc' = "idle" /\ TimerManager!Finish
  /\ UNCHANGED <<mRXstate, mRxTimerId, kicked>>
  /\ TimerUnchanged

\* ... else kills it: StopRxTimer, which reads mRxTimerId again, ...
StopKill ==
  /\ timerPc = "stop"
  /\ timerPc' = IF mRxTimerId = INVALID_TIMER THEN "linkDown" ELSE "invalidate"
  /\ KillTimer(mRxTimerId)
  /\ UNCHANGED <<mRXstate, mRxTimerId, kicked>>
  /\ TimerUnchanged

StopInvalidate ==
  /\ timerPc = "invalidate"
  /\ timerPc' = "linkDown"
  /\ mRxTimerId' = INVALID_TIMER
  /\ UNCHANGED <<mRXstate, timerVars, kicked>>
  /\ TimerUnchanged

\* Mutant of LinkDown: the state is not updated.
LinkDown_NotReported ==
  /\ timerPc = "linkDown"
  /\ timerPc' = "idle"
  /\ TimerManager!Finish
  /\ UNCHANGED <<mRXstate, mRxTimerId, kicked>>
  /\ TimerUnchanged

\* ... and UpdateRxState(LinkDown).
LinkDown ==
  /\ timerPc = "linkDown"
  /\ timerPc' = "idle"
  /\ mRXstate' = "LinkDown"
  /\ TimerManager!Finish
  /\ UNCHANGED <<mRxTimerId, kicked>>
  /\ TimerUnchanged

Settle ==
  /\ TimerManager!Settle
  /\ UNCHANGED <<timerPc, mRXstate, mRxTimerId, kicked>>
  /\ TimerUnchanged

RxThread ==
  \/ ReceivePackets \/ Reconnect \/ AddToMsg
  \/ KickLinkUp \/ KickKill \/ KickCreate \/ KickAssign
  \/ Deliver

OnTimerEvent ==
  CallOnTimerEvent \/ CompareTimer \/ StopKill \/ StopInvalidate \/ LinkDown \/ Settle

Next == RxThread \/ Expire \/ OnTimerEvent

Spec == Init /\ [][Next]_vars

KickRxTimer == KickLinkUp \/ KickKill \/ KickCreate \/ KickAssign

\* Each thread goes on with what it has begun, and no other timer starves a live
\* one: RunningTimerRings of TimerManager.
FairSpec ==
  /\ Spec
  /\ WF_vars(KickRxTimer)
  /\ WF_vars(OnTimerEvent)
  /\ \A k \in Timers : SF_vars(Expire /\ expiring' = k)

-----------------------------------------------------------------------------
TypeOK ==
  /\ read \in 0 .. Len(stream)
  /\ rxPc \in {"poll", "add", "linkUp", "kill", "create", "assign", "deliver"}
  /\ rxPc = "add" => rxBuf # <<>>
  /\ mRXstate \in {"LinkUp", "LinkDown"}
  /\ mRxTimerId \in Slots \cup {INVALID_TIMER}
  /\ newTimer \in Slots \cup {INVALID_TIMER}
  /\ mAckNakStatus \in {"none", "ack", "nak"}
  /\ timerPc \in {"idle", "compare", "stop", "invalidate", "linkDown"}
  /\ mishaps \subseteq {"torn", "misread"}

\* "Fix on Tcp Server, when count on message (in prepend count mode) was split
\* in two different read": wherever the reads cut the stream, the callback gets
\* the messages in it, each once and in order.  The exceptions are a message
\* torn by the loss of the connection, whose beginning stays in mpRxMsg, and a
\* read that begins, in the middle of a message, with the code of an ACK.
MessagesAsFramed ==
  /\ TypeOK
  /\ mishaps = {} /\ rxPc = "poll" =>
       events = earlier \o ForCallback(Frames(SubSeq(stream, 1, read)))

\* While the RX link is up, and neither thread is about to change it, the timer
\* that will turn it down is running, and known by its slot: whatever the two
\* threads did to mRxTimerId, a silent peer does not go unnoticed.
SilenceWatched ==
  mInitParams.silence /\ mRXstate = "LinkUp" /\ rxPc \in {"poll", "add"}
  /\ timerPc \in {"idle", "compare"}
    => InSlot(mRxTimerId) # {}

\* A link that is up goes down when the peer is silent.
SilenceReported ==
  mInitParams.silence /\ mRXstate = "LinkUp" ~> mRXstate = "LinkDown"

\* The link does not go down if a message has restarted the timer between its
\* expiry and the call of OnTimerEvent, which KillTimer could not prevent.  It
\* does if the new timer has the slot of the old one: the handler cannot tell
\* the expiry of one from that of the other.
DownOnlyAfterSilence ==
  [][mRXstate = "LinkUp" /\ mRXstate' = "LinkDown" => ~kicked]_vars

\* Silence, and nothing else, takes a link down: a link that is up is watched, a
\* silent peer is reported in the end, one that was heard in time is not.
SilenceDecides == []SilenceWatched /\ SilenceReported /\ DownOnlyAfterSilence
=============================================================================
