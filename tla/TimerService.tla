---------------------------- MODULE TimerService ----------------------------
(***************************************************************************)
(* What a caller of cTimerManager may rely on, without array, locks or     *)
(* ticks: timers are started and cancelled, and one thread delivers the    *)
(* expiry of a timer that was live when it expired, one expiry at a time.  *)
(* A timer cancelled while its expiry is pending is still delivered.       *)
(* Nothing is delivered while delivery is suspended.                       *)
(***************************************************************************)
CONSTANTS Timers, NULL

VARIABLES
  life,       \* unborn, live or dead
  expiring,   \* the timer whose expiry is being handled, or NULL
  phase,      \* "none", "pending", "delivering" or "over"
  suspended

vars == <<life, expiring, phase, suspended>>

Init ==
  /\ life = [k \in Timers |-> "unborn"]
  /\ expiring = NULL
  /\ phase = "none"
  /\ suspended = FALSE

Start(k) ==
  /\ life[k] = "unborn"
  /\ life' = [life EXCEPT ![k] = "live"]
  /\ UNCHANGED <<expiring, phase, suspended>>

Cancel(k) ==
  /\ life[k] = "live"
  /\ life' = [life EXCEPT ![k] = "dead"]
  /\ UNCHANGED <<expiring, phase, suspended>>

Expire(k) ==
  /\ phase = "none"
  /\ life[k] = "live"
  /\ expiring' = k
  /\ phase' = "pending"
  /\ UNCHANGED <<life, suspended>>

Deliver ==
  /\ phase = "pending"
  /\ ~suspended
  /\ phase' = "delivering"
  /\ UNCHANGED <<life, expiring, suspended>>

\* The callback returns, or the expiry is dropped because of the suspension.
Finish ==
  /\ \/ phase = "delivering"
     \/ phase = "pending" /\ suspended
  /\ phase' = "over"
  /\ UNCHANGED <<life, expiring, suspended>>

Settle ==
  /\ phase = "over"
  /\ phase' = "none"
  /\ expiring' = NULL
  /\ UNCHANGED <<life, suspended>>

SetSuspended ==
  /\ suspended' \in BOOLEAN
  /\ UNCHANGED <<life, expiring, phase>>

Shutdown ==
  /\ phase' = "none"
  /\ expiring' = NULL
  /\ UNCHANGED <<life, suspended>>

Next ==
  \/ \E k \in Timers : Start(k) \/ Cancel(k) \/ Expire(k)
  \/ Deliver \/ Finish \/ Settle \/ SetSuspended \/ Shutdown

Spec == Init /\ [][Next]_vars
=============================================================================
