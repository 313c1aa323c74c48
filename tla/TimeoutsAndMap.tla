--------------------------- MODULE TimeoutsAndMap ---------------------------
(***************************************************************************)
(* What expires by a timer, of the system or of a timer manager: a         *)
(* CSSTimeout, and an entry of a TimedStringMap.  They have nothing to do  *)
(* with each other: a behaviour is one of CSSTimeout or of TimedStringMap, *)
(* and the variables of the other keep their initial values, in which      *)
(* nothing must happen.                                                    *)
(***************************************************************************)
EXTENDS CSSTimeout

CONSTANTS
  Keys, EmptyKey, MapClients, Owner, MaxInserts  \* of TimedStringMap

VARIABLES
  subject,  \* "timeout" or "map"
  \* Of TimedStringMap.
  mapLife, mapExpiring, phase, suspended, slot, keyOf, mData, mDataLock, inserting,
  map, argument, handled, overtaken, readFreed

mapVars ==
  <<mapLife, mapExpiring, phase, suspended, slot, keyOf, mData, mDataLock, inserting,
    map, argument, handled, overtaken, readFreed>>

Map == INSTANCE TimedStringMap WITH
  Clients <- MapClients, life <- mapLife, expiring <- mapExpiring

EitherInit == subject \in {"timeout", "map"} /\ Init /\ Map!Init

EitherNext ==
  /\ UNCHANGED subject
  /\ \/ subject = "timeout" /\ Next /\ UNCHANGED mapVars
     \/ subject = "map" /\ Map!Next /\ UNCHANGED vars

\* The map's timer thread goes on, and so does who holds the lock.  While there are
\* entries with keys, timers of such entries ring again and again, as each of them
\* does by RunningTimerRings of TimerManager.
MapFairness ==
  /\ SF_mapVars(\E k \in Map!Timers : keyOf[k] # EmptyKey /\ Map!TimerExpires(k))
  /\ WF_mapVars(Map!TimerCalls \/ Map!TimerReturns \/ Map!TimerGoesOn)
  /\ SF_mapVars(Map!FindsNothing \/ Map!ReadsFreed \/ Map!Expires)
  /\ WF_mapVars(\/ \E c \in MapClients : Map!InsertEnds(c)
                \/ \E key \in Keys : Map!DestructStops(key)
                \/ Map!DestructUnlocks)

EitherSpec ==
  /\ EitherInit
  /\ [][EitherNext]_<<subject, vars, mapVars>>
  /\ Fairness
  /\ MapFairness

-----------------------------------------------------------------------------
\* An entry of the map goes by its own timer (of TimedStringMap).
EntriesGoByTheirTimer == Map!EntriesGoByTheirTimer

\* No entry of the map is left in the end (of TimedStringMap).
EntriesExpire == Map!EntriesExpire
=============================================================================
