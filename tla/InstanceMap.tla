----------------------------- MODULE InstanceMap -----------------------------
(***************************************************************************)
(* cInstanceMap: a std::map with a lock that each operation holds from its *)
(* beginning to its end, so each is one action.  What several operations   *)
(* do together is not protected: one thread goes through the map with      *)
(* GetFirst and GetNext while the others change it.                        *)
(***************************************************************************)
EXTENDS Integers, Sequences, Functions

CONSTANTS
  Keys,        \* a set of integers
  Elements,
  NULL

VARIABLES
  mMap,
  iteration,   \* "none", "going", "complete" (there was no further key) or "cut"
  current,     \* the key GetFirst or GetNext returned last, or NULL
  \* History variables.
  visited,     \* the keys the iteration has returned
  kept         \* the keys it found in the map that no one has removed since

walk == <<iteration, current, visited>>
vars == <<mMap, walk, kept>>

In(key) == key \in DOMAIN mMap

Init ==
  /\ mMap = [key \in {} |-> NULL]
  /\ iteration = "none"
  /\ current = NULL
  /\ visited = <<>>
  /\ kept = {}

With(key, element) ==
  [k \in DOMAIN mMap \cup {key} |-> IF k = key THEN element ELSE mMap[k]]

Insert(key, element) ==
  /\ ~In(key)
  /\ mMap' = With(key, element)
  /\ UNCHANGED <<walk, kept>>

\* Mutant of Replace: what was erased is inserted again only if asked for.
Replace_OnlyErases(key, element, alwaysInsert) ==
  /\ In(key) \/ alwaysInsert
  /\ mMap' = IF alwaysInsert THEN With(key, element)
                             ELSE Restrict(mMap, DOMAIN mMap \ {key})
  /\ UNCHANGED <<walk, kept>>

\* The old pair is erased and the new one inserted, under the same lock.
Replace(key, element, alwaysInsert) ==
  /\ In(key) \/ alwaysInsert
  /\ mMap' = With(key, element)
  /\ UNCHANGED <<walk, kept>>

Remove(key) ==
  /\ In(key)
  /\ mMap' = Restrict(mMap, DOMAIN mMap \ {key})
  /\ kept' = kept \ {key}
  /\ UNCHANGED walk

Clear ==
  /\ mMap' = [key \in {} |-> NULL]
  /\ kept' = {}
  /\ UNCHANGED walk

-----------------------------------------------------------------------------
(* The iteration.                                                          *)

Least(S) == CHOOSE k \in S : \A j \in S : k <= j

GetFirst ==
  /\ IF DOMAIN mMap = {}
     THEN /\ iteration' = "complete"
          /\ current' = NULL
          /\ visited' = <<>>
     ELSE /\ iteration' = "going"
          /\ current' = Least(DOMAIN mMap)
          /\ visited' = <<Least(DOMAIN mMap)>>
  /\ kept' = DOMAIN mMap
  /\ UNCHANGED <<mMap>>

\* The key following the current one, as long as that is in the map.
Following == {k \in DOMAIN mMap : k > current}

\* Mutant of GetNext: without the current key it starts again.
GetNext_Restarts ==
  /\ iteration = "going"
  /\ LET next == IF In(current) THEN Following ELSE DOMAIN mMap
     IN IF next = {}
        THEN iteration' = "complete" /\ UNCHANGED <<current, visited>>
        ELSE /\ current' = Least(next)
             /\ visited' = Append(visited, Least(next))
             /\ UNCHANGED iteration
  /\ UNCHANGED <<mMap, kept>>

GetNext ==
  /\ iteration = "going"
  /\ IF In(current) /\ Following # {}
     THEN /\ current' = Least(Following)
          /\ visited' = Append(visited, Least(Following))
          /\ UNCHANGED iteration
     ELSE /\ iteration' = IF In(current) THEN "complete" ELSE "cut"
          /\ UNCHANGED <<current, visited>>
  /\ UNCHANGED <<mMap, kept>>

-----------------------------------------------------------------------------
\* The keys are ordered.
Parameters == Keys \subseteq Int

Next ==
  \/ \E key \in Keys, element \in Elements :
       \/ Insert(key, element)
       \/ \E alwaysInsert \in BOOLEAN : Replace(key, element, alwaysInsert)
  \/ \E key \in Keys : Remove(key)
  \/ Clear \/ GetFirst \/ GetNext

Spec == Init /\ [][Next]_vars

-----------------------------------------------------------------------------
TypeOK ==
  /\ DOMAIN mMap \subseteq Keys
  /\ \A key \in DOMAIN mMap : mMap[key] \in Elements
  /\ iteration \in {"none", "going", "complete", "cut"}
  /\ current \in Keys \cup {NULL}
  /\ visited \in Seq(Keys)
  /\ kept \in SUBSET Keys

\* Whatever is inserted, replaced and removed meanwhile, an iteration returns no
\* key twice and misses no key that was in the map when it began and that no one
\* removed: it passes none by, and ends early only when its current key has been
\* removed.
MapIterationComplete ==
  /\ TypeOK
  /\ \A i, j \in DOMAIN visited : i < j => visited[i] < visited[j]
  /\ \A k \in kept \ Range(visited) : iteration = "cut" \/ current < k
  /\ iteration = "complete" => kept \subseteq Range(visited)
  /\ iteration = "cut" => current \notin kept
=============================================================================
