------------------------------ MODULE SmartPtr ------------------------------
(***************************************************************************)
(* SmartPtr and RefCount: objects that are deleted when the last of the    *)
(* counted pointers to them goes.                                          *)
(*                                                                         *)
(* The pointers are the program's variables, one member of each object,    *)
(* and for each thread the temporary it makes in an assignment, which also *)
(* stands for the plain pointer that `new' gives it.  An object names its  *)
(* member and a thread its temporary.  A pointer that is not constructed   *)
(* is NULL.  Only the counts are changed with interlocked operations: the  *)
(* steps of two threads' calls interleave.                                 *)
(***************************************************************************)
EXTENDS Integers, Sequences, FiniteSets

CONSTANTS
  Objects, Variables, Threads,
  MaxCalls,       \* bound on the calls
  NULL

VARIABLES
  p,              \* of each pointer: the object it refers to, or NULL
  crefs, life,    \* of each object; life is "unborn", "alive" or "deleted"
  todo,           \* of each thread: the steps that are left of its call
  reads, writes,  \* of each thread: the pointers its call uses, and assigns
  calls,
  \* History variable.
  mishaps         \* "raced": a pointer was assigned while another thread used it
                  \* "freed": a deleted object, or its member, was used

vars == <<p, crefs, life, todo, reads, writes, calls, mishaps>>

Pointers == Objects \cup Variables \cup Threads

\* A name is that of one pointer.
Parameters ==
  /\ Objects \cap Variables = {}
  /\ Threads \cap (Objects \cup Variables) = {}
  /\ NULL \notin Pointers
  /\ MaxCalls \in Nat

Init ==
  /\ p = [x \in Pointers |-> NULL]
  /\ crefs = [o \in Objects |-> 0]
  /\ life = [o \in Objects |-> "unborn"]
  /\ todo = [t \in Threads |-> <<>>]
  /\ reads = [t \in Threads |-> {}]
  /\ writes = [t \in Threads |-> {}]
  /\ calls = 0
  /\ mishaps = {}

-----------------------------------------------------------------------------
(* The steps of a call.  x and y are pointers.                             *)

\* Mutant of Copying: the new reference is not counted.
Copying_Uncounted(x, y) == << <<"set", x, y>> >>

\* The copy constructor.
Copying(x, y) == << <<"set", x, y>>, <<"upcount", x>> >>

\* Mutant of Assigning: the old object is released after the new one is taken.
Assigning_SetFirst(x, y) ==
  << <<"compare", x, y>>, <<"set", x, y>>, <<"upcount", x>>, <<"downcount", x>> >>

\* operator= with a plain pointer, which y has.
Assigning(x, y) ==
  << <<"compare", x, y>>, <<"downcount", x>>, <<"set", x, y>>, <<"upcount", x>> >>

\* The destructor, and the assignment of NULL.
Releasing(x) == << <<"downcount", x>>, <<"set", x, NULL>> >>

Forgetting(t) == << <<"set", t, NULL>> >>

-----------------------------------------------------------------------------
(* The calls.                                                              *)

\* The pointers an expression can name through variable v.
Named(v) == {v} \cup (IF p[v] = NULL THEN {} ELSE {p[v]})

\* The thread uses the pointers rs until the call ends, and assigns x.  After a
\* race no new call is followed.
Call(t, x, rs, steps) ==
  /\ mishaps = {}
  /\ calls < MaxCalls
  /\ todo[t] = <<>>
  /\ calls' = calls + 1
  /\ todo' = [todo EXCEPT ![t] = steps]
  /\ reads' = [reads EXCEPT ![t] = rs]
  /\ writes' = [writes EXCEPT ![t] = {x}]
  /\ mishaps' = mishaps \cup
       {m \in {"raced"} : \E u \in Threads \ {t} :
          \/ x \in reads[u] \cup writes[u]
          \/ rs \cap writes[u] # {}}

\* A new variable is made a copy of y, which is named through w.
Construct(t, v, w, y) ==
  /\ p[v] = NULL
  /\ y \in Named(w)
  /\ Call(t, v, {w, y}, Copying(v, y))
  /\ UNCHANGED <<p, crefs, life>>

\* Mutant of Assign: y's plain pointer is assigned.
Assign_NoTemporary(t, v, x, w, y) ==
  /\ x \in Named(v) /\ y \in Named(w)
  /\ Call(t, x, {v, w, y} \ {x},
          << <<"set", t, y>> >> \o Assigning(x, t) \o Forgetting(t))
  /\ UNCHANGED <<p, crefs, life>>

\* x = y, where x is named through v and y through w: a temporary copy of y keeps
\* the object while x gives up its own.
Assign(t, v, x, w, y) ==
  /\ x \in Named(v) /\ y \in Named(w)
  /\ Call(t, x, {v, w, y} \ {x}, Copying(t, y) \o Assigning(x, t) \o Releasing(t))
  /\ UNCHANGED <<p, crefs, life>>

\* x = new object
AssignNew(t, v, x, o) ==
  /\ x \in Named(v)
  /\ life[o] = "unborn"
  /\ Call(t, x, {v} \ {x}, Assigning(x, t) \o Forgetting(t))
  /\ life' = [life EXCEPT ![o] = "alive"]
  /\ p' = [p EXCEPT ![t] = o]
  /\ UNCHANGED crefs

\* x = NULL, or the end of the variable's scope.
Release(t, v, x) ==
  /\ x \in Named(v)
  /\ p[x] # NULL
  /\ Call(t, x, {v} \ {x}, Releasing(x))
  /\ UNCHANGED <<p, crefs, life>>

-----------------------------------------------------------------------------
(* The thread's next step.                                                 *)

\* A deleted object is used, or the member of one.
UsesFreed(s) ==
  \/ \E i \in 2 .. Len(s) : s[i] \in Objects /\ life[s[i]] = "deleted"
  \/ s[1] \in {"upcount", "downcount"} /\ p[s[2]] \in Objects
       /\ life[p[s[2]]] = "deleted"

\* The call goes on with the steps rest, or ends.
GoesOn(t, rest) ==
  /\ todo' = [todo EXCEPT ![t] = rest]
  /\ reads' = IF rest = <<>> THEN [reads EXCEPT ![t] = {}] ELSE reads
  /\ writes' = IF rest = <<>> THEN [writes EXCEPT ![t] = {}] ELSE writes
  /\ UNCHANGED <<calls, mishaps>>

Does(t, op) ==
  /\ "freed" \notin mishaps
  /\ todo[t] # <<>>
  /\ todo[t][1][1] = op
  /\ ~UsesFreed(todo[t][1])

Set(t) ==
  /\ Does(t, "set")
  /\ LET x == todo[t][1][2]
         y == todo[t][1][3]
     IN p' = [p EXCEPT ![x] = IF y = NULL THEN NULL ELSE p[y]]
  /\ GoesOn(t, Tail(todo[t]))
  /\ UNCHANGED <<crefs, life>>

\* Nothing is assigned when both pointers are equal.
Compare(t) ==
  /\ Does(t, "compare")
  /\ LET x == todo[t][1][2]
         y == todo[t][1][3]
     IN GoesOn(t, SubSeq(todo[t], IF p[x] = p[y] THEN 5 ELSE 2, Len(todo[t])))
  /\ UNCHANGED <<p, crefs, life>>

upcount(t) ==
  /\ Does(t, "upcount")
  /\ LET o == p[todo[t][1][2]]
     IN crefs' = IF o = NULL THEN crefs ELSE [crefs EXCEPT ![o] = @ + 1]
  /\ GoesOn(t, Tail(todo[t]))
  /\ UNCHANGED <<p, life>>

\* Mutant of downcount: the object is deleted without its member's destructor.
downcount_NoMember(t) ==
  /\ Does(t, "downcount")
  /\ LET o == p[todo[t][1][2]]
     IN IF o = NULL
        THEN GoesOn(t, Tail(todo[t])) /\ UNCHANGED crefs
        ELSE /\ crefs' = [crefs EXCEPT ![o] = @ - 1]
             /\ GoesOn(t, (IF crefs[o] = 1 THEN << <<"delete", o>> >> ELSE <<>>)
                            \o Tail(todo[t]))
  /\ UNCHANGED <<p, life>>

\* The last reference deletes the object, whose destructor releases its member.
downcount(t) ==
  /\ Does(t, "downcount")
  /\ LET o == p[todo[t][1][2]]
     IN IF o = NULL
        THEN GoesOn(t, Tail(todo[t])) /\ UNCHANGED crefs
        ELSE /\ crefs' = [crefs EXCEPT ![o] = @ - 1]
             /\ GoesOn(t, (IF crefs[o] = 1
                           THEN << <<"downcount", o>>, <<"delete", o>> >>
                           ELSE <<>>) \o Tail(todo[t]))
  /\ UNCHANGED <<p, life>>

Delete(t) ==
  /\ Does(t, "delete")
  /\ LET o == todo[t][1][2]
     IN /\ life' = [life EXCEPT ![o] = "deleted"]
        /\ p' = [p EXCEPT ![o] = NULL]
  /\ GoesOn(t, Tail(todo[t]))
  /\ UNCHANGED crefs

\* What follows the use of freed memory is undefined.
Fails(t) ==
  /\ "freed" \notin mishaps
  /\ todo[t] # <<>>
  /\ UsesFreed(todo[t][1])
  /\ mishaps' = mishaps \cup {"freed"}
  /\ UNCHANGED <<p, crefs, life, todo, reads, writes, calls>>

-----------------------------------------------------------------------------
Next ==
  \E t \in Threads :
    \/ \E v, w \in Variables, x, y \in Variables \cup Objects :
         \/ Construct(t, v, w, y)
         \/ Assign(t, v, x, w, y)
         \/ Release(t, v, x)
         \/ \E o \in Objects : AssignNew(t, v, x, o)
    \/ Set(t) \/ Compare(t) \/ upcount(t) \/ downcount(t) \/ Delete(t) \/ Fails(t)

Spec == Init /\ [][Next]_vars

-----------------------------------------------------------------------------
TypeOK ==
  /\ p \in [Pointers -> Objects \cup {NULL}]
  /\ crefs \in [Objects -> Int]
  /\ life \in [Objects -> {"unborn", "alive", "deleted"}]
  /\ reads \in [Threads -> SUBSET (Variables \cup Objects)]
  /\ writes \in [Threads -> SUBSET (Variables \cup Objects)]
  /\ calls \in 0 .. MaxCalls
  /\ mishaps \subseteq {"raced", "freed"}

\* The pointers that the thread will set or count first, without lowering a count
\* for what they hold now.
Uncounted(t) ==
  {x \in Pointers :
     \E i \in DOMAIN todo[t] :
       /\ todo[t][i][1] \in {"set", "upcount", "delete"}
       /\ todo[t][i][2] = x
       /\ \A j \in 1 .. i - 1 : todo[t][j] # <<"downcount", x>>}

References(o) ==
  {x \in Pointers : p[x] = o /\ \A t \in Threads : x \notin Uncounted(t)}

\* The object's last reference is gone, or its first one is still to come.
Unreferenced(o) ==
  \E t \in Threads :
    \/ \E i \in DOMAIN todo[t] : todo[t][i] = <<"delete", o>>
    \/ p[t] = o /\ todo[t] # <<>>

\* As long as no pointer is assigned while another thread uses it, every count is
\* the number of references that have been counted, whatever the interleaving of
\* copies, assignments and destructions; an object without references is deleted,
\* one with references is not, and nothing deleted is used.
CountsAreReferences ==
  /\ TypeOK
  /\ "raced" \notin mishaps =>
       /\ "freed" \notin mishaps
       /\ \A o \in Objects :
            /\ life[o] # "deleted" => crefs[o] = Cardinality(References(o))
            /\ life[o] = "alive" /\ References(o) = {} => Unreferenced(o)
            /\ life[o] = "deleted" => References(o) = {}
=============================================================================
