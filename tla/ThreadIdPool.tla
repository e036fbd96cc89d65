---------------------------- MODULE ThreadIdPool ----------------------------
(***************************************************************************)
(* The pool of thread ids (thread_id_pool.h), which number the             *)
(* announcement slots and the pools of epoch.h.  Ids that were given back  *)
(* are kept in a stack: giving one back takes no lock, taking one does.    *)
(*                                                                         *)
(* A member of Thread is a place for a thread: when the thread in it dies  *)
(* another one may be started there.  One action per access to             *)
(* available_ids, num_thread_ids or the mutex.  The next of an id in the   *)
(* stack does not change, so that it is read along with the head.          *)
(***************************************************************************)
EXTENDS Integers, FiniteSets

CONSTANTS Thread,
          MaxIds   \* bound: how many ids there can be (max_num_workers, 1024)

ASSUME ConstantsAssumption == IsFiniteSet(Thread) /\ MaxIds \in Nat

Null == -1
Id == 0..(MaxIds - 1)

VARIABLES num_thread_ids,
          available_ids,   \* the top of the stack
          next,            \* next[x]: the id below x
          mutex,           \* whether the mutex of acquire is taken
          pc,
          node,            \* node[t]: the id of t, or the one it is about to take
          below            \* below[t]: next of the id that t is about to take

vars == <<num_thread_ids, available_ids, next, mutex, pc, node, below>>

Init ==
  /\ num_thread_ids = 0
  /\ available_ids = Null
  /\ next = [x \in Id |-> Null]
  /\ mutex = FALSE
  /\ pc = [t \in Thread |-> "none"]
  /\ node = [t \in Thread |-> Null]
  /\ below = [t \in Thread |-> Null]

Goto(t, label) == pc' = [pc EXCEPT ![t] = label]

(* Mutant: the ids that were given back are never looked for.              *)
LookAway(t) ==
  /\ pc[t] = "none"
  /\ Goto(t, "new")
  /\ UNCHANGED <<num_thread_ids, available_ids, next, mutex, node, below>>

(* acquire, when a thread asks for its id for the first time.              *)
Look(t) ==
  /\ pc[t] = "none"
  /\ Goto(t, IF available_ids = Null THEN "new" ELSE "lock")
  /\ UNCHANGED <<num_thread_ids, available_ids, next, mutex, node, below>>

(* Mutant: the stack is popped without the mutex.                          *)
LockNothing(t) ==
  /\ pc[t] = "lock"
  /\ Goto(t, "load")
  /\ UNCHANGED <<num_thread_ids, available_ids, next, mutex, node, below>>

Lock(t) ==
  /\ pc[t] = "lock"
  /\ ~mutex
  /\ mutex' = TRUE
  /\ Goto(t, "load")
  /\ UNCHANGED <<num_thread_ids, available_ids, next, node, below>>

(* The top of the stack as just loaded; without one, the mutex is left.    *)
Current(t) ==
  /\ node' = [node EXCEPT ![t] = available_ids]
  /\ IF available_ids = Null
       THEN /\ mutex' = FALSE
            /\ Goto(t, "new")
            /\ UNCHANGED below
       ELSE /\ below' = [below EXCEPT ![t] = next[available_ids]]
            /\ Goto(t, "pop")
            /\ UNCHANGED mutex
  /\ UNCHANGED <<num_thread_ids, available_ids, next>>

Load(t) == pc[t] = "load" /\ Current(t)

PopFails(t) ==
  /\ pc[t] = "pop"
  /\ available_ids # node[t]
  /\ Current(t)

Pop(t) ==
  /\ pc[t] = "pop"
  /\ available_ids = node[t]
  /\ available_ids' = below[t]
  /\ below' = [below EXCEPT ![t] = Null]
  /\ mutex' = FALSE
  /\ Goto(t, "owns")
  /\ UNCHANGED <<num_thread_ids, next, node>>

New(t) ==
  /\ pc[t] = "new"
  /\ num_thread_ids < MaxIds
  /\ num_thread_ids' = num_thread_ids + 1
  /\ node' = [node EXCEPT ![t] = num_thread_ids]
  /\ Goto(t, "owns")
  /\ UNCHANGED <<available_ids, next, mutex, below>>

(* relinquish, when the thread dies.                                       *)
Die(t) ==
  /\ pc[t] = "owns"
  /\ next' = [next EXCEPT ![node[t]] = available_ids]
  /\ Goto(t, "push")
  /\ UNCHANGED <<num_thread_ids, available_ids, mutex, node, below>>

PushFails(t) ==
  /\ pc[t] = "push"
  /\ available_ids # next[node[t]]
  /\ next' = [next EXCEPT ![node[t]] = available_ids]
  /\ UNCHANGED <<num_thread_ids, available_ids, mutex, pc, node, below>>

(* Mutant: the head is stored whatever has been pushed meanwhile.          *)
PushAlways(t) ==
  /\ pc[t] = "push"
  /\ available_ids' = node[t]
  /\ node' = [node EXCEPT ![t] = Null]
  /\ Goto(t, "none")
  /\ UNCHANGED <<num_thread_ids, next, mutex, below>>

Push(t) ==
  /\ pc[t] = "push"
  /\ available_ids = next[node[t]]
  /\ available_ids' = node[t]
  /\ node' = [node EXCEPT ![t] = Null]
  /\ Goto(t, "none")
  /\ UNCHANGED <<num_thread_ids, next, mutex, below>>

Next ==
  \E t \in Thread : \/ Look(t) \/ Lock(t) \/ Load(t) \/ PopFails(t) \/ Pop(t) \/ New(t)
                    \/ Die(t) \/ PushFails(t) \/ Push(t)

Spec == Init /\ [][Next]_vars

-----------------------------------------------------------------------------
(* Every variable has its type; an id is below get_num_thread_ids().       *)
TypeOK ==
  /\ num_thread_ids \in 0..MaxIds
  /\ available_ids \in -1..(num_thread_ids - 1)
  /\ next \in [Id -> -1..(num_thread_ids - 1)]
  /\ mutex \in BOOLEAN
  /\ pc \in [Thread -> {"none", "lock", "load", "pop", "new", "owns", "push"}]
  /\ node \in [Thread -> -1..(num_thread_ids - 1)]
  /\ below \in [Thread -> -1..(num_thread_ids - 1)]

Owned(t) == IF pc[t] \in {"owns", "push"} THEN {node[t]} ELSE {}

(* Live threads have different ids: no two of them ever share an           *)
(* announcement slot, a pool or an element of a ThreadSpecific (acquire    *)
(* and relinquish, "unique dense IDs for active threads").                 *)
UniqueIds == \A t, u \in Thread : t # u => Owned(t) \cap Owned(u) = {}

(* The stack is s[1], ..., s[n] from the top down, and holds each id that  *)
(* was handed out and is nobody's, once.                                   *)
IsStack(s, n) ==
  /\ available_ids = IF n = 0 THEN Null ELSE s[1]
  /\ \A i \in 1..n : next[s[i]] = IF i = n THEN Null ELSE s[i + 1]
  /\ \A i, j \in 1..n : s[i] = s[j] => i = j
  /\ \A x \in Id : (\E i \in 1..n : s[i] = x) <=>
                     x < num_thread_ids /\ \A t \in Thread : x \notin Owned(t)

(* No id is lost and none is kept by two: the stack ends, and every id     *)
(* that was handed out either belongs to a thread or is in the stack.      *)
(* When all threads are gone the destructor finds num_thread_ids of them   *)
(* in the stack, as it asserts.                                            *)
NoneLost == \E n \in 0..MaxIds : \E s \in [1..n -> Id] : IsStack(s, n)

(* A new id is made only when every other is in use: there are never more  *)
(* than there can be threads at a time (acquire, fetch_add).               *)
Dense ==
  num_thread_ids + Cardinality({t \in Thread : pc[t] = "new"}) <= Cardinality(Thread)
=============================================================================
