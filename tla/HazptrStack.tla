---------------------------- MODULE HazptrStack -----------------------------
(***************************************************************************)
(* The stack of hazptr_stack.h with the hazard pointers it is reclaimed by *)
(* (intrusive_acquire_retire, acquire_retire.h).                           *)
(*                                                                         *)
(* A thread announces the node it is about to read in its slot; a node     *)
(* that has been popped is retired, and deleted when a scan of the slots   *)
(* does not meet it.  Deleted nodes are handed out again by new: that is   *)
(* what a compare-and-swap on head would miss.  One action per access to   *)
(* shared memory; the fields of a node nobody else has, and a thread's own *)
(* retired list, go with the access before.                                *)
(***************************************************************************)
EXTENDS Naturals, Sequences, FiniteSets

CONSTANTS P,          \* the number of threads
          Node,       \* bound: the memory for nodes
          Value,      \* the elements
          Threshold,  \* retires between two scans (30 or more in the code)
          None

ASSUME StackAssumption ==
  /\ P \in Nat \ {0} /\ Threshold \in Nat \ {0}
  /\ None \notin Node /\ None \notin Value

Thread == 1..P

VARIABLES head,
          heap,                \* the nodes that exist
          val, next, length,   \* their fields
          slot,                \* slot[t]: announcement
          retired,             \* retired[t]: RetiredList, the head first
          work,                \* work[t]: amortized_work
          pc,
          arg,                 \* arg[t]: what t pushes, or None for a pop
          h,                   \* h[t]: the node that acquire returns
          p,                   \* p[t]: the node that is pushed or popped
          nx,                  \* nx[t]: p->next, as pop has read it
          seen, announced,     \* the scan: threads whose slots are read, nodes met
          got                  \* got[t]: what pop returns

nodes == <<heap, val, next, length>>
garbage == <<slot, retired, work>>
scanning == <<seen, announced>>
locals == <<arg, h, p, nx, got>>
stackVars == <<head, nodes, garbage, scanning, locals>>

Goto(t, label) == pc' = [pc EXCEPT ![t] = label]

StackInit ==
  /\ head = None
  /\ heap = {}
  /\ val = [n \in Node |-> None]
  /\ next = [n \in Node |-> None]
  /\ length = [n \in Node |-> 0]
  /\ slot = [t \in Thread |-> None]
  /\ retired = [t \in Thread |-> <<>>]
  /\ work = [t \in Thread |-> 0]
  /\ pc = [t \in Thread |-> "idle"]
  /\ arg = [t \in Thread |-> None]
  /\ h = [t \in Thread |-> None]
  /\ p = [t \in Thread |-> None]
  /\ nx = [t \in Thread |-> None]
  /\ seen = [t \in Thread |-> 0]
  /\ announced = [t \in Thread |-> {}]
  /\ got = [t \in Thread |-> None]

-----------------------------------------------------------------------------
(***************************************************************************)
(* push and pop are called with Push(t, v) and Pop(t), parts of an action  *)
(* of the caller, and end at the label "pushed" or "popped".               *)
(***************************************************************************)
Push(t, v) ==
  /\ \E n \in Node \ heap :
       /\ heap' = heap \cup {n}
       /\ val' = [val EXCEPT ![n] = v]
       /\ p' = [p EXCEPT ![t] = n]
  /\ arg' = [arg EXCEPT ![t] = v]
  /\ Goto(t, "load")
  /\ UNCHANGED <<head, next, length, garbage, scanning, h, nx, got>>

Pop(t) ==
  /\ Goto(t, "load")
  /\ UNCHANGED stackVars

IsPush(t) == arg[t] # None

(* acquire: load, announce, and load again.                                *)
Load(t) ==
  /\ pc[t] = "load"
  /\ h' = [h EXCEPT ![t] = head]
  /\ Goto(t, "announce")
  /\ UNCHANGED <<head, nodes, garbage, scanning, arg, p, nx, got>>

Announce(t) ==
  /\ pc[t] = "announce"
  /\ slot' = [slot EXCEPT ![t] = h[t]]
  /\ Goto(t, "validate")
  /\ UNCHANGED <<head, nodes, retired, work, scanning, locals>>

Acquired(t) ==
  IF IsPush(t) THEN "link" ELSE IF h[t] = None THEN "popped" ELSE "next"

(* Mutant: the announced node may have been retired already.               *)
ValidateNothing(t) ==
  /\ pc[t] = "validate"
  /\ Goto(t, Acquired(t))
  /\ UNCHANGED stackVars

Validate(t) ==
  /\ pc[t] = "validate"
  /\ Goto(t, IF head # h[t] THEN "load" ELSE Acquired(t))
  /\ UNCHANGED stackVars

(* push: the new node goes before h.                                       *)
Link(t) ==
  /\ pc[t] = "link"
  /\ next' = [next EXCEPT ![p[t]] = h[t]]
  /\ length' = [length EXCEPT ![p[t]] = IF h[t] = None THEN 1 ELSE length[h[t]] + 1]
  /\ Goto(t, "cas")
  /\ UNCHANGED <<head, heap, val, garbage, scanning, locals>>

(* pop: p->next is read here and used in the compare-and-swap.  If another *)
(* thread has popped the node by now, it may be retiring it, and next is   *)
(* the old one or the link of a retired list; the swap will fail then.     *)
ReadNext(t) ==
  /\ pc[t] = "next"
  /\ nx' = [nx EXCEPT ![t] = next[h[t]]]
  /\ Goto(t, "cas")
  /\ UNCHANGED <<head, nodes, garbage, scanning, arg, h, p, got>>

(* A weak compare-and-swap may fail without a reason; then all over again. *)
CASFails(t) ==
  /\ pc[t] = "cas"
  /\ nx' = [nx EXCEPT ![t] = None]
  /\ Goto(t, "load")
  /\ UNCHANGED <<head, nodes, garbage, scanning, arg, h, p, got>>

CASPush(t) ==
  /\ pc[t] = "cas" /\ IsPush(t)
  /\ head = h[t]
  /\ head' = p[t]
  /\ Goto(t, "release")
  /\ UNCHANGED <<nodes, garbage, scanning, locals>>

CASPop(t) ==
  /\ pc[t] = "cas" /\ ~IsPush(t)
  /\ head = h[t]
  /\ head' = nx[t]
  /\ p' = [p EXCEPT ![t] = h[t]]
  /\ got' = [got EXCEPT ![t] = val[h[t]]]
  /\ nx' = [nx EXCEPT ![t] = None]
  /\ Goto(t, "retire")
  /\ UNCHANGED <<nodes, garbage, scanning, arg, h>>

First(s) == IF s = <<>> THEN None ELSE Head(s)

(* retire: the node's own next links the retired list.  work_toward_ejects *)
(* scans after Threshold of them.                                          *)
Retire(t) ==
  LET due == work[t] + 1 >= Threshold IN
  /\ pc[t] = "retire"
  /\ next' = [next EXCEPT ![p[t]] = First(retired[t])]
  /\ retired' = [retired EXCEPT ![t] = <<p[t]>> \o @]
  /\ work' = [work EXCEPT ![t] = IF due THEN 0 ELSE @ + 1]
  /\ Goto(t, IF due THEN "scan" ELSE "release")
  /\ UNCHANGED <<head, heap, val, length, slot, scanning, locals>>

(* Mutant: the slot of the last thread is not read.                        *)
ScanAllButLast(t) ==
  /\ pc[t] = "scan"
  /\ seen' = [seen EXCEPT ![t] = @ + 1]
  /\ announced' = [announced EXCEPT ![t] = @ \cup ({slot[seen[t] + 1]} \ {None})]
  /\ Goto(t, IF seen[t] + 2 >= P THEN "cleanup" ELSE "scan")
  /\ UNCHANGED <<head, nodes, garbage, locals>>

(* scan_slots, one thread after the other.                                 *)
Scan(t) ==
  /\ pc[t] = "scan"
  /\ seen' = [seen EXCEPT ![t] = @ + 1]
  /\ announced' = [announced EXCEPT ![t] = @ \cup ({slot[seen[t] + 1]} \ {None})]
  /\ Goto(t, IF seen[t] + 1 = P THEN "cleanup" ELSE "scan")
  /\ UNCHANGED <<head, nodes, garbage, locals>>

(* cleanup: what nobody has announced is deleted, the others stay linked.  *)
Keep(t) == SelectSeq(retired[t], LAMBDA n : n \in announced[t])
Relinked(t) ==
  LET keep == Keep(t)
  IN [n \in Node |->
        IF \E j \in DOMAIN keep : keep[j] = n
          THEN First(SubSeq(keep, (CHOOSE j \in DOMAIN keep : keep[j] = n) + 1, Len(keep)))
        ELSE IF \E j \in DOMAIN retired[t] : retired[t][j] = n THEN None
        ELSE next[n]]

(* Mutant: no node is ever deleted.                                        *)
CleanupKeepsAll(t) ==
  /\ pc[t] = "cleanup"
  /\ seen' = [seen EXCEPT ![t] = 0]
  /\ announced' = [announced EXCEPT ![t] = {}]
  /\ Goto(t, "release")
  /\ UNCHANGED <<head, nodes, garbage, locals>>

Cleanup(t) ==
  LET gone == {retired[t][j] : j \in DOMAIN retired[t]} \ announced[t] IN
  /\ pc[t] = "cleanup"
  /\ heap' = heap \ gone
  /\ val' = [n \in Node |-> IF n \in gone THEN None ELSE val[n]]
  /\ length' = [n \in Node |-> IF n \in gone THEN 0 ELSE length[n]]
  /\ next' = Relinked(t)
  /\ retired' = [retired EXCEPT ![t] = Keep(t)]
  /\ seen' = [seen EXCEPT ![t] = 0]
  /\ announced' = [announced EXCEPT ![t] = {}]
  /\ Goto(t, "release")
  /\ UNCHANGED <<head, slot, work, locals>>

Release(t) ==
  /\ pc[t] = "release"
  /\ slot' = [slot EXCEPT ![t] = None]
  /\ Goto(t, IF IsPush(t) THEN "pushed" ELSE "popped")
  /\ UNCHANGED <<head, nodes, retired, work, scanning, locals>>

(* Back to the caller, as part of its next action.                         *)
Back(t) ==
  /\ arg' = [arg EXCEPT ![t] = None]
  /\ h' = [h EXCEPT ![t] = None]
  /\ p' = [p EXCEPT ![t] = None]
  /\ got' = [got EXCEPT ![t] = None]
  /\ UNCHANGED <<head, nodes, garbage, scanning, nx>>

StackStep(t) ==
  \/ Load(t) \/ Announce(t) \/ Validate(t) \/ Link(t) \/ ReadNext(t)
  \/ CASFails(t) \/ CASPush(t) \/ CASPop(t)
  \/ Retire(t) \/ Scan(t) \/ Cleanup(t) \/ Release(t)

-----------------------------------------------------------------------------
(***************************************************************************)
(* Properties                                                              *)
(***************************************************************************)

(* The nodes from head on.                                                 *)
ChainOf[n \in Nat] == IF n = 0 THEN <<>> ELSE
  LET c == ChainOf[n - 1]
      last == IF c = <<>> THEN head ELSE next[c[Len(c)]]
  IN IF last = None THEN c ELSE Append(c, last)

Chain == ChainOf[Cardinality(Node)]

InStackCall(t) == pc[t] \in {"load", "announce", "validate", "link", "next", "cas", "retire",
                             "scan", "cleanup", "release", "pushed", "popped"}

Decided(t) == pc[t] \in {"retire", "scan", "cleanup", "release", "pushed", "popped"}

Elements == LET chain == Chain IN [j \in DOMAIN chain |-> val[chain[j]]]

Lifo == INSTANCE LifoStack WITH
  stack <- Elements,
  status <- [t \in Thread |-> IF ~InStackCall(t) THEN "idle"
                              ELSE IF Decided(t) THEN "done" ELSE "pending"],
  arg <- arg,
  result <- got

(* The stack is linearizable, as its comment says: a push takes effect at  *)
(* its compare-and-swap, a pop at its own or, when there is nothing to     *)
(* pop, where acquire loads the null head for the second time; that nodes  *)
(* are deleted and used again does not show.                               *)
ImplementsStack == Lifo!Spec

(* A node that a thread reads after acquire exists (the length that push   *)
(* reads, the next and the element that pop reads), and so does every node *)
(* of the stack; none of these is in a retired list and in the stack.      *)
ReadsAreSafe ==
  /\ \A t \in Thread : pc[t] \in {"link", "next"} => h[t] \in heap \cup {None}
  /\ \A t \in Thread : pc[t] = "retire" => p[t] \in heap
  /\ LET chain == Chain IN
     \A j \in DOMAIN chain : chain[j] \in heap /\ \A t \in Thread :
       \A k \in DOMAIN retired[t] : retired[t][k] # chain[j]

(* A node that is not in the stack and not being pushed or popped is in    *)
(* one retired list or deleted: none leaks; and a scan leaves at most one  *)
(* node per slot in a retired list, to which at most Threshold come before *)
(* the next: the list does not grow for as long as the stack is used.      *)
SinceScan(t) == IF pc[t] \in {"scan", "cleanup"} THEN Threshold ELSE work[t]
GarbageIsBounded ==
  LET chain == Chain IN
  /\ \A t \in Thread : Len(retired[t]) <= P + SinceScan(t)
  /\ \A n \in heap :
       Cardinality({j \in DOMAIN chain : chain[j] = n})
         + Cardinality({t \in Thread : p[t] = n /\ ((IsPush(t) /\ ~Decided(t)) \/ pc[t] = "retire")})
         + Cardinality({<<t, j>> \in Thread \X (1..(Threshold + P)) :
                          j \in DOMAIN retired[t] /\ retired[t][j] = n}) = 1
=============================================================================
