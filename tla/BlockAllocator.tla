--------------------------- MODULE BlockAllocator ---------------------------
(***************************************************************************)
(* The allocator of fixed-size blocks (block_allocator.h): every thread    *)
(* has a list of free blocks of its own, takes a list of ListLength blocks *)
(* from a global stack when it has none, and gives one back when it has    *)
(* twice as many.  The global stack is that of HazptrStack, step by step.  *)
(*                                                                         *)
(* A free block holds the pointer to the next one; what a block in use     *)
(* holds is its user's and appears as None.  Buffers hold ListLength       *)
(* blocks, numbered from 1; operator new throws when MaxBuffers of them    *)
(* are there.                                                              *)
(***************************************************************************)
EXTENDS HazptrStack, FiniteSetsExt

CONSTANTS ListLength,  \* list_length
          MaxBuffers   \* bound: how many buffers can be allocated

ASSUME ListAssumption == ListLength \in Nat \ {0} /\ MaxBuffers \in Nat /\ Value \subseteq Nat

Block == 1..(MaxBuffers * ListLength)

VARIABLES bnext,             \* bnext[b]: block::next
          used,              \* the blocks that users have
          sz, lhead, mid,    \* the fields of local_list
          fb,                \* fb[t]: the block that t is freeing
          clearing,          \* clearing[t]: whether t is in clear()
          blocks_allocated

lists == <<bnext, sz, lhead, mid>>
vars == <<stackVars, pc, lists, used, fb, clearing, blocks_allocated>>

Init ==
  /\ StackInit
  /\ bnext = [b \in Block |-> None]
  /\ used = {}
  /\ sz = [t \in Thread |-> 0]
  /\ lhead = [t \in Thread |-> None]
  /\ mid = [t \in Thread |-> None]
  /\ fb = [t \in Thread |-> None]
  /\ clearing = [t \in Thread |-> FALSE]
  /\ blocks_allocated = 0

-----------------------------------------------------------------------------
(***************************************************************************)
(* alloc                                                                   *)
(***************************************************************************)

(* The block at the head of the list list, of which n blocks are t's, goes *)
(* to the user.                                                            *)
TakeFrom(t, list, n, links) ==
  /\ lhead' = [lhead EXCEPT ![t] = links[list]]
  /\ sz' = [sz EXCEPT ![t] = n - 1]
  /\ used' = used \cup {list}
  /\ bnext' = [links EXCEPT ![list] = None]

Take(t) ==
  /\ pc[t] = "idle" /\ sz[t] # 0
  /\ TakeFrom(t, lhead[t], sz[t], bnext)
  /\ UNCHANGED <<stackVars, pc, mid, fb, clearing, blocks_allocated>>

(* get_list                                                                *)
GetList(t) ==
  /\ pc[t] = "idle" /\ sz[t] = 0
  /\ Pop(t)
  /\ UNCHANGED <<lists, used, fb, clearing, blocks_allocated>>

(* A list from the global stack.  Threads do not change under a task here, *)
(* so that the local list is still empty.                                  *)
UseList(t) ==
  /\ pc[t] = "popped" /\ ~clearing[t] /\ got[t] # None
  /\ TakeFrom(t, got[t], ListLength, bnext)
  /\ Back(t)
  /\ Goto(t, "idle")
  /\ UNCHANGED <<mid, fb, clearing, blocks_allocated>>

(* Mutant: initialize_list leaves out the last block.                      *)
InitializeShort(b, first) ==
  IF b + 1 < first + ListLength - 1 THEN b + 1 ELSE None

(* initialize_list: each block but the last leads to the one after it.     *)
InitializeList(b, first) == IF b < first + ListLength - 1 THEN b + 1 ELSE None

(* allocate_blocks and initialize_list: a new buffer.                      *)
NewList(t) ==
  LET first == blocks_allocated + 1
      buffer == first..(blocks_allocated + ListLength)
  IN /\ pc[t] = "popped" /\ ~clearing[t] /\ got[t] = None
     /\ buffer \subseteq Block
     /\ blocks_allocated' = blocks_allocated + ListLength
     /\ TakeFrom(t, first, ListLength,
                 [b \in Block |-> IF b \in buffer THEN InitializeList(b, first) ELSE bnext[b]])
     /\ Back(t)
     /\ Goto(t, "idle")
     /\ UNCHANGED <<mid, fb, clearing>>

(* operator new throws std::bad_alloc.                                     *)
NewFails(t) ==
  /\ pc[t] = "popped" /\ ~clearing[t] /\ got[t] = None
  /\ blocks_allocated = MaxBuffers * ListLength
  /\ Back(t)
  /\ Goto(t, "idle")
  /\ UNCHANGED <<lists, used, fb, clearing, blocks_allocated>>

-----------------------------------------------------------------------------
(***************************************************************************)
(* free.  Blocks in use are alike, so the user frees the first of them.    *)
(***************************************************************************)
Freed == Min(used)

(* The block b becomes the head of the list of t, which has n blocks.      *)
PutBack(t, b, n) ==
  /\ bnext' = [bnext EXCEPT ![b] = lhead[t]]
  /\ lhead' = [lhead EXCEPT ![t] = b]
  /\ sz' = [sz EXCEPT ![t] = n + 1]

(* Mutant: the middle is noted one block too early.                        *)
FreeMidEarly(t) ==
  /\ pc[t] = "idle" /\ used # {}
  /\ sz[t] = 2 * ListLength => ListLength = 1
  /\ mid' = IF sz[t] = ListLength THEN [mid EXCEPT ![t] = lhead[t]] ELSE mid
  /\ used' = used \ {Freed}
  /\ PutBack(t, Freed, sz[t])
  /\ UNCHANGED <<stackVars, pc, fb, clearing, blocks_allocated>>

Free(t) ==
  /\ pc[t] = "idle" /\ used # {}
  /\ sz[t] = 2 * ListLength => ListLength = 1
  /\ mid' = IF sz[t] = ListLength + 1 THEN [mid EXCEPT ![t] = lhead[t]] ELSE mid
  /\ used' = used \ {Freed}
  /\ PutBack(t, Freed, sz[t])
  /\ UNCHANGED <<stackVars, pc, fb, clearing, blocks_allocated>>

(* With 2 * ListLength blocks, those behind mid go to the global stack.    *)
FreeList(t) ==
  /\ pc[t] = "idle" /\ used # {}
  /\ sz[t] = 2 * ListLength /\ sz[t] # ListLength + 1
  /\ used' = used \ {Freed}
  /\ fb' = [fb EXCEPT ![t] = Freed]
  /\ Push(t, bnext[mid[t]])
  /\ UNCHANGED <<lists, clearing, blocks_allocated>>

(* ... and only then is mid the end of the list.                           *)
FreeRest(t) ==
  /\ pc[t] = "pushed"
  /\ bnext' = [bnext EXCEPT ![mid[t]] = None, ![fb[t]] = lhead[t]]
  /\ lhead' = [lhead EXCEPT ![t] = fb[t]]
  /\ sz' = [sz EXCEPT ![t] = ListLength + 1]
  /\ fb' = [fb EXCEPT ![t] = None]
  /\ Back(t)
  /\ Goto(t, "idle")
  /\ UNCHANGED <<mid, used, clearing, blocks_allocated>>

-----------------------------------------------------------------------------
(***************************************************************************)
(* clear, which must not run beside anything else.                         *)
(***************************************************************************)
NumUsedBlocks ==
  blocks_allocated
    - ((IF head = None THEN 0 ELSE length[head]) * ListLength
        + FoldSet(LAMBDA t, acc : sz[t] + acc, 0, Thread))

(* With every block back, the local lists are emptied (head and mid stay   *)
(* as they are) and the buffers deleted; then the global stack is popped   *)
(* to its end.                                                             *)
Clear(t) ==
  /\ \A u \in Thread : pc[u] = "idle"
  /\ NumUsedBlocks = 0
  /\ sz' = [u \in Thread |-> 0]
  /\ bnext' = [b \in Block |-> None]
  /\ clearing' = [clearing EXCEPT ![t] = TRUE]
  /\ Goto(t, "clear")
  /\ UNCHANGED <<stackVars, lhead, mid, used, fb, blocks_allocated>>

ClearPop(t) ==
  /\ pc[t] = "clear"
  /\ Pop(t)
  /\ UNCHANGED <<lists, used, fb, clearing, blocks_allocated>>

ClearMore(t) ==
  /\ pc[t] = "popped" /\ clearing[t] /\ got[t] # None
  /\ Back(t)
  /\ Goto(t, "clear")
  /\ UNCHANGED <<lists, used, fb, clearing, blocks_allocated>>

ClearEnds(t) ==
  /\ pc[t] = "popped" /\ clearing[t] /\ got[t] = None
  /\ blocks_allocated' = 0
  /\ clearing' = [clearing EXCEPT ![t] = FALSE]
  /\ Back(t)
  /\ Goto(t, "idle")
  /\ UNCHANGED <<lists, used, fb>>

(* Nobody else is at work meanwhile.                                       *)
BeingCleared == \E t \in Thread : clearing[t]

Step(t) ==
  /\ BeingCleared => clearing[t]
  /\ \/ Take(t) \/ GetList(t) \/ UseList(t) \/ NewList(t) \/ NewFails(t)
     \/ Free(t) \/ FreeList(t) \/ FreeRest(t)
     \/ Clear(t) \/ ClearPop(t) \/ ClearMore(t) \/ ClearEnds(t)
     \/ StackStep(t) /\ UNCHANGED <<lists, used, fb, clearing, blocks_allocated>>

Next == \E t \in Thread : Step(t)

Spec == Init /\ [][Next]_vars

-----------------------------------------------------------------------------
(***************************************************************************)
(* Properties                                                              *)
(***************************************************************************)

(* The first n blocks of a list.                                           *)
RECURSIVE FirstBlocks(_, _)
FirstBlocks(b, n) ==
  IF n = 0 \/ b = None THEN <<>> ELSE <<b>> \o FirstBlocks(bnext[b], n - 1)

(* A list has n blocks.  It need not end there: after clear a local list   *)
(* may go on with a block that is gone, and nobody follows it that far.    *)
Whole(b, n) == Len(FirstBlocks(b, n)) = n

OnStack == LET list == Elements IN {list[j] : j \in DOMAIN list}
InHand == {got[t] : t \in Thread} \ {None}

(* The blocks of t: those it has pushed are no longer among them.          *)
HasPushed(t) == IsPush(t) /\ Decided(t)
Local(t) ==
  LET list == FirstBlocks(lhead[t], IF HasPushed(t) THEN ListLength ELSE sz[t])
  IN {list[j] : j \in DOMAIN list}

BlocksOf(list) == LET s == FirstBlocks(list, ListLength) IN {s[j] : j \in DOMAIN s}

(* Every variable has its type; local lists have as many blocks as sz says *)
(* and lists that change hands have ListLength.  "returns list_length      *)
(* elements to the global pool when local pool=2*list_length": no thread   *)
(* keeps more than that.  With lists of one block it does: the two tests   *)
(* of free are one then, and the first of them wins.                       *)
TypeOK ==
  /\ head \in Node \cup {None} /\ heap \subseteq Node
  /\ slot \in [Thread -> Node \cup {None}] /\ work \in [Thread -> 0..Threshold]
  /\ used \subseteq 1..blocks_allocated /\ blocks_allocated \in 0..(MaxBuffers * ListLength)
  /\ sz \in [Thread -> 0..(MaxBuffers * ListLength)]
  /\ ListLength > 1 => \A t \in Thread : sz[t] <= 2 * ListLength
  /\ \A t \in Thread : HasPushed(t) \/ Whole(lhead[t], sz[t])
  /\ BeingCleared \/ \A b \in OnStack \cup InHand : Whole(b, ListLength)

(* Every block of the buffers is in one place: with a user, being freed,   *)
(* in the list of one thread, in one list of the global stack, or in one   *)
(* that alloc has just popped.  No two users get the same block, though    *)
(* free pushes a list before it cuts it off, and none is lost, though      *)
(* operator new may throw.  At rest num_used_blocks, by which clear decides *)
(* whether it may delete all memory, is the number of blocks users have:   *)
(* the length that the top node of the stack carries is right.             *)
EachBlockOnce ==
  LET chain == Chain
      holder == {<<"users", 0>>} \cup ({"freed", "local", "hand"} \X Thread)
                  \cup ({"stack"} \X DOMAIN chain)
      Held(x) == CASE x[1] = "users" -> used
                   [] x[1] = "freed" -> {fb[x[2]]} \ {None}
                   [] x[1] = "local" -> Local(x[2])
                   [] x[1] = "hand"  -> BlocksOf(got[x[2]])
                   [] x[1] = "stack" -> BlocksOf(val[chain[x[2]]])
  IN BeingCleared \/
     /\ UNION {Held(x) : x \in holder} = 1..blocks_allocated
     /\ MapThenSumSet(LAMBDA x : Cardinality(Held(x)), holder) = blocks_allocated
     /\ (\A t \in Thread : pc[t] = "idle") => NumUsedBlocks = Cardinality(used)

=============================================================================
