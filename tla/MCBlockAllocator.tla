-------------------------- MODULE MCBlockAllocator --------------------------
(* Two threads, four buffers of two blocks, four nodes.                    *)
EXTENDS BlockAllocator, SequencesExt

CONSTANTS n1, n2, n3, n4

Blocks == 1..8

(* Blocks are alike: up to their names, a state in which every list is     *)
(* whole and every block in one place (TypeOK and EachBlockOnce) is given  *)
(* by the nodes, by how long the lists are and by where mid is, which is   *)
(* set anew before it matters (between ListLength + 2 blocks and the       *)
(* push).  A state that is not such a one has a view of its own.           *)
MidAt(t) ==
  IF sz[t] <= ListLength + 1 \/ HasPushed(t) THEN {}
  ELSE {j \in 1..sz[t] : FirstBlocks(lhead[t], sz[t])[j] = mid[t]}

(* Nodes are alike as well, for new may return any that is free: each goes *)
(* by the first place in Places where it occurs.  An announced node that   *)
(* occurs nowhere has been deleted, and cleanup will not meet it.          *)
Places ==
  Chain \o retired[1] \o retired[2] \o p \o h \o slot \o nx
    \o [t \in Thread |-> IF p[t] = None THEN None ELSE next[p[t]]]

View ==
  LET places == Places
      At == [n \in Node \cup {None} |->
               IF n = None THEN 0 ELSE SelectInSeq(places, LAMBDA m : m = n)]
  IN <<[j \in DOMAIN places |->
          IF places[j] = None THEN <<>>
          ELSE <<At[places[j]], places[j] \in heap, At[next[places[j]]], length[places[j]]>>],
       At[head], Cardinality(heap), Len(retired[1]), work, pc, seen,
       [t \in Thread |-> {At[n] : n \in announced[t]}],
       [t \in Thread |-> <<IsPush(t), got[t] = None, sz[t], MidAt(t)>>],
       Cardinality(used), clearing, blocks_allocated, TypeOK /\ EachBlockOnce>>
=============================================================================
