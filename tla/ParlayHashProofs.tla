-------------------------- MODULE ParlayHashProofs --------------------------
(***************************************************************************)
(* The theorems on the table.  Inv holds of every behaviour in which no    *)
(* Upsert meets a marker in the bucket it loads first, and with it what    *)
(* the buckets hold; every step is one that UnorderedMap allows.           *)
(***************************************************************************)
EXTENDS ParlayHashSteps, ParlayHashMap, BucketStateProofs, FiniteSetTheorems

(* The facts about states that the proofs use are those of                 *)
(* BucketStateProofs.                                                      *)
LEMMA StateFactsHold == StateFacts
<1>1. State = States(Item)
  BY Zenon DEF State, Item
<1>2. EntryFacts
  <2>1. ASSUME NEW x \in State PROVE EntrySet(x) \subseteq Item
    <3>1. /\ Entries(x) \in Seq(Item) /\ DOMAIN Entries(x) = 1..Len(Entries(x))
      BY <1>1, EntriesOf, Zenon
    <3> QED BY <3>1 DEF EntrySet
  <2>2. ASSUME NEW x \in State, NEW k \in Key
        PROVE  /\ ~Has(x, k) => Lookup(x, k) = None
               /\ Has(x, k) => \E e \in EntrySet(x) : e.key = k /\ Lookup(x, k) = e.val
               /\ Distinct(x) => \A e \in EntrySet(x) : e.key = k => Lookup(x, k) = e.val
    BY <1>1, LookupOf, Zenon
  <2> QED BY <2>1, <2>2, Zenon DEF EntryFacts
<1>3. AddEntryFacts
  <2>1. ASSUME NEW x \in State, NEW e \in Item, WellFormed(x)
        PROVE  /\ AddEntry(x, e) \in State /\ WellFormed(AddEntry(x, e)) /\ AddEntry(x, e).fwd = x.fwd
               /\ EntrySet(AddEntry(x, e)) = EntrySet(x) \cup {e}
               /\ Distinct(x) /\ ~Has(x, e.key) => Distinct(AddEntry(x, e))
    BY <1>1, <2>1, AddEntryAdds
  <2> QED BY <2>1, Zenon DEF AddEntryFacts
<1>4. ReplaceEntryFacts
  <2>1. ASSUME NEW x \in State, NEW e \in Item, WellFormed(x), Has(x, e.key)
        PROVE  /\ ReplaceEntry(x, e) \in State /\ WellFormed(ReplaceEntry(x, e))
               /\ ReplaceEntry(x, e).fwd = x.fwd
               /\ Distinct(x) =>
                    /\ EntrySet(ReplaceEntry(x, e)) = {y \in EntrySet(x) : y.key # e.key} \cup {e}
                    /\ Distinct(ReplaceEntry(x, e))
    BY <1>1, <2>1, ReplaceEntryReplaces, Zenon
  <2> QED BY <2>1, Zenon DEF ReplaceEntryFacts
<1>5. RemoveKeyFacts
  <2>1. ASSUME NEW x \in State, NEW k \in Key, WellFormed(x), Has(x, k)
        PROVE  /\ RemoveKey(x, k) \in State /\ WellFormed(RemoveKey(x, k))
               /\ RemoveKey(x, k).fwd = x.fwd
               /\ Distinct(x) => /\ EntrySet(RemoveKey(x, k)) = {y \in EntrySet(x) : y.key # k}
                                 /\ Distinct(RemoveKey(x, k))
    BY <1>1, <2>1, RemoveKeyRemoves, Zenon
  <2> QED BY <2>1, Zenon DEF RemoveKeyFacts
<1>6. SplitFacts
  <2>1. ASSUME NEW x \in State, NEW keys \in SUBSET Key
        PROVE  /\ Split(x, keys) \in State /\ WellFormed(Split(x, keys)) /\ ~Split(x, keys).fwd
               /\ EntrySet(Split(x, keys)) = {e \in EntrySet(x) : e.key \in keys}
               /\ Distinct(x) => Distinct(Split(x, keys))
    BY <1>1, SplitSplits, ZenonT(60)
  <2> QED BY <2>1, Zenon DEF SplitFacts
<1> QED BY <1>2, <1>3, <1>4, <1>5, <1>6, Zenon DEF StateFacts

(* Those about finite sets are from the library.                           *)
LEMMA SetFactsHold == SetFacts
<1>1. Cardinality({}) = 0
  BY FS_EmptySet, Zenon
<1>2. \A n \in Nat : IsFiniteSet(0..(n - 1)) /\ Cardinality(0..(n - 1)) = n
  <2>1. ASSUME NEW n \in Nat PROVE IsFiniteSet(0..(n - 1)) /\ Cardinality(0..(n - 1)) = n
    <3>1. n - 1 \in Int /\ 0 \in Int /\ (0 > n - 1 => n = 0) /\ n - 1 - 0 + 1 = n
      OBVIOUS
    <3> QED BY <3>1, FS_Interval, Zenon
  <2> QED BY <2>1, Zenon
<1>3. ASSUME NEW A, IsFiniteSet(A)
      PROVE  /\ Cardinality(A) \in Nat
             /\ \A x : x \notin A => Cardinality(A \cup {x}) = Cardinality(A) + 1
             /\ \A x \in A : Cardinality(A \ {x}) = Cardinality(A) - 1
             /\ \A B \in SUBSET A : /\ IsFiniteSet(B) /\ Cardinality(B) <= Cardinality(A)
                                    /\ Cardinality(B) = Cardinality(A) => B = A
  <2>1. Cardinality(A) \in Nat
    BY <1>3, FS_CardinalityType, Zenon
  <2>2. \A x : x \notin A => Cardinality(A \cup {x}) = Cardinality(A) + 1
    BY <1>3, FS_AddElement, Zenon
  <2>3. \A x \in A : Cardinality(A \ {x}) = Cardinality(A) - 1
    BY <1>3, FS_RemoveElement, Zenon
  <2>4. \A B \in SUBSET A : /\ IsFiniteSet(B) /\ Cardinality(B) <= Cardinality(A)
                            /\ Cardinality(B) = Cardinality(A) => B = A
    BY <1>3, FS_Subset, Zenon
  <2> QED BY <2>1, <2>2, <2>3, <2>4, Zenon
<1> QED BY <1>1, <1>2, <1>3, Zenon DEF SetFacts

-----------------------------------------------------------------------------
(***************************************************************************)
(* One step.                                                               *)
(***************************************************************************)
(* A step that writes no bucket.                                           *)
LEMMA QuietKeeps ==
  ASSUME StateFacts, SetFacts, Full, NEW t \in Thread, QuietNext(t)
  PROVE  Full' /\ Refines
<1>1. StateFacts /\ SetFacts /\ Inv
  BY Zenon DEF Full
<1>2. RightBucket' /\ Fresh'
  BY QuietSteps, Zenon
<1> SUFFICES Inv' /\ Refines
  BY <1>2, Zenon DEF Full
<1>3. CASE Invoke(t)
  BY <1>1, <1>3, InvokeInv, InvokeRefines, Zenon
<1>4. CASE InvokeWalk(t)
  BY <1>1, <1>4, InvokeWalkInv, InvokeWalkRefines, Zenon
<1>5. CASE Return(t)
  BY <1>1, <1>5, ReturnInv, ReturnRefines, Zenon
<1>6. CASE LL(t)
  BY <1>1, <1>6, LLInv, LLRefines, Zenon
<1>7. CASE Check(t)
  BY <1>1, <1>7, CheckInv, CheckRefines, Zenon
<1>8. CASE Expand(t)
  BY <1>1, <1>8, ExpandInv, OnwardSteps, Zenon
<1>9. CASE Retry(t)
  BY <1>1, <1>9, RetryInv, RetryRefines, Zenon
<1>10. CASE LV(t)
  BY <1>1, <1>10, LVInv, LVRefines, Zenon
<1>11. CASE Load(t)
  BY <1>1, <1>11, LoadInv, LoadRefines, Zenon
<1>12. CASE CopyNothing(t)
  BY <1>1, <1>12, CopyNothingInv, OnwardSteps, Zenon
<1>13. CASE CopyClaim(t)
  BY <1>1, <1>13, CopyClaimInv, OnwardSteps, Zenon
<1>14. CASE CopyDone(t)
  BY <1>1, <1>14, CopyDoneInv, OnwardSteps, Zenon
<1>15. CASE CopyCount(t)
  BY <1>1, <1>15, CopyCountInv, OnwardSteps, Zenon
<1>16. CASE Switch(t)
  BY <1>1, <1>16, SwitchInv, OnwardSteps, Zenon
<1>17. CASE Visit(t)
  BY <1>1, <1>17, VisitInv, OnwardSteps, Zenon
<1>18. CASE ClearVisit(t)
  BY <1>1, <1>18, ClearVisitInv, OnwardSteps, Zenon
<1>19. CASE ClearLL(t)
  BY <1>1, <1>19, ClearLLInv, OnwardSteps, Zenon
<1> QED
  BY <1>3, <1>4, <1>5, <1>6, <1>7, <1>8, <1>9, <1>10, <1>11, <1>12, <1>13, <1>14,
     <1>15, <1>16, <1>17, <1>18, <1>19, Zenon DEF QuietNext

(* A step that writes buckets.                                             *)
LEMMA WritesKeep ==
  ASSUME StateFacts, SetFacts, Full, UpsertsMeetNoMarker, NEW t \in Thread, WriteNext(t)
  PROVE  Full' /\ Refines
<1>1. StateFacts /\ SetFacts /\ Inv
  BY Zenon DEF Full
<1>2. CASE SCSucceeds(t)
  <2>1. Full'
    BY <1>1, <1>2, SCSucceedsInv, SCSucceedsContents, Zenon DEF Full
  <2> QED BY <1>1, <1>2, <2>1, SCSucceedsRefines, Zenon
<1>3. CASE CopyLL(t)
  <2>1. Full'
    BY <1>1, <1>3, CopyLLInv, CopyLLContents, Zenon DEF Full
  <2> QED BY <1>1, <1>3, <2>1, CopyLLRefines, Zenon
<1>4. CASE CopySCSucceeds(t)
  <2>1. Full'
    BY <1>1, <1>4, CopySCSucceedsInv, CopySCSucceedsContents, Zenon DEF Full
  <2> QED BY <1>1, <1>4, <2>1, CopySCSucceedsRefines, Zenon
<1>5. CASE CopySCFails(t)
  <2>1. Full'
    BY <1>1, <1>5, CopySCFailsInv, CopySCFailsContents, Zenon DEF Full
  <2> QED BY <1>1, <1>5, <2>1, CopySCFailsRefines, Zenon
<1>6. CASE ClearSC(t)
  <2>1. Full'
    BY <1>1, <1>6, ClearSCInv, ClearSCContents, Zenon DEF Full
  <2> QED BY <1>1, <1>6, <2>1, ClearSCRefines, Zenon
<1> QED BY <1>2, <1>3, <1>4, <1>5, <1>6, Zenon DEF WriteNext

(* A step that changes nothing.                                            *)
LEMMA NothingKeeps ==
  ASSUME Full, UNCHANGED vars
  PROVE  Full' /\ Refines /\ (\A n \in Node : bucket'[n] = bucket[n])
<1> Inv /\ RightBucket /\ Fresh /\ Types /\ Shape /\ Blocks /\ Copiers /\ Counts /\ Positions
  BY Zenon DEF Full, Inv
<1>1. /\ UNCHANGED <<bucket, versions, current, block_status, finished>>
      /\ UNCHANGED <<pc, call, inside, ht, b, lev, s, tag, out_s, i, ctag, todo>>
  BY Zenon DEF vars, table, target, copying, walk
<1>2. Types'
  BY <1>1, Zenon DEF Types
<1>3. Shape'
  BY <1>1, Zenon DEF Shape
<1>4. Blocks'
  BY <1>1, Zenon DEF Blocks, Status, InBlock, CurrentIndex, CurrentBlock
<1>5. Copiers'
  BY <1>1, CopiersKeep, Zenon
<1>6. Counts'
  BY <1>1, Zenon DEF Counts, Counting, DoneBlocks, CurrentBlock, Status
<1>7. Positions'
  BY <1>1 DEF Positions, Position, Live, op, key
<1>8. RightBucket' /\ Fresh'
  BY <1>1, ContentsStay, Zenon
<1>9. Refines
  BY <1>1, ViewStays, ValuesStay, Unseen, Zenon DEF Refines
<1> QED BY <1>1, <1>2, <1>3, <1>4, <1>5, <1>6, <1>7, <1>8, <1>9, Zenon DEF Full, Inv

(* Every step keeps Full, and is one that UnorderedMap allows.             *)
LEMMA NextKeeps ==
  ASSUME StateFacts, SetFacts, Full, UpsertsMeetNoMarker, [Next]_vars
  PROVE  Full' /\ Refines
BY StepsAre, NothingKeeps, QuietKeeps, WritesKeep, Zenon

(* Markers stay, and the versions change in order.                         *)
LEMMA NextInOrder ==
  ASSUME StateFacts, SetFacts, Full, UpsertsMeetNoMarker, [Next]_vars
  PROVE  InOrder
<1>1. /\ Inv /\ Types /\ Shape /\ current \in Nat /\ versions \in Nat
  BY TypeFacts, Zenon DEF Full, Inv
<1>2. versions' <= current' + 1
  BY NextKeeps, Zenon DEF Full, Inv, Shape
<1>3. CASE UNCHANGED vars
  <2>1. UNCHANGED <<bucket, versions, current>>
    BY <1>3, Zenon DEF vars, table
  <2> QED BY <1>2, <2>1, Zenon DEF InOrder
<1>4. ASSUME NEW t \in Thread, QuietNext(t) PROVE InOrder
  <2>1. /\ UNCHANGED bucket
        /\ UNCHANGED current \/ Switch(t)
        /\ versions' \in {versions, versions + 1}
    BY <1>4, QuietSteps, Zenon
  <2>2. CASE UNCHANGED current
    BY <1>2, <2>1, <2>2, Zenon DEF InOrder
  <2>3. CASE Switch(t)
    <3>1. pc[t] = "switch" /\ current' = ht[t] + 1
      BY <2>3, Zenon DEF Switch
    <3>2. /\ ht[t] = current
          /\ \A n \in Node : n[1] = current => bucket[n] = Forwarded
      BY <1>1, <3>1, SwitchOf, Zenon
    <3> QED BY <1>2, <2>1, <3>1, <3>2, Zenon DEF InOrder
  <2> QED BY <2>1, <2>2, <2>3, Zenon
<1>5. ASSUME NEW t \in Thread, WriteNext(t) PROVE InOrder
  <2>1. UNCHANGED <<current, versions>>
    BY <1>5, Zenon DEF WriteNext, SCSucceeds, CopyLL, CopySCSucceeds, CopySCFails, ClearSC
  <2>2. ASSUME NEW n \in Node, bucket[n] # Forwarded, NEW new, Written(n, new)
        PROVE  \A m \in Node : bucket[m] = Forwarded => bucket'[m] = Forwarded
    BY <1>1, <2>2, Zenon DEF Written, Types
  <2>3. CASE SCSucceeds(t)
    <3>1. Written(b[t], NewState(t)) /\ b[t] \in Node /\ bucket[b[t]] # Forwarded
      BY <2>3, UpdateOf, Zenon DEF SCSucceeds
    <3> QED BY <1>2, <2>1, <2>2, <3>1, Zenon DEF InOrder
  <2>4. CASE CopySCSucceeds(t)
    <3>1. pc[t] = "copysc" /\ Written(Source(t), Forwarded)
      BY <2>4, Zenon DEF CopySCSucceeds
    <3>2. Source(t) \in Node /\ bucket[Source(t)] # Forwarded
      BY <1>1, <3>1, CopierOf, Zenon
    <3> QED BY <1>2, <2>1, <2>2, <3>1, <3>2, Zenon DEF InOrder
  <2>5. CASE CopyLL(t) \/ CopySCFails(t)
    <3>1. /\ pc[t] \in {"copyll", "copysc"}
          /\ \A n \in Node : n \notin Children(Source(t)) => bucket'[n] = bucket[n]
      BY <2>5, Zenon DEF CopyLL, CopySCFails
    <3>2. \A m \in Children(Source(t)) : m \in Node /\ m[1] = current + 1
      BY <1>1, <3>1, CopierOf, Zenon
    <3>3. \A m \in Children(Source(t)) : bucket[m] # Forwarded
      BY <1>1, <3>2 DEF Shape
    <3> QED BY <1>2, <2>1, <3>1, <3>3, Zenon DEF InOrder
  <2>6. CASE ClearSC(t)
    <3>1. UNCHANGED bucket \/ tag[t]
      BY <2>6, Zenon DEF ClearSC
    <3>2. tag[t] => b[t] \in Node /\ bucket[b[t]] # Forwarded /\ Written(b[t], Empty)
      BY <2>6, ClearOf, Zenon
    <3> QED BY <1>2, <2>1, <2>2, <3>1, <3>2, Zenon DEF InOrder
  <2> QED BY <1>5, <2>3, <2>4, <2>5, <2>6, Zenon DEF WriteNext
<1> QED BY <1>3, <1>4, <1>5, StepsAre, Zenon

(* Inv has the types, and finished_block_count is bounded by the blocks.   *)
LEMMA InvTypes ==
  ASSUME SetFacts, Inv
  PROVE  TypeOK
<1>1. Types /\ Counts /\ Positions /\ current \in Nat /\ versions \in Nat
  BY TypeFacts, Zenon DEF Inv
<1>2. \A n \in Node : bucket[n] # None => WellFormed(bucket[n])
  BY <1>1, Zenon DEF Types, IsState
<1>3. ASSUME NEW v \in Version, v > 1 PROVE finished[v] <= NumBlocks(v - 1)
  <2>1. v \in Nat /\ v - 1 \in Version /\ v - 1 \in Nat
    BY <1>3, Constants
  <2>2. NumBlocks(v - 1) \in Nat /\ finished[v] \in Nat
    BY <1>1, <2>1, BlocksOf, Zenon DEF Types
  <2>3. CASE v - 1 < current
    <3>1. finished[v] = NumBlocks(v - 1)
      BY <1>1, <1>3, <2>3, Zenon DEF Counts
    <3> QED BY <2>2, <3>1
  <2>4. CASE v - 1 = current
    <3>1. finished[v] + Cardinality(Counting) = Cardinality(DoneBlocks)
      BY <1>1, <1>3, <2>4, Zenon DEF Counts
    <3>2. Cardinality(Counting) \in Nat /\ Cardinality(DoneBlocks) \in Nat
      BY <1>1, CountFacts, Zenon
    <3>3. Cardinality(DoneBlocks) <= NumBlocks(v - 1)
      <4>1. /\ IsFiniteSet(CurrentBlock) /\ Cardinality(CurrentBlock) = NumBlocks(v - 1)
        BY <2>2, <2>4, Zenon DEF SetFacts, CurrentBlock
      <4>2. DoneBlocks \in SUBSET CurrentBlock
        BY Zenon DEF DoneBlocks
      <4> QED BY <4>1, <4>2 DEF SetFacts
    <3> QED BY <2>2, <3>1, <3>2, <3>3
  <2>5. CASE v - 1 > current
    <3>1. finished[v] = 0
      BY <1>1, <1>3, <2>5, Zenon DEF Counts
    <3> QED BY <2>2, <3>1
  <2> QED BY <1>1, <2>1, <2>3, <2>4, <2>5
<1>4. ASSUME NEW t \in Thread PROVE ht[t] \in 0..current /\ lev[t] \in 0..versions
  <2>1. Position(t) /\ ht[t] \in Nat /\ lev[t] \in Nat
    BY <1>1, Zenon DEF Positions, Types
  <2>2. CASE pc[t] = "idle"
    BY <1>1, <2>1, <2>2 DEF Position
  <2>3. CASE pc[t] # "idle"
    <3>1. ht[t] \in 1..current
      BY <2>1, <2>3, Zenon DEF Position
    <3>2. op(t) \in Walks => lev[t] = 0
      BY <2>1, <2>3, Zenon DEF Position
    <3>3. op(t) \notin Walks => b[t] \in Node /\ b[t][1] \in lev[t]..versions
      BY <1>1, <2>1, <2>3, Zenon DEF Position, Types
    <3>4. op(t) \notin Walks => b[t][1] \in Nat
      BY <3>3, NodeOf, Constants, Zenon
    <3> QED BY <1>1, <2>1, <3>1, <3>2, <3>3, <3>4
  <2> QED BY <2>2, <2>3, Zenon
<1>5. ht \in [Thread -> 0..current] /\ lev \in [Thread -> 0..versions]
  BY <1>1, <1>4, Zenon DEF Types
<1>6. \A t \in Thread : pc[t] = "idle" <=> call[t] = None
  BY <1>1, Zenon DEF Positions, Position
<1> QED BY <1>1, <1>2, <1>3, <1>5, <1>6, Zenon DEF TypeOK, Types

-----------------------------------------------------------------------------
(***************************************************************************)
(* The theorems.  UpsertsMeetNoMarker leaves out the behaviours in which   *)
(* Upsert stores a marker of an old bucket in a new one, and no other.     *)
(***************************************************************************)

(* Full is inductive: the shape of a table that grows, what its threads    *)
(* know of it, where its entries are.                                      *)
THEOREM FullIsInvariant == Spec /\ []UpsertsMeetNoMarker => []Full
<1>1. Init => Full
  BY StateFactsHold, SetFactsHold, InitInv, InitContents, Zenon DEF Full
<1>2. Full /\ UpsertsMeetNoMarker /\ [Next]_vars => Full'
  BY StateFactsHold, SetFactsHold, NextKeeps, Zenon
<1> QED BY <1>1, <1>2, PTL DEF Spec

(* Every variable keeps its type, no buffer is longer than BufferSize and  *)
(* finished_block_count never passes the number of blocks.                 *)
THEOREM TypesHold == Spec /\ []UpsertsMeetNoMarker => []TypeOK
<1>1. Full => TypeOK
  BY SetFactsHold, InvTypes, Zenon DEF Full
<1> QED BY <1>1, FullIsInvariant, PTL

(* No entry is in a bucket of other keys, or in its bucket twice, however  *)
(* many versions copy_bucket has moved it through.                         *)
THEOREM EntriesAreInTheirBucket == Spec /\ []UpsertsMeetNoMarker => []RightBucket
<1>1. Full => RightBucket
  BY Zenon DEF Full
<1> QED BY <1>1, FullIsInvariant, PTL

(* Nobody reads a bucket or a block_status before it is set up, and a      *)
(* forwarded marker always leads on to buckets that exist.                 *)
THEOREM CopiesArePrivate == Spec /\ []UpsertsMeetNoMarker => []CopyIsPrivate
<1>1. Full => CopyIsPrivate
  BY InvPrivate, Zenon DEF Full
<1> QED BY <1>1, FullIsInvariant, PTL

(* Versions are added and become current one after the other, the next one *)
(* only when all of the current one has been forwarded.                    *)
THEOREM VersionsGrowInOrder == Spec /\ []UpsertsMeetNoMarker => GrowsInOrder
<1>1. Full /\ UpsertsMeetNoMarker /\ [Next]_vars => [InOrder]_vars
  BY StateFactsHold, SetFactsHold, NextInOrder, Zenon
<1> QED BY <1>1, FullIsInvariant, PTL DEF Spec, GrowsInOrder

(* The table is linearizable: Find, Insert, Upsert and Remove each take    *)
(* effect in one step of UnorderedMap, and growing is not seen at all.     *)
THEOREM TableImplementsMap == Spec /\ []UpsertsMeetNoMarker => ImplementsMap
<1>1. Init /\ Full => Abstract!Init
  BY StateFactsHold, InitRefines, Zenon
<1>2. Full /\ UpsertsMeetNoMarker /\ [Next]_vars => [Abstract!Next]_(Abstract!vars)
  BY StateFactsHold, SetFactsHold, NextKeeps, Zenon DEF Refines
<1> QED BY <1>1, <1>2, FullIsInvariant, PTL DEF Spec, ImplementsMap, Abstract!Spec

(* A walk (for_each, size) returns every entry that is there all the time, *)
(* none that is there at no time, and none twice, while others insert,     *)
(* remove and copy buckets under it.                                       *)
THEOREM WalksMeetEveryEntry == Spec /\ []UpsertsMeetNoMarker => []WalkGuarantee
<1>1. Init => WalkInv
  BY InitSweeps, Zenon
<1>2. Full /\ Full' /\ WalkInv /\ [Next]_vars => WalkInv'
  BY StateFactsHold, NextSweeps, Zenon
<1>3. WalkInv => WalkGuarantee
  BY SweepsGuarantee, Zenon
<1> QED BY <1>1, <1>2, <1>3, FullIsInvariant, PTL DEF Spec

(* Where no Upsert is called at all, there is nothing to leave out: Find,  *)
(* Insert, Remove, for_each and clear are correct as they are.             *)
THEOREM CorrectWithoutUpserts ==
  ASSUME \A c \in Call : c.op # "upsert"
  PROVE  Spec => /\ ImplementsMap /\ GrowsInOrder
                 /\ [](TypeOK /\ RightBucket /\ CopyIsPrivate /\ WalkGuarantee)
<1>1. Full => UpsertsMeetNoMarker
  <2>1. ASSUME Full, NEW t \in Thread, pc[t] # "idle" PROVE op(t) # "upsert"
    BY <2>1, InCall, Zenon DEF Full, op
  <2> QED BY <2>1, Zenon DEF UpsertsMeetNoMarker
<1>2. Init => Full
  BY StateFactsHold, SetFactsHold, InitInv, InitContents, Zenon DEF Full
<1>3. Full /\ [Next]_vars => Full'
  BY <1>1, StateFactsHold, SetFactsHold, NextKeeps, Zenon
<1>4. Spec => []UpsertsMeetNoMarker
  BY <1>1, <1>2, <1>3, PTL DEF Spec
<1> QED BY <1>4, TypesHold, EntriesAreInTheirBucket, CopiesArePrivate, VersionsGrowInOrder,
           TableImplementsMap, WalksMeetEveryEntry, PTL
=============================================================================
