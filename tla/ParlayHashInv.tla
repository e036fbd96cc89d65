--------------------------- MODULE ParlayHashInv ----------------------------
(***************************************************************************)
(* The growth of the table: the inductive invariant, and what its proof    *)
(* rests on.                                                               *)
(***************************************************************************)
EXTENDS ParlayHash

(* No Upsert meets a marker in the bucket it loads first.  It would put    *)
(* that marker in the bucket it ends up with (out_s).                      *)
UpsertsMeetNoMarker ==
  \A t \in Thread : pc[t] # "idle" /\ op(t) = "upsert" => ~out_s[t].fwd

-----------------------------------------------------------------------------
(***************************************************************************)
(* The inductive invariant.                                                *)
(***************************************************************************)
IsState(x) == x \in State /\ WellFormed(x) /\ (x.fwd => x = Forwarded)

Types ==
  /\ bucket \in [Node -> State \cup {None}]
  /\ \A n \in Node : bucket[n] # None => IsState(bucket[n])
  /\ versions \in Version /\ current \in 1..versions
  /\ DOMAIN block_status = Version
  /\ \A v \in Version :
       block_status[v] \in [0..(Size[v] - 1) -> {"Uninit", "Empty", "Working", "Done"}]
  /\ finished \in [Version -> Nat]
  /\ pc \in [Thread -> Labels] /\ call \in [Thread -> Call \cup {None}]
  /\ inside \in [Thread -> BOOLEAN] /\ tag \in [Thread -> BOOLEAN] /\ ctag \in [Thread -> BOOLEAN]
  /\ ht \in [Thread -> Nat] /\ lev \in [Thread -> Nat]
  /\ b \in [Thread -> Node \cup {None}] /\ todo \in [Thread -> SUBSET Node]
  /\ s \in [Thread -> State] /\ out_s \in [Thread -> State] /\ i \in [Thread -> Nat]
  /\ \A t \in Thread : IsState(s[t])

(* Versions before the current one have been left, the one after it is     *)
(* being filled.                                                           *)
Shape ==
  /\ versions <= current + 1
  /\ \A n \in Node : /\ n[1] < current => bucket[n] = Forwarded
                     /\ n[1] <= current => bucket[n] # None
                     /\ n[1] > current => bucket[n] # Forwarded
                     /\ bucket[n] = Forwarded /\ n[1] = current =>
                          \A m \in Children(n) : bucket[m] # None

(* The thread has a block of the current version to itself.                *)
Copies(t) == pc[t] \in {"copyll", "copysc", "copied"}

(* The bucket it copies, or has copied last.                               *)
Spot(t) == IF pc[t] = "copied" THEN i[t] - 1 ELSE i[t]

Status(j) == block_status[current][j]

InBlock(j) == j \div BlockSize[current]

CurrentIndex == 0..(Size[current] - 1)

CurrentBlock == 0..(NumBlocks(current) - 1)

(* How far the blocks of the current version have got.                     *)
Blocks ==
  /\ \A v \in Version : v < current =>
       \A j \in 0..(NumBlocks(v) - 1) : block_status[v][j] = "Done"
  /\ \A j \in CurrentBlock : Status(j) # "Uninit"
  /\ versions = current => \A j \in CurrentBlock : Status(j) = "Empty"
  /\ \A j \in CurrentIndex :
       /\ Status(InBlock(j)) = "Empty" => bucket[<<current, j>>] # Forwarded
       /\ Status(InBlock(j)) = "Done" => bucket[<<current, j>>] = Forwarded
  /\ current < MaxVersion => \A j \in 0..(NumBlocks(current + 1) - 1) :
       Status(j \div Grow) # "Empty" => block_status[current + 1][j] = "Empty"

Copiers ==
  /\ \A t \in Thread : Copies(t) =>
       /\ ht[t] = current /\ current < versions
       /\ Spot(t) \in CurrentIndex
       /\ Status(InBlock(Spot(t))) = "Working"
       /\ \A j \in CurrentIndex : InBlock(j) = InBlock(Spot(t)) =>
            (bucket[<<current, j>>] = Forwarded <=> j < i[t])
  /\ \A t, u \in Thread : Copies(t) /\ Copies(u) /\ InBlock(Spot(t)) = InBlock(Spot(u)) => t = u
  /\ \A t \in Thread : pc[t] = "copied" => i[t] % BlockSize[current] = 0
  /\ \A t \in Thread : pc[t] = "copysc" => \A m \in Children(Source(t)) : bucket[m] # None

Counting == {t \in Thread : pc[t] = "count"}

DoneBlocks == {j \in CurrentBlock : Status(j) = "Done"}

(* finished_block_count is behind by those who are about to count.         *)
Counts ==
  /\ \A v \in Version : v > 1 =>
       /\ v - 1 < current => finished[v] = NumBlocks(v - 1)
       /\ v - 1 = current => finished[v] + Cardinality(Counting) = Cardinality(DoneBlocks)
       /\ v - 1 > current => finished[v] = 0
  /\ \A t \in Thread : pc[t] \in {"count", "switch"} => ht[t] = current /\ current < versions
  /\ \A t \in Thread : pc[t] = "switch" => finished[current + 1] = NumBlocks(current)
  /\ \A t, u \in Thread : pc[t] = "switch" /\ pc[u] = "switch" => t = u

(* A bucket that can be reached, with what is in it.                       *)
Live(n) ==
  /\ n \in Node /\ bucket[n] # None
  /\ n[1] <= current \/ (n[1] = current + 1 /\ bucket[Parent(n)] = Forwarded)

CopyLabels == {"copy", "copyll", "copysc", "copied", "count", "switch"}

WalkLabels == {"visit", "clearll", "clearsc"}

(* Where a thread is, and what it knows of its bucket.                     *)
Position(t) ==
  /\ pc[t] = "idle" <=> call[t] = None
  /\ pc[t] = "idle" => ht[t] = 0 /\ lev[t] = 0 /\ b[t] = None
  /\ pc[t] # "idle" => ht[t] \in 1..current /\ (op(t) \in Walks <=> pc[t] \in WalkLabels)
  /\ pc[t] # "idle" /\ op(t) \in Walks => lev[t] = 0
  /\ pc[t] # "idle" /\ op(t) \notin Walks =>
       /\ b[t] # None /\ b[t][1] \in lev[t]..versions /\ lev[t] >= ht[t]
       /\ b[t] = Home(b[t][1], key(t))
  /\ \A n \in todo[t] \cup ({b[t]} \ {None}) : Live(n)
  /\ pc[t] \in CopyLabels \cup {"expanded"} => op(t) \in Updates
  /\ pc[t] = "load" => op(t) = "find"
  /\ pc[t] \in {"clearll", "clearsc"} => b[t] # None /\ op(t) = "clear"
  /\ s[t].fwd => pc[t] \in CopyLabels \cup {"check"} /\ bucket[b[t]] = Forwarded
  /\ tag[t] /\ pc[t] \in CopyLabels \cup {"check", "expanded"} => s[t] = bucket[b[t]]
  /\ tag[t] /\ pc[t] = "clearsc" => bucket[b[t]] # Forwarded

Positions == \A t \in Thread : Position(t)

Inv == Types /\ Shape /\ Blocks /\ Copiers /\ Counts /\ Positions

(* The copies that t made, if its sc will succeed.                         *)
Fresh ==
  \A t \in Thread : pc[t] = "copysc" /\ ctag[t] =>
    \A m \in Children(Source(t)) :
      EntrySet(bucket[m]) = {e \in EntrySet(bucket[Source(t)]) : e.key \in KeysOf(m)}

Full == Inv /\ RightBucket /\ Fresh

(* What a walk has visited and has left to visit, of all there is.         *)
Sweeps(t) ==
  Walking(t) /\ op(t) = "for_each" =>
    /\ kept[t] \subseteq Contents(bucket) /\ Contents(bucket) \subseteq met[t]
    /\ out[t] \subseteq met[t]
    /\ \A e \in kept[t] : e \in out[t] \/ \E n \in todo[t] : e.key \in KeysOf(n)
    /\ \A e \in out[t] : \A n \in todo[t] : e.key \notin KeysOf(n)
    /\ \A m, n \in todo[t] : m # n => KeysOf(m) \cap KeysOf(n) = {}

WalkInv ==
  /\ \A t \in Thread : Sweeps(t)
  /\ \A t \in Thread : pc[t] = "idle" => out[t] = {}
  /\ DOMAIN out = Thread /\ DOMAIN kept = Thread /\ DOMAIN met = Thread

(* The bucket that holds key k.                                            *)
Owner(k) ==
  IF bucket[Home(current, k)] = Forwarded THEN Home(current + 1, k) ELSE Home(current, k)

(* What UnorderedMap sees of a thread.                                     *)
StatusOf(t) == IF pc[t] = "idle" THEN "idle" ELSE IF Decided(t) THEN "done" ELSE "pending"

ResultOf(t) == IF Decided(t) THEN Lookup(s[t], key(t)) ELSE None

-----------------------------------------------------------------------------
(***************************************************************************)
(* What the steps have in common.                                          *)
(***************************************************************************)

(* The labels between the claim of a block and the end of copy_if_needed.  *)
CopierLabels == {"copyll", "copysc", "copied", "count", "switch"}

(* No marker is set or goes away, and no bucket is lost.                   *)
SameMarkers ==
  \A n \in Node : /\ bucket'[n] = Forwarded <=> bucket[n] = Forwarded
                  /\ bucket[n] # None => bucket'[n] # None

(* Nothing changes for u but that its tag may end.                         *)
NotOf(u) ==
  /\ pc'[u] = pc[u] /\ call'[u] = call[u] /\ ht'[u] = ht[u] /\ lev'[u] = lev[u]
  /\ b'[u] = b[u] /\ todo'[u] = todo[u] /\ s'[u] = s[u]
  /\ tag'[u] => tag[u] /\ (b[u] # None => bucket'[b[u]] = bucket[b[u]])

(* What an update leaves for its key.                                      *)
NewEntries(t) ==
  CASE op(t) = "insert" -> {[key |-> key(t), val |-> call[t].val]}
    [] op(t) = "upsert" -> {[key |-> key(t), val |-> Change[Lookup(s[t], key(t))]]}
    [] op(t) = "remove" -> {}

-----------------------------------------------------------------------------
(***************************************************************************)
(* What the proofs take from BucketStateProofs and from the theorems on    *)
(* finite sets: facts about values, proved there.                          *)
(***************************************************************************)
Item == [key : Key, val : Val]

EntryFacts ==
  \A x \in State :
    /\ EntrySet(x) \subseteq Item
    /\ \A k \in Key : /\ ~Has(x, k) => Lookup(x, k) = None
                      /\ Has(x, k) => \E e \in EntrySet(x) : e.key = k /\ Lookup(x, k) = e.val
                      /\ Distinct(x) => \A e \in EntrySet(x) : e.key = k => Lookup(x, k) = e.val

AddEntryFacts ==
  \A x \in State, e \in Item : WellFormed(x) =>
    /\ AddEntry(x, e) \in State /\ WellFormed(AddEntry(x, e)) /\ AddEntry(x, e).fwd = x.fwd
    /\ EntrySet(AddEntry(x, e)) = EntrySet(x) \cup {e}
    /\ Distinct(x) /\ ~Has(x, e.key) => Distinct(AddEntry(x, e))

ReplaceEntryFacts ==
  \A x \in State, e \in Item : WellFormed(x) /\ Has(x, e.key) =>
    /\ ReplaceEntry(x, e) \in State /\ WellFormed(ReplaceEntry(x, e))
    /\ ReplaceEntry(x, e).fwd = x.fwd
    /\ Distinct(x) =>
         /\ EntrySet(ReplaceEntry(x, e)) = {y \in EntrySet(x) : y.key # e.key} \cup {e}
         /\ Distinct(ReplaceEntry(x, e))

RemoveKeyFacts ==
  \A x \in State, k \in Key : WellFormed(x) /\ Has(x, k) =>
    /\ RemoveKey(x, k) \in State /\ WellFormed(RemoveKey(x, k)) /\ RemoveKey(x, k).fwd = x.fwd
    /\ Distinct(x) => /\ EntrySet(RemoveKey(x, k)) = {y \in EntrySet(x) : y.key # k}
                      /\ Distinct(RemoveKey(x, k))

SplitFacts ==
  \A x \in State, keys \in SUBSET Key :
    /\ Split(x, keys) \in State /\ WellFormed(Split(x, keys)) /\ ~Split(x, keys).fwd
    /\ EntrySet(Split(x, keys)) = {e \in EntrySet(x) : e.key \in keys}
    /\ Distinct(x) => Distinct(Split(x, keys))

StateFacts == EntryFacts /\ AddEntryFacts /\ ReplaceEntryFacts /\ RemoveKeyFacts /\ SplitFacts

SetFacts ==
  /\ Cardinality({}) = 0
  /\ \A n \in Nat : IsFiniteSet(0..(n - 1)) /\ Cardinality(0..(n - 1)) = n
  /\ \A A : IsFiniteSet(A) =>
       /\ Cardinality(A) \in Nat
       /\ \A x : x \notin A => Cardinality(A \cup {x}) = Cardinality(A) + 1
       /\ \A x \in A : Cardinality(A \ {x}) = Cardinality(A) - 1
       /\ \A B \in SUBSET A : /\ IsFiniteSet(B) /\ Cardinality(B) <= Cardinality(A)
                              /\ Cardinality(B) = Cardinality(A) => B = A
=============================================================================
