----------------------------- MODULE ParlayHash -----------------------------
(***************************************************************************)
(* The hash table (parlay_hash.h): Find, Insert, Upsert and Remove by any  *)
(* number of threads while the table grows, for_each (size is the same     *)
(* walk) and clear.                                                        *)
(*                                                                         *)
(* A bucket is a big_atomic<state>: ll, lv and sc are single steps, as     *)
(* LLSC says.  A tag is good until the next successful sc on its bucket,   *)
(* so that a tag is a Boolean here.  The table grows by versions: an       *)
(* update that finds a bucket too long allocates the next one, and every   *)
(* update after that copies a block of buckets before it does its own      *)
(* work, leaving forwarded markers behind.                                 *)
(*                                                                         *)
(* One action is one access to shared memory, with the local work around   *)
(* it.  What nobody else can reach yet (a table_version before it is       *)
(* linked, the buckets a copy goes to) is written in the step before.      *)
(***************************************************************************)
EXTENDS BucketState, FiniteSets

CONSTANTS Thread, Key, Val,
          Call,          \* the calls that are made: records with op, key and val
          Change,        \* Change[v]: what the function given to Upsert returns for v
          Hash,          \* Hash[k]: the hash of key k, below HashSize
          HashSize,      \* 2^48 in the code
          Size,          \* Size[v]: the size of version v, 2^num_bits
          Grow,          \* grow_factor (4 in the code)
          BlockSize,     \* BlockSize[v]: the block_size of version v
          OverflowSize,  \* OverflowSize[v]: the overflow_size of version v
          Direct,        \* Entry::Direct: entries are kept in the buckets themselves
          Preload,       \* the entries that are inserted before anything else
          MaxVersion,    \* bound: version MaxVersion does not grow
          MaxCalls       \* bound: how many calls are made

Version == 1..MaxVersion
NumBlocks(v) == Size[v] \div BlockSize[v]

Node == UNION {{v} \X (0..(Size[v] - 1)) : v \in Version}

(* get_index: the highest bits of the hash.                                *)
Index(v, k) == (Hash[k] \div (HashSize \div Size[v])) % Size[v]

Home(v, k) == <<v, Index(v, k)>>

Children(n) == {<<n[1] + 1, Grow * n[2] + j>> : j \in 0..(Grow - 1)}

Parent(n) == <<n[1] - 1, n[2] \div Grow>>

KeysOf(n) == {k \in Key : Home(n[1], k) = n}

(* The keys that copy_bucket puts in bucket n, of those in its parent: the *)
(* low bits of the new index tell.                                         *)
Share(n) == {k \in Key : Index(n[1], k) % Grow = n[2] % Grow}

State == States([key : Key, val : Val])

Walks == {"for_each", "clear"}
Updates == {"insert", "upsert", "remove"}

ASSUME ConstantsAssumption ==
  /\ Grow \in Nat \ {0}
  /\ MaxVersion \in Nat \ {0} /\ MaxCalls \in Nat /\ Direct \in BOOLEAN
  /\ HashSize \in Nat \ {0}
  /\ \A v \in Version : /\ Size[v] \in Nat \ {0} /\ HashSize % Size[v] = 0
                        /\ v < MaxVersion => Size[v + 1] = Grow * Size[v]
  /\ Hash \in [Key -> 0..(HashSize - 1)]
  /\ \A v \in Version : /\ BlockSize[v] \in 1..Size[v] /\ Size[v] % BlockSize[v] = 0
                        /\ v < MaxVersion => BlockSize[v] <= BlockSize[v + 1]
                        /\ OverflowSize[v] \in Nat
  /\ IsFiniteSet(Thread)
  /\ None \notin Val \cup Call \cup Node \cup State
  /\ Change \in [Val \cup {None} -> Val]
  /\ Call \subseteq [op : Updates \cup Walks \cup {"find"}, key : Key, val : Val]

(* No entry is inserted in a bucket that is so long that the table grows.  *)
Fits(entries) ==
  \A n \in Node : n[1] = 1 =>
    LET len == Cardinality({j \in DOMAIN entries : entries[j].key \in KeysOf(n)})
    IN len <= BufferSize + 1 \/ len <= OverflowSize[1] + 1

(* One entry for a key; the table does not grow before the last of them.   *)
ASSUME PreloadAssumption ==
  /\ Preload \in Seq([key : Key, val : Val])
  /\ \A m, n \in DOMAIN Preload : Preload[m].key = Preload[n].key => m = n
  /\ \A m \in DOMAIN Preload : m < Len(Preload) => Fits(SubSeq(Preload, 1, m))
  /\ Fits(Preload) \/ MaxVersion > 1

VARIABLES bucket,        \* bucket[<<v, j>>]: the state of bucket j of version v
          versions,      \* v->next is set iff v < versions
          current,       \* current_table_version
          block_status,  \* block_status[v][j]
          finished,      \* finished[v]: finished_block_count
          pc, call,
          inside,        \* inside[t]: t is within with_epoch
          ht, b,         \* the version the call started from, its bucket
          lev,           \* the version of the innermost recursive call
          s, tag, out_s, \* what ll returned; out_s of Upsert
          i, ctag,       \* copy_bucket: the bucket being copied, its tag
          todo, out,     \* a walk: the buckets to visit, the entries visited
          kept, met,     \* a walk: entries that were there all the time, or ever
          calls          \* how many calls have been made

table == <<bucket, versions, current, block_status, finished>>
target == <<ht, b, lev, s, tag, out_s>>
copying == <<i, ctag>>
walk == <<todo, out, kept, met>>
vars == <<table, pc, call, inside, target, copying, walk, calls>>

key(t) == call[t].key
op(t) == call[t].op

(* The bucket that copy_bucket works on.                                   *)
Source(t) == <<ht[t], i[t]>>

Goto(t, label) == pc' = [pc EXCEPT ![t] = label]

(***************************************************************************)
(* The entries of the table: those of the buckets that are not forwarded   *)
(* and that a reader can get to.                                           *)
(***************************************************************************)
Reachable(bkt, n) == n[1] = 1 \/ bkt[Parent(n)] = Forwarded

IsLive(bkt, n) == bkt[n] # None /\ bkt[n] # Forwarded /\ Reachable(bkt, n)

Contents(bkt) == UNION {EntrySet(bkt[n]) : n \in {m \in Node : IsLive(bkt, m)}}

Walking(t) == pc[t] # "idle" /\ op(t) \in Walks

(* What a walk will be held to, after a step that leaves the buckets bkt.  *)
Observe(bkt) ==
  /\ kept' = [u \in Thread |-> kept[u] \cap Contents(bkt)]
  /\ met' = [u \in Thread |-> IF Walking(u) THEN met[u] \cup Contents(bkt) ELSE {}]

(* The entries of Preload have been inserted, one after the other.         *)
Init ==
  /\ bucket = [n \in Node |-> IF n[1] = 1
                       THEN Split([Empty EXCEPT !.list = Preload], KeysOf(n)) ELSE None]
  /\ versions = IF Fits(Preload) THEN 1 ELSE 2
  /\ current = 1
  /\ block_status = [v \in Version |-> [j \in 0..(Size[v] - 1) |->
                       IF v = 1 /\ j < NumBlocks(1) THEN "Empty" ELSE "Uninit"]]
  /\ finished = [v \in Version |-> 0]
  /\ pc = [t \in Thread |-> "idle"]
  /\ call = [t \in Thread |-> None]
  /\ inside = [t \in Thread |-> FALSE]
  /\ ht = [t \in Thread |-> 0]
  /\ b = [t \in Thread |-> None]
  /\ lev = [t \in Thread |-> 0]
  /\ s = [t \in Thread |-> Empty]
  /\ tag = [t \in Thread |-> FALSE]
  /\ out_s = [t \in Thread |-> Empty]
  /\ i = [t \in Thread |-> 0]
  /\ ctag = [t \in Thread |-> FALSE]
  /\ todo = [t \in Thread |-> {}]
  /\ out = [t \in Thread |-> {}]
  /\ kept = [t \in Thread |-> {}]
  /\ met = [t \in Thread |-> {}]
  /\ calls = 0

-----------------------------------------------------------------------------
(***************************************************************************)
(* Invocation and response.                                                *)
(***************************************************************************)

(* A call starts by reading current_table_version.                         *)
Begin(t, c) ==
  /\ pc[t] = "idle"
  /\ calls < MaxCalls
  /\ calls' = calls + 1
  /\ call' = [call EXCEPT ![t] = c]
  /\ ht' = [ht EXCEPT ![t] = current]

(* With direct entries, Find and Remove start outside with_epoch; with     *)
(* indirect ones, Find is a plain load inside it.                          *)
Invoke(t) ==
  /\ \E c \in Call :
       /\ c.op \notin Walks
       /\ Begin(t, c)
       /\ b' = [b EXCEPT ![t] = Home(current, c.key)]
       /\ lev' = [lev EXCEPT ![t] = current]
       /\ inside' = [inside EXCEPT ![t] = ~(Direct /\ c.op \in {"find", "remove"})]
       /\ Goto(t, IF c.op = "find" /\ ~Direct THEN "load" ELSE "ll")
  /\ UNCHANGED <<table, s, tag, out_s, copying, walk>>

(* for_each, inside with_epoch, and clear_buckets, outside it.             *)
InvokeWalk(t) ==
  /\ \E c \in Call :
       /\ c.op \in Walks
       /\ Begin(t, c)
       /\ inside' = [inside EXCEPT ![t] = c.op = "for_each"]
  /\ todo' = [todo EXCEPT ![t] = {<<current, j>> : j \in 0..(Size[current] - 1)}]
  /\ kept' = [kept EXCEPT ![t] = Contents(bucket)]
  /\ met' = [met EXCEPT ![t] = Contents(bucket)]
  /\ Goto(t, "visit")
  /\ UNCHANGED <<table, b, lev, s, tag, out_s, copying, out>>

(* insert_ and Upsert: the list is too long, which makes the table grow.   *)
(* The length of the list is only known when the key is not in it.         *)
NeedsExpand(t) ==
  /\ op(t) \in {"insert", "upsert"}
  /\ Overfull(s[t])
  /\ IF Has(s[t], key(t))
       THEN op(t) = "insert" /\ ~InBuffer(s[t], key(t)) /\ BufferSize > OverflowSize[ht[t]]
       ELSE Len(s[t].list) + BufferSize > OverflowSize[ht[t]]

(* The state of the bucket is known and expand_table, if due, is behind.   *)
Ready(t) ==
  /\ ~s[t].fwd
  /\ pc[t] = "expanded" \/ (pc[t] = "check" /\ ~NeedsExpand(t))

(* Mutant: insert_ looks for the key in the buffer only.                   *)
AnsweredFromBuffer(t) ==
  CASE op(t) = "find"   -> InBuffer(s[t], key(t)) \/ ~Overfull(s[t])
    [] op(t) = "insert" -> InBuffer(s[t], key(t))
    [] op(t) = "remove" -> ~Has(s[t], key(t)) /\ (inside[t] \/ ~Overfull(s[t]))
    [] OTHER            -> FALSE

(* s is all the call needs: it returns with no further access.             *)
Answered(t) ==
  CASE op(t) = "find"   -> InBuffer(s[t], key(t)) \/ ~Overfull(s[t])
    [] op(t) = "insert" -> Has(s[t], key(t))
    [] op(t) = "remove" -> ~Has(s[t], key(t)) /\ (inside[t] \/ ~Overfull(s[t]))
    [] OTHER            -> FALSE

Return(t) ==
  /\ \/ pc[t] = "return"
     \/ pc[t] = "visit" /\ todo[t] = {}
     \/ Ready(t) /\ Answered(t)
  /\ Goto(t, "idle")
  /\ call' = [call EXCEPT ![t] = None]
  /\ inside' = [inside EXCEPT ![t] = FALSE]
  /\ ht' = [ht EXCEPT ![t] = 0]
  /\ b' = [b EXCEPT ![t] = None]
  /\ lev' = [lev EXCEPT ![t] = 0]
  /\ s' = [s EXCEPT ![t] = Empty]
  /\ tag' = [tag EXCEPT ![t] = FALSE]
  /\ out_s' = [out_s EXCEPT ![t] = Empty]
  /\ out' = [out EXCEPT ![t] = {}]
  /\ kept' = [kept EXCEPT ![t] = {}]
  /\ met' = [met EXCEPT ![t] = {}]
  /\ UNCHANGED <<table, copying, todo, calls>>

-----------------------------------------------------------------------------
(***************************************************************************)
(* ll, then copy_if_needed (not for Find), then check_bucket_and_state.    *)
(***************************************************************************)
LL(t) ==
  /\ pc[t] = "ll"
  /\ s' = [s EXCEPT ![t] = bucket[b[t]]]
  /\ tag' = [tag EXCEPT ![t] = TRUE]
  /\ out_s' = [out_s EXCEPT ![t] = IF op(t) = "upsert" THEN bucket[b[t]] ELSE Empty]
  /\ lev' = [lev EXCEPT ![t] = ht[t]]
  /\ Goto(t, IF op(t) = "find" THEN "check" ELSE "copy")
  /\ UNCHANGED <<table, call, inside, ht, b, copying, walk, calls>>

(* A forwarded bucket: on to the bucket of the key in the next version.    *)
Check(t) ==
  LET n == Home(lev[t] + 1, key(t)) IN
  /\ pc[t] = "check"
  /\ s[t].fwd
  /\ b' = [b EXCEPT ![t] = n]
  /\ s' = [s EXCEPT ![t] = bucket[n]]
  /\ tag' = [tag EXCEPT ![t] = TRUE]
  /\ lev' = [lev EXCEPT ![t] = @ + 1]
  /\ UNCHANGED <<table, pc, call, inside, ht, out_s, copying, walk, calls>>

(* Mutant: expand_table does not ask whether there is a next version.      *)
ExpandAgain(t) ==
  /\ pc[t] = "check"
  /\ ~s[t].fwd
  /\ NeedsExpand(t)
  /\ versions' = IF versions < MaxVersion THEN versions + 1 ELSE versions
  /\ Goto(t, "expanded")
  /\ UNCHANGED <<bucket, current, block_status, finished, call, inside, target,
                 copying, walk, calls>>

(* expand_table: nothing happens if there is a next version already, or if *)
(* the lock, which other tables share, is taken.                           *)
Expand(t) ==
  /\ pc[t] = "check"
  /\ ~s[t].fwd
  /\ NeedsExpand(t)
  /\ \/ versions' = versions
     \/ ht[t] = versions /\ versions < MaxVersion /\ versions' = versions + 1
  /\ Goto(t, "expanded")
  /\ UNCHANGED <<bucket, current, block_status, finished, call, inside, target,
                 copying, walk, calls>>

-----------------------------------------------------------------------------
(***************************************************************************)
(* The updates.                                                            *)
(***************************************************************************)

(* The state that replaces s.  An entry of the buffer is upserted in out_s, *)
(* which has what ll returned before check_bucket_and_state went on to s.  *)
NewState(t) ==
  LET e == [key |-> key(t), val |-> Change[Lookup(s[t], key(t))]] IN
  CASE op(t) = "insert" -> AddEntry(s[t], [key |-> key(t), val |-> call[t].val])
    [] op(t) = "remove" -> RemoveKey(s[t], key(t))
    [] op(t) = "clear"  -> Empty
    [] op(t) = "upsert" -> IF ~Has(s[t], key(t)) THEN AddEntry(s[t], e)
                           ELSE IF InBuffer(s[t], key(t)) /\ out_s[t].fwd THEN Forwarded
                           ELSE ReplaceEntry(s[t], e)

(* A successful sc on bucket n ends the tags of everybody.                 *)
Written(n, new) ==
  /\ bucket' = [bucket EXCEPT ![n] = new]
  /\ tag' = [u \in Thread |-> tag[u] /\ b[u] # n]
  /\ ctag' = [u \in Thread |-> ctag[u] /\ Source(u) # n]
  /\ Observe(bucket')

SCSucceeds(t) ==
  /\ Ready(t) /\ ~Answered(t) /\ op(t) \in Updates
  /\ inside[t] \/ ~Overfull(s[t])
  /\ tag[t]
  /\ Written(b[t], NewState(t))
  /\ Goto(t, "return")
  /\ UNCHANGED <<versions, current, block_status, finished, call, inside, ht, b, lev, s,
                 out_s, i, todo, out, calls>>

(* Mutant: the bucket is not loaded again.                                 *)
RetryStale(t) ==
  /\ Ready(t) /\ ~Answered(t) /\ op(t) \in Updates
  /\ ~tag[t] \/ (~inside[t] /\ Overfull(s[t]))
  /\ inside' = [inside EXCEPT ![t] = TRUE]
  /\ Goto(t, "check")
  /\ UNCHANGED <<table, call, target, copying, walk, calls>>

(* Again, from the bucket that check_bucket_and_state got to; in with_epoch *)
(* from now on.  Remove also comes here when it has started outside of it   *)
(* and finds a list.                                                        *)
Retry(t) ==
  /\ Ready(t) /\ ~Answered(t) /\ op(t) \in Updates
  /\ ~tag[t] \/ (~inside[t] /\ Overfull(s[t]))
  /\ inside' = [inside EXCEPT ![t] = TRUE]
  /\ Goto(t, "ll")
  /\ UNCHANGED <<table, call, target, copying, walk, calls>>

-----------------------------------------------------------------------------
(***************************************************************************)
(* Find, beyond the buffer.                                                *)
(***************************************************************************)

(* lv: if the bucket is unchanged then so is the list, and the search ends *)
(* there; otherwise it starts again with find_in_bucket_rec.               *)
LV(t) ==
  /\ Ready(t) /\ ~Answered(t) /\ op(t) = "find"
  /\ inside' = [inside EXCEPT ![t] = TRUE]
  /\ lev' = [lev EXCEPT ![t] = ht[t]]
  /\ Goto(t, IF tag[t] THEN "return" ELSE "load")
  /\ UNCHANGED <<table, call, ht, b, s, tag, out_s, copying, walk, calls>>

(* Mutant: a forwarded bucket is followed once.                            *)
LoadOneLevel(t) ==
  /\ pc[t] = "load"
  /\ s' = [s EXCEPT ![t] = IF bucket[b[t]].fwd THEN bucket[Home(lev[t] + 1, key(t))]
                                               ELSE bucket[b[t]]]
  /\ Goto(t, "return")
  /\ UNCHANGED <<table, call, inside, ht, b, lev, tag, out_s, copying, walk, calls>>

(* One level of find_in_bucket_rec.                                        *)
Load(t) ==
  /\ pc[t] = "load"
  /\ IF bucket[b[t]].fwd
       THEN /\ b' = [b EXCEPT ![t] = Home(lev[t] + 1, key(t))]
            /\ lev' = [lev EXCEPT ![t] = @ + 1]
            /\ UNCHANGED <<pc, s>>
       ELSE /\ s' = [s EXCEPT ![t] = bucket[b[t]]]
            /\ Goto(t, "return")
            /\ UNCHANGED <<b, lev>>
  /\ UNCHANGED <<table, call, inside, ht, tag, out_s, copying, walk, calls>>

-----------------------------------------------------------------------------
(***************************************************************************)
(* copy_if_needed and copy_bucket.                                         *)
(***************************************************************************)

(* The block that is copied on the way to bucket b.                        *)
BlockOf(t) == b[t][2] % NumBlocks(ht[t])

(* Nothing to copy, or copied by another thread that t has waited for.     *)
CopyNothing(t) ==
  /\ pc[t] = "copy"
  /\ ht[t] = versions \/ block_status[ht[t]][BlockOf(t)] \notin {"Empty", "Working"}
  /\ Goto(t, "check")
  /\ UNCHANGED <<table, call, inside, target, copying, walk, calls>>

(* Mutant: the blocks of the next version are not set up.                  *)
ClaimOnly(t) ==
  /\ pc[t] = "copy"
  /\ ht[t] < versions
  /\ block_status[ht[t]][BlockOf(t)] = "Empty"
  /\ block_status' = [block_status EXCEPT ![ht[t]][BlockOf(t)] = "Working"]
  /\ i' = [i EXCEPT ![t] = BlockOf(t) * BlockSize[ht[t]]]
  /\ Goto(t, "copyll")
  /\ UNCHANGED <<bucket, versions, current, finished, call, inside, target, ctag, walk,
                 calls>>

(* The blocks of the next version are set up for the copy after this one.  *)
CopyClaim(t) ==
  LET v == ht[t] IN
  /\ pc[t] = "copy"
  /\ v < versions
  /\ block_status[v][BlockOf(t)] = "Empty"
  /\ block_status' = [block_status EXCEPT
       ![v][BlockOf(t)] = "Working",
       ![v + 1] = [j \in DOMAIN @ |-> IF j \div Grow = BlockOf(t) THEN "Empty" ELSE @[j]]]
  /\ i' = [i EXCEPT ![t] = BlockOf(t) * BlockSize[v]]
  /\ Goto(t, "copyll")
  /\ UNCHANGED <<bucket, versions, current, finished, call, inside, target, ctag, walk,
                 calls>>

(* ll, and the buckets of the next version get their share of the entries. *)
CopyLL(t) ==
  /\ pc[t] = "copyll"
  /\ ctag' = [ctag EXCEPT ![t] = TRUE]
  /\ bucket' = [n \in Node |-> IF n \in Children(Source(t))
                                 THEN Split(bucket[Source(t)], Share(n)) ELSE bucket[n]]
  /\ Goto(t, "copysc")
  /\ UNCHANGED <<versions, current, block_status, finished, call, inside, target, i, walk,
                 calls>>

(* Mutant: the marker is stored whatever happened since the ll.            *)
ForwardAlways(t) ==
  /\ pc[t] = "copysc"
  /\ Written(Source(t), Forwarded)
  /\ i' = [i EXCEPT ![t] = @ + 1]
  /\ Goto(t, IF (i[t] + 1) % BlockSize[ht[t]] = 0 THEN "copied" ELSE "copyll")
  /\ UNCHANGED <<versions, current, block_status, finished, call, inside, ht, b, lev, s,
                 out_s, todo, out, calls>>

(* The forwarded marker makes the copy visible; on to the next bucket.     *)
CopySCSucceeds(t) ==
  /\ pc[t] = "copysc"
  /\ ctag[t]
  /\ Written(Source(t), Forwarded)
  /\ i' = [i EXCEPT ![t] = @ + 1]
  /\ Goto(t, IF (i[t] + 1) % BlockSize[ht[t]] = 0 THEN "copied" ELSE "copyll")
  /\ UNCHANGED <<versions, current, block_status, finished, call, inside, ht, b, lev, s,
                 out_s, todo, out, calls>>

(* The bucket was updated meanwhile: its copies are emptied.               *)
CopySCFails(t) ==
  /\ pc[t] = "copysc"
  /\ ~ctag[t]
  /\ bucket' = [n \in Node |-> IF n \in Children(Source(t)) THEN Empty ELSE bucket[n]]
  /\ Goto(t, "copyll")
  /\ UNCHANGED <<versions, current, block_status, finished, call, inside, target, copying,
                 walk, calls>>

CopyDone(t) ==
  LET block == (i[t] - 1) \div BlockSize[ht[t]] IN
  /\ pc[t] = "copied"
  /\ block_status' = [block_status EXCEPT ![ht[t]][block] = "Done"]
  /\ i' = [i EXCEPT ![t] = 0]
  /\ Goto(t, "count")
  /\ UNCHANGED <<bucket, versions, current, finished, call, inside, target, ctag, walk,
                 calls>>

(* Mutant: whoever has copied a block switches to the next version.        *)
CountNothing(t) ==
  /\ pc[t] = "count"
  /\ finished' = [finished EXCEPT ![ht[t] + 1] = @ + 1]
  /\ Goto(t, "switch")
  /\ UNCHANGED <<bucket, versions, current, block_status, call, inside, target, copying,
                 walk, calls>>

CopyCount(t) ==
  LET v == ht[t] IN
  /\ pc[t] = "count"
  /\ finished' = [finished EXCEPT ![v + 1] = @ + 1]
  /\ Goto(t, IF finished[v + 1] + 1 = NumBlocks(v) THEN "switch" ELSE "check")
  /\ UNCHANGED <<bucket, versions, current, block_status, call, inside, target, copying,
                 walk, calls>>

Switch(t) ==
  /\ pc[t] = "switch"
  /\ current' = ht[t] + 1
  /\ Goto(t, "check")
  /\ UNCHANGED <<bucket, versions, block_status, finished, call, inside, target, copying,
                 walk, calls>>

-----------------------------------------------------------------------------
(***************************************************************************)
(* Walks: every bucket of ht, and in place of a forwarded one those it has *)
(* been copied to.  for_each goes through them in order and size in        *)
(* parallel: in any order here.                                            *)
(***************************************************************************)
(* Mutant: only the first of the buckets is visited.                       *)
DescendOnce(t, n) ==
  /\ bucket[n].fwd
  /\ todo' = [todo EXCEPT ![t] = (@ \ {n}) \cup {<<n[1] + 1, Grow * n[2]>>}]
  /\ UNCHANGED <<pc, b, out>>

Descend(t, n) ==
  /\ bucket[n].fwd
  /\ todo' = [todo EXCEPT ![t] = (@ \ {n}) \cup Children(n)]
  /\ UNCHANGED <<pc, b, out>>

(* for_each_bucket_rec                                                     *)
Visit(t) ==
  /\ pc[t] = "visit" /\ op(t) = "for_each"
  /\ \E n \in todo[t] :
       \/ Descend(t, n)
       \/ /\ ~bucket[n].fwd
          /\ todo' = [todo EXCEPT ![t] = @ \ {n}]
          /\ out' = [out EXCEPT ![t] = @ \cup EntrySet(bucket[n])]
          /\ UNCHANGED <<pc, b>>
  /\ UNCHANGED <<table, call, inside, ht, lev, s, tag, out_s, copying, kept, met, calls>>

(* clear_bucket_rec                                                        *)
ClearVisit(t) ==
  /\ pc[t] = "visit" /\ op(t) = "clear"
  /\ \E n \in todo[t] :
       \/ Descend(t, n)
       \/ /\ ~bucket[n].fwd
          /\ todo' = [todo EXCEPT ![t] = @ \ {n}]
          /\ b' = [b EXCEPT ![t] = n]
          /\ Goto(t, "clearll")
          /\ UNCHANGED out
  /\ UNCHANGED <<table, call, inside, ht, lev, s, tag, out_s, copying, kept, met, calls>>

(* clear_bucket: a bucket that is forwarded by now is left alone.          *)
ClearLL(t) ==
  /\ pc[t] = "clearll"
  /\ tag' = [tag EXCEPT ![t] = TRUE]
  /\ Goto(t, IF bucket[b[t]].fwd THEN "visit" ELSE "clearsc")
  /\ UNCHANGED <<table, call, inside, ht, b, lev, s, out_s, copying, walk, calls>>

(* ... and so is one that is updated before the sc.                        *)
ClearSC(t) ==
  /\ pc[t] = "clearsc"
  /\ IF tag[t] THEN Written(b[t], NewState(t))
                ELSE UNCHANGED <<bucket, tag, ctag, kept, met>>
  /\ Goto(t, "visit")
  /\ UNCHANGED <<versions, current, block_status, finished, call, inside, ht, b, lev, s,
                 out_s, i, todo, out, calls>>

-----------------------------------------------------------------------------
Step(t) ==
  \/ Return(t) \/ LL(t) \/ Check(t) \/ Expand(t) \/ SCSucceeds(t) \/ Retry(t)
  \/ LV(t) \/ Load(t)
  \/ CopyNothing(t) \/ CopyClaim(t) \/ CopyLL(t) \/ CopySCSucceeds(t) \/ CopySCFails(t)
  \/ CopyDone(t) \/ CopyCount(t) \/ Switch(t)
  \/ Visit(t) \/ ClearVisit(t) \/ ClearLL(t) \/ ClearSC(t)

(* All the calls that the bound allows have been made and have returned.   *)
Finished ==
  /\ calls = MaxCalls
  /\ \A t \in Thread : pc[t] = "idle"
  /\ UNCHANGED vars

Next == Finished \/ \E t \in Thread : Invoke(t) \/ InvokeWalk(t) \/ Step(t)

Spec == Init /\ [][Next]_vars

(* A thread that runs a call goes on with it: the code has no other        *)
(* scheduling.  Nobody has to make a call.                                 *)
FairSpec == Spec /\ \A t \in Thread : WF_vars(Step(t))

-----------------------------------------------------------------------------
(***************************************************************************)
(* Properties.                                                             *)
(***************************************************************************)
Labels == {"idle", "ll", "check", "expanded", "return", "load", "visit", "clearll", "clearsc",
           "copy", "copyll", "copysc", "copied", "count", "switch"}

(* Every variable has its type, a buffer is never longer than it may be,   *)
(* there is a list only behind a full buffer (struct state), and no block  *)
(* is counted twice (finished_block_count).                                *)
TypeOK ==
  /\ bucket \in [Node -> State \cup {None}]
  /\ \A n \in Node : bucket[n] # None => WellFormed(bucket[n])
  /\ versions \in Version /\ current \in 1..versions
  /\ DOMAIN block_status = Version /\ \A v \in Version :
       block_status[v] \in [0..(Size[v] - 1) -> {"Uninit", "Empty", "Working", "Done"}]
  /\ finished \in [Version -> Nat]
  /\ \A v \in Version : v > 1 => finished[v] <= NumBlocks(v - 1)
  /\ pc \in [Thread -> Labels] /\ call \in [Thread -> Call \cup {None}]
  /\ \A t \in Thread : pc[t] = "idle" <=> call[t] = None
  /\ inside \in [Thread -> BOOLEAN] /\ tag \in [Thread -> BOOLEAN] /\ ctag \in [Thread -> BOOLEAN]
  /\ ht \in [Thread -> 0..current] /\ lev \in [Thread -> 0..versions]
  /\ b \in [Thread -> Node \cup {None}] /\ todo \in [Thread -> SUBSET Node]
  /\ s \in [Thread -> State] /\ out_s \in [Thread -> State] /\ i \in [Thread -> Nat]

(* An entry is in no bucket but that of its key, and once at most: get_index *)
(* sends the keys of a bucket to the grow_factor buckets it is copied to.  *)
RightBucket ==
  \A n \in Node : bucket[n] # None =>
    Distinct(bucket[n]) /\ \A e \in EntrySet(bucket[n]) : e.key \in KeysOf(n)

(* Nobody but the copier gets to the buckets of a copy before the          *)
(* forwarded marker is in place (copy_bucket), nobody reads a bucket or a  *)
(* block_status that is not set up yet, and a marker always leads on to a  *)
(* version that exists (check_bucket_and_state and the other recursions).  *)
CopyIsPrivate ==
  /\ \A t \in Thread : \A n \in todo[t] \cup ({b[t]} \ {None}) :
       bucket[n] # None /\ Reachable(bucket, n)
  /\ \A t \in Thread : pc[t] = "copy" /\ ht[t] < versions =>
       block_status[ht[t]][BlockOf(t)] # "Uninit"
  /\ \A n \in Node : bucket[n] = Forwarded =>
       n[1] < versions /\ \A m \in Children(n) : bucket[m] # None

InOrder ==
  /\ current' \in {current, current + 1} /\ versions' \in {versions, versions + 1}
  /\ versions' <= current' + 1
  /\ current' # current => \A n \in Node : n[1] = current => bucket[n] = Forwarded
  /\ \A n \in Node : bucket[n] = Forwarded => bucket'[n] = Forwarded

(* current_table_version moves to the next version only, and only once     *)
(* every bucket of the one it leaves has been copied (the count in         *)
(* copy_if_needed); there is never more than one copy going on; a bucket   *)
(* that is forwarded stays so.                                             *)
GrowsInOrder == [][InOrder]_vars

(* The table is the map of UnorderedMap: a call takes effect at its        *)
(* successful sc, or where it reads the state that it answers from.        *)
Decided(t) ==
  \/ pc[t] = "return"
  \/ /\ pc[t] \notin {"idle", "ll", "load"} /\ ~Walking(t)
     /\ ~s[t].fwd /\ Answered(t)

Value(k) ==
  LET at == {Home(v, k) : v \in Version}
      found == {e \in UNION {EntrySet(bucket[n]) : n \in {m \in at : IsLive(bucket, m)}} :
                  e.key = k}
  IN IF found = {} THEN None ELSE (CHOOSE e \in found : TRUE).val

Abstract == INSTANCE UnorderedMap WITH
  map <- [k \in Key |-> Value(k)],
  status <- [t \in Thread |-> IF pc[t] = "idle" THEN "idle"
                              ELSE IF Decided(t) THEN "done" ELSE "pending"],
  result <- [t \in Thread |-> IF Decided(t) THEN Lookup(s[t], key(t)) ELSE None]

(* Find, Insert, Upsert and Remove are linearizable, while the table grows *)
(* too, and nothing but them and clear changes what the table holds.       *)
ImplementsMap == Abstract!Spec

(* A walk meets every entry that is there from its invocation to its       *)
(* response, none that is not there at any time in between, and none twice *)
(* (README.md, size; the comment on for_each_bucket_rec).                  *)
WalkGuarantee ==
  \A t \in Thread : Walking(t) /\ op(t) = "for_each" =>
    /\ out[t] \subseteq met[t]
    /\ todo[t] = {} => kept[t] \subseteq out[t]
    /\ \A e \in out[t] : \A n \in todo[t] : e.key \notin KeysOf(n)

(* Every call returns: no thread waits for a block for ever, and an sc     *)
(* that fails is somebody's success.                                       *)
CallsReturn == \A t \in Thread : pc[t] # "idle" ~> pc[t] = "idle"

(* Overflow lists are only read inside with_epoch, by a copy as well.      *)
ListsReadInside ==
  \A t \in Thread : pc[t] = "copyll" /\ Overfull(bucket[Source(t)]) => inside[t]

(* The blocks that copy_if_needed sets up are those the array has.         *)
BlockStatusInBounds ==
  \A v \in Version : \A j \in DOMAIN block_status[v] :
    block_status[v][j] # "Uninit" => j < NumBlocks(v)
=============================================================================
