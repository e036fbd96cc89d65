---------------------------- MODULE BucketLinks -----------------------------
(***************************************************************************)
(* The memory of one bucket of parlay_hash.h: the links of its overflow    *)
(* list and, if entries are indirect, the objects they point to.  Calls    *)
(* allocate them with New, share the tails of lists by path copying, and   *)
(* give back with Retire what the bucket has stopped using.  ParlayHash    *)
(* takes lists for values (BucketState); here they are chains of links     *)
(* that may be reused.                                                     *)
(*                                                                         *)
(* What Retire promises is that of Epoch: an object is reused once every   *)
(* call that was inside with_epoch when it was retired has left.  A call   *)
(* that finds the bucket forwarded goes on in another one, not here.       *)
(* A copy is one made inside with_epoch; that the first pass of Remove     *)
(* also copies outside of it is in ParlayHash (ListsReadInside).           *)
(***************************************************************************)
EXTENDS BucketState, FiniteSets, Integers
LOCAL INSTANCE SequencesExt

CONSTANTS Thread, Key, Val,
          Call,       \* the calls that are made: records with op, key and val
          Change,     \* Change[v]: what the function given to Upsert returns for v
          Half,       \* Half[k]: which of two new buckets key k is copied to
          Preload,    \* the keys that were inserted before anything else
          MaxObj,     \* bound: how many objects there are
          MaxCalls    \* bound: how many calls are made

ASSUME ConstantsAssumption ==
  /\ BufferSize \in Nat \ {0} /\ MaxObj \in Nat /\ MaxCalls \in Nat
  /\ Change \in [Val \cup {None} -> Val] /\ Half \in [Key -> 1..2]
  /\ Call \subseteq [op : {"find", "insert", "upsert", "remove", "clear", "copy"},
                     key : Key, val : Val]

Obj == 1..MaxObj
Null == 0

VARIABLES direct,    \* Entry::Direct
          mem,       \* mem[o]: a link, an entry, or free
          guard,     \* guard[o]: the calls that a retired object still waits for
          retired,   \* the objects in the lists of the two pools
          bkt,       \* the bucket: a buffer and the head of a list
          next,      \* the two buckets it is copied to
          pc, call, inside,
          s, tag,    \* what ll returned
          seen,      \* seen[t]: the entries that were then in the list
          new,       \* new[t]: the state that t is about to store
          win, lose, \* what t retires if its sc succeeds, or fails
          made       \* made[op]: how many calls there have been

memory == <<mem, guard, retired>>
local == <<s, tag, seen, new, win, lose>>
vars == <<direct, memory, bkt, next, pc, call, inside, local, made>>

op(t) == call[t].op
key(t) == call[t].key
Goto(t, label) == pc' = [pc EXCEPT ![t] = label]

FreeCell == [kind |-> "free", entry |-> None, next |-> Null]

(* Never used, or retired and waiting for nobody: New may hand it out.     *)
IsFree(o) == mem[o].kind = "free" \/ (o \in retired /\ guard[o] = {})

State(buf, head) == [fwd |-> FALSE, buf |-> buf, head |-> head]
EmptyBucket == State(<<>>, Null)
ForwardedBucket == [EmptyBucket EXCEPT !.fwd = TRUE]

(* The links of a list, from l on: at most n of them.                      *)
RECURSIVE ChainFrom(_, _)
ChainFrom(l, n) ==
  IF l = Null \/ n = 0 \/ mem[l].kind # "link" THEN <<>>
  ELSE <<l>> \o ChainFrom(mem[l].next, n - 1)

Chain(head) == ChainFrom(head, Cardinality(Key))

ListOf(st) == LET c == Chain(st.head) IN [j \in DOMAIN c |-> mem[c[j]].entry]

(* The objects that entries point to; none if they are direct.             *)
DataOf(entries) == {entries[j].obj : j \in DOMAIN entries} \ {Null}

LinksOf(st) == ToSet(Chain(st.head))

(* An entry is what its object holds.                                      *)
Intact(e) == e.obj = Null \/ mem[e.obj] = [kind |-> "data", entry |-> e, next |-> Null]

PlainEntry(e) == [key |-> e.key, val |-> e.val]

(* The state as a value of BucketState.                                    *)
Plain(st) ==
  LET l == ListOf(st) IN
  [fwd  |-> st.fwd,
   buf  |-> [j \in DOMAIN st.buf |-> PlainEntry(st.buf[j])],
   list |-> [j \in DOMAIN l |-> PlainEntry(l[j])]]

-----------------------------------------------------------------------------
(***************************************************************************)
(* Building states.                                                        *)
(***************************************************************************)

(* The free objects, in the order in which New hands them out.             *)
Fresh == SelectSeq([o \in Obj |-> o], IsFree)

(* Memory m after new links for these entries, in front of a tail.         *)
WithLinks(m, ids, entries, tail) ==
  [o \in Obj |-> IF o \in ToSet(ids)
     THEN LET j == SelectInSeq(ids, LAMBDA x : x = o) IN
          [kind |-> "link", entry |-> entries[j],
           next |-> IF j = Len(ids) THEN tail ELSE ids[j + 1]]
     ELSE m[o]]

Entry(t, v, o) == [key |-> key(t), val |-> v, obj |-> o]

WithData(m, e) ==
  IF e.obj = Null THEN m
  ELSE [m EXCEPT ![e.obj] = [kind |-> "data", entry |-> e, next |-> Null]]

InBuf(t) == At(s[t].buf, key(t))
InList(t) == At(ListOf(s[t]), key(t))
Present(t) == InBuf(t) # 0 \/ InList(t) # 0

(* What a call builds: a buffer, and the entries of new links in front of  *)
(* a part of the old list.                                                 *)
Plan(buf, front, tail) == [buf |-> buf, front |-> front, tail |-> tail]

After(l) == mem[l].next

(* Mutant: a link too many is retired.                                     *)
TooManyUnused(t) ==
  LET n == IF InBuf(t) # 0 THEN 1 ELSE InList(t) + 1
  IN {Chain(s[t].head)[j] : j \in 1..n \cap DOMAIN Chain(s[t].head)}

(* Mutant: the link that is left out is forgotten.                         *)
TooFewUnused(t) ==
  LET n == IF InBuf(t) # 0 THEN 1 ELSE InList(t) - 1
  IN {Chain(s[t].head)[j] : j \in 1..n \cap DOMAIN Chain(s[t].head)}

(* The links of the old list that the new state does not use: the one that *)
(* fills the gap in the buffer, or those up to the key.                    *)
Unused(t) ==
  LET n == IF InBuf(t) # 0 THEN 1 ELSE InList(t)
  IN {Chain(s[t].head)[j] : j \in 1..n \cap DOMAIN Chain(s[t].head)}

(* insert_ and Upsert of a key that is not there.                          *)
AddPlan(t, e) ==
  IF Len(s[t].buf) < BufferSize
    THEN Plan(Append(s[t].buf, e), <<>>, Null)
    ELSE Plan(s[t].buf, <<e>>, s[t].head)

(* Upsert of a key that is there: update_list copies the links before it.  *)
UpdatePlan(t, e) ==
  LET p == InList(t) IN
  IF InBuf(t) # 0
    THEN Plan(ReplaceAt(s[t].buf, InBuf(t), e), <<>>, s[t].head)
    ELSE Plan(s[t].buf, Append(SubSeq(ListOf(s[t]), 1, p - 1), e), After(Chain(s[t].head)[p]))

(* Mutant: remove_from_list does not copy the links before the key.        *)
RemoveLosesFront(t) ==
  LET p == InList(t) IN
  IF InBuf(t) = 0
    THEN Plan(s[t].buf, <<>>, After(Chain(s[t].head)[p]))
  ELSE IF s[t].head # Null
    THEN Plan(ReplaceAt(s[t].buf, InBuf(t), Head(ListOf(s[t]))), <<>>, After(s[t].head))
  ELSE Plan(Front(ReplaceAt(s[t].buf, InBuf(t), Last(s[t].buf))), <<>>, Null)

(* Mutant: a gap in the buffer is filled from its end, list or no list.    *)
RemoveIgnoresList(t) ==
  LET p == InList(t) IN
  IF InBuf(t) = 0
    THEN Plan(s[t].buf, SubSeq(ListOf(s[t]), 1, p - 1), After(Chain(s[t].head)[p]))
  ELSE Plan(Front(ReplaceAt(s[t].buf, InBuf(t), Last(s[t].buf))), <<>>, s[t].head)

(* Remove: remove_from_list copies the links before the key; a gap in the  *)
(* buffer is filled from the list, or from the end of the buffer.          *)
RemovePlan(t) ==
  LET p == InList(t) IN
  IF InBuf(t) = 0
    THEN Plan(s[t].buf, SubSeq(ListOf(s[t]), 1, p - 1), After(Chain(s[t].head)[p]))
  ELSE IF s[t].head # Null
    THEN Plan(ReplaceAt(s[t].buf, InBuf(t), Head(ListOf(s[t]))), <<>>, After(s[t].head))
  ELSE Plan(Front(ReplaceAt(s[t].buf, InBuf(t), Last(s[t].buf))), <<>>, Null)
-----------------------------------------------------------------------------
(***************************************************************************)
(* The calls.                                                              *)
(***************************************************************************)

(* The first entries are in the buffer, each later one is before the others. *)
Init ==
  LET n == Len(Preload)
      k == IF n > BufferSize THEN n - BufferSize ELSE 0
      e(j) == [key |-> Preload[j], val |-> CHOOSE v \in Val : TRUE,
               obj |-> IF direct THEN Null ELSE k + j]
      m == [o \in Obj |-> IF direct \/ o \notin (k + 1)..(k + n) THEN FreeCell
                          ELSE [kind |-> "data", entry |-> e(o - k), next |-> Null]]
  IN
  /\ direct \in BOOLEAN
  /\ mem = WithLinks(m, [j \in 1..k |-> j], [j \in 1..k |-> e(n + 1 - j)], Null)
  /\ guard = [o \in Obj |-> {}]
  /\ retired = {}
  /\ bkt = State([j \in 1..(n - k) |-> e(j)], IF k = 0 THEN Null ELSE 1)
  /\ next = [h \in 1..2 |-> EmptyBucket]
  /\ pc = [t \in Thread |-> "idle"]
  /\ call = [t \in Thread |-> None]
  /\ inside = [t \in Thread |-> FALSE]
  /\ s = [t \in Thread |-> EmptyBucket]
  /\ tag = [t \in Thread |-> FALSE]
  /\ seen = [t \in Thread |-> <<>>]
  /\ new = [t \in Thread |-> EmptyBucket]
  /\ win = [t \in Thread |-> {}]
  /\ lose = [t \in Thread |-> {}]
  /\ made = [o \in {c.op : c \in Call} |-> 0]

(* With direct entries Find and Remove start outside with_epoch; clear_bucket *)
(* is outside all the time.  A bucket is copied by one thread (block_status). *)
Invoke(t) ==
  /\ pc[t] = "idle"
  /\ FoldFunction(+, 0, made) < MaxCalls
  /\ \E c \in Call :
       /\ c.op = "copy" => made["copy"] = 0
       /\ call' = [call EXCEPT ![t] = c]
       /\ inside' = [inside EXCEPT ![t] = /\ c.op # "clear"
                                         /\ ~(direct /\ c.op \in {"find", "remove"})]
       /\ made' = [made EXCEPT ![c.op] = @ + 1]
  /\ Goto(t, "ll")
  /\ UNCHANGED <<direct, memory, bkt, next, local>>

LL(t) ==
  /\ pc[t] = "ll"
  /\ s' = [s EXCEPT ![t] = bkt]
  /\ tag' = [tag EXCEPT ![t] = TRUE]
  /\ seen' = [seen EXCEPT ![t] = ListOf(bkt)]
  /\ Goto(t, "build")
  /\ UNCHANGED <<direct, memory, bkt, next, call, inside, new, win, lose, made>>

(* The state answers the call, or the call goes on in another bucket.      *)
Answered(t) ==
  \/ s[t].fwd
  \/ op(t) = "find" /\ (inside[t] \/ InBuf(t) # 0 \/ s[t].head = Null)
  \/ op(t) = "insert" /\ Present(t)
  \/ op(t) = "remove" /\ ~Present(t) /\ (inside[t] \/ s[t].head = Null)

(* Find and the first pass of Remove, outside, have come upon a list.      *)
NeedsEpoch(t) ==
  /\ ~s[t].fwd /\ ~inside[t] /\ s[t].head # Null
  /\ op(t) = "remove" \/ (op(t) = "find" /\ InBuf(t) = 0)

(* Mutant: Find goes on with the list it has seen before with_epoch.       *)
EnterTooLate(t) ==
  /\ pc[t] = "build" /\ NeedsEpoch(t)
  /\ inside' = [inside EXCEPT ![t] = TRUE]
  /\ Goto(t, IF op(t) = "find" THEN "search" ELSE "ll")
  /\ UNCHANGED <<direct, memory, bkt, next, call, local, made>>

Enter(t) ==
  /\ pc[t] = "build" /\ NeedsEpoch(t)
  /\ inside' = [inside EXCEPT ![t] = TRUE]
  /\ Goto(t, IF op(t) = "find" THEN "lv" ELSE "ll")
  /\ UNCHANGED <<direct, memory, bkt, next, call, local, made>>

(* The list that was seen outside is searched if the bucket is unchanged.  *)
LV(t) ==
  /\ pc[t] = "lv"
  /\ Goto(t, IF tag[t] THEN "search" ELSE "ll")
  /\ UNCHANGED <<direct, memory, bkt, next, call, inside, local, made>>

(* insert_, Upsert and Remove: new links, a new entry, a new state.        *)
Build(t) ==
  LET adds == op(t) \in {"insert", "upsert"}
      v == IF op(t) = "insert" THEN call[t].val
           ELSE Change[Lookup(Plain(s[t]), key(t))]
      ids == Fresh
      e == Entry(t, v, IF direct \/ ~adds THEN Null ELSE ids[1])
      plan == IF op(t) = "remove" THEN RemovePlan(t)
              ELSE IF Present(t) THEN UpdatePlan(t, e) ELSE AddPlan(t, e)
      links == SubSeq(ids, 2, Len(plan.front) + 1)
  IN
  /\ pc[t] = "build" /\ ~Answered(t) /\ ~NeedsEpoch(t)
  /\ op(t) \in {"insert", "upsert", "remove"}
  /\ Len(ids) > Len(plan.front)
  /\ mem' = WithLinks(WithData(mem, e), links, plan.front, plan.tail)
  /\ new' = [new EXCEPT ![t] =
       State(plan.buf, IF links = <<>> THEN plan.tail ELSE Head(links))]
  /\ win' = [win EXCEPT ![t] =
       CASE op(t) = "remove" -> Unused(t) \cup
              DataOf(SelectSeq(s[t].buf \o ListOf(s[t]), LAMBDA x : x.key = key(t)))
         [] op(t) = "upsert" /\ Present(t) /\ InBuf(t) = 0 -> Unused(t)
         [] OTHER -> {}]
  /\ lose' = [lose EXCEPT ![t] = ToSet(links) \cup
       (IF op(t) = "upsert" /\ InList(t) # 0 THEN {} ELSE DataOf(<<e>>))]
  /\ retired' = retired \ (ToSet(links) \cup DataOf(<<e>>))
  /\ Goto(t, "sc")
  /\ UNCHANGED <<direct, guard, bkt, next, call, inside, s, tag, seen, made>>

(* clear_bucket stores the empty state and then retires all there was.     *)
BuildClear(t) ==
  /\ pc[t] = "build" /\ ~s[t].fwd /\ op(t) = "clear"
  /\ new' = [new EXCEPT ![t] = EmptyBucket]
  /\ win' = [win EXCEPT ![t] = LinksOf(s[t]) \cup DataOf(s[t].buf \o ListOf(s[t]))]
  /\ lose' = [lose EXCEPT ![t] = {}]
  /\ Goto(t, "sc")
  /\ UNCHANGED <<direct, memory, bkt, next, call, inside, s, tag, seen, made>>

(* copy_bucket: two new buckets, each with new links for the entries that  *)
(* do not fit in its buffer; the links of the old list are retired, the    *)
(* entries are not.                                                        *)
BuildCopy(t) ==
  LET all == s[t].buf \o ListOf(s[t])
      part(h) == SelectSeq(all, LAMBDA e : Half[e.key] = h)
      buf(h) == SubSeq(part(h), 1, IF Len(part(h)) < BufferSize THEN Len(part(h)) ELSE BufferSize)
      list(h) == Reverse(SubSeq(part(h), BufferSize + 1, Len(part(h))))
      ids == Fresh
      one == SubSeq(ids, 1, Len(list(1)))
      two == SubSeq(ids, Len(one) + 1, Len(one) + Len(list(2)))
      head(l) == IF l = <<>> THEN Null ELSE Head(l)
  IN
  /\ pc[t] = "build" /\ ~s[t].fwd /\ op(t) = "copy"
  /\ Len(one \o two) = Len(list(1) \o list(2))
  /\ mem' = WithLinks(WithLinks(mem, one, list(1), Null), two, list(2), Null)
  /\ next' = <<State(buf(1), head(one)), State(buf(2), head(two))>>
  /\ new' = [new EXCEPT ![t] = ForwardedBucket]
  /\ win' = [win EXCEPT ![t] = LinksOf(s[t])]
  /\ lose' = [lose EXCEPT ![t] = ToSet(one \o two)]
  /\ retired' = retired \ ToSet(one \o two)
  /\ Goto(t, "sc")
  /\ UNCHANGED <<direct, guard, bkt, call, inside, s, tag, seen, made>>

SCSucceeds(t) ==
  /\ pc[t] = "sc" /\ tag[t]
  /\ bkt' = new[t]
  /\ tag' = [u \in Thread |-> FALSE]
  /\ lose' = [lose EXCEPT ![t] = {}]
  /\ Goto(t, "won")
  /\ UNCHANGED <<direct, memory, next, call, inside, s, seen, new, win, made>>

(* The copies are emptied; what was built is no use.                       *)
SCFails(t) ==
  /\ pc[t] = "sc" /\ ~tag[t]
  /\ next' = IF op(t) = "copy" THEN [h \in 1..2 |-> EmptyBucket] ELSE next
  /\ win' = [win EXCEPT ![t] = {}]
  /\ Goto(t, "lost")
  /\ UNCHANGED <<direct, memory, bkt, call, inside, s, tag, seen, new, lose, made>>

RetireAll(objs) ==
  /\ retired' = retired \cup objs
  /\ guard' = [o \in Obj |-> IF o \in objs THEN {u \in Thread : inside[u]} ELSE guard[o]]

Won(t) ==
  /\ pc[t] = "won"
  /\ RetireAll(win[t])
  /\ win' = [win EXCEPT ![t] = {}]
  /\ Goto(t, "done")
  /\ UNCHANGED <<direct, mem, bkt, next, call, inside, s, tag, seen, new, lose, made>>

(* Again, inside from now on; clear_bucket does not try again.             *)
Lost(t) ==
  /\ pc[t] = "lost"
  /\ RetireAll(lose[t])
  /\ lose' = [lose EXCEPT ![t] = {}]
  /\ inside' = [inside EXCEPT ![t] = op(t) # "clear"]
  /\ Goto(t, IF op(t) = "clear" THEN "done" ELSE "ll")
  /\ UNCHANGED <<direct, mem, bkt, next, call, s, tag, seen, new, win, made>>

Return(t) ==
  /\ pc[t] \in {"search", "done"} \/ (pc[t] = "build" /\ Answered(t))
  /\ guard' = [o \in Obj |-> guard[o] \ {t}]
  /\ call' = [call EXCEPT ![t] = None]
  /\ inside' = [inside EXCEPT ![t] = FALSE]
  /\ s' = [s EXCEPT ![t] = EmptyBucket]
  /\ tag' = [tag EXCEPT ![t] = FALSE]
  /\ seen' = [seen EXCEPT ![t] = <<>>]
  /\ new' = [new EXCEPT ![t] = EmptyBucket]
  /\ Goto(t, "idle")
  /\ UNCHANGED <<direct, mem, retired, bkt, next, win, lose, made>>

(* All the calls that the bound allows have been made and have returned.   *)
Finished ==
  /\ FoldFunction(+, 0, made) = MaxCalls
  /\ \A t \in Thread : pc[t] = "idle"
  /\ UNCHANGED vars

Next ==
  \/ Finished
  \/ \E t \in Thread :
       \/ Invoke(t) \/ LL(t) \/ Enter(t) \/ LV(t)
       \/ Build(t) \/ BuildClear(t) \/ BuildCopy(t)
       \/ SCSucceeds(t) \/ SCFails(t) \/ Won(t) \/ Lost(t) \/ Return(t)

Spec == Init /\ [][Next]_vars

-----------------------------------------------------------------------------
(* Every variable has its type, and there is a list only behind a full     *)
(* buffer (struct state, buffer_cnt).                                      *)
TypeOK ==
  /\ direct \in BOOLEAN /\ retired \subseteq Obj /\ guard \in [Obj -> SUBSET Thread]
  /\ \A o \in Obj : mem[o].kind \in {"free", "link", "data"} /\ mem[o].next \in 0..MaxObj
  /\ \A st \in {bkt, next[1], next[2]} \cup {s[t] : t \in Thread} :
       /\ Len(st.buf) <= BufferSize
       /\ st.head # Null => Len(st.buf) = BufferSize

(* The objects that readers of the table can get to.                       *)
Buckets == IF bkt.fwd THEN {next[1], next[2]} ELSE {bkt}
Used(st) == LinksOf(st) \cup DataOf(st.buf \o ListOf(st))
Reachable == UNION {Used(st) : st \in Buckets}

(* What a call has allocated, or is about to retire.                       *)
Held(t) ==
  win[t] \cup lose[t] \cup
  (IF pc[t] = "sc" THEN Used(new[t]) \cup (IF new[t].fwd THEN Used(next[1]) \cup Used(next[2]) ELSE {})
   ELSE {})

(* No link and no entry of the bucket is retired, nobody has set out to    *)
(* retire it once its sc has succeeded, and no object is retired twice: what *)
(* retire_list_n counts are the links that the new list does not share.    *)
RetiredIsUnused ==
  /\ Reachable \cap retired = {}
  /\ \A t \in Thread :
       /\ pc[t] = "won" => win[t] \cap Reachable = {}
       /\ lose[t] \cap Reachable = {}
       /\ pc[t] = "won" => win[t] \cap retired = {}
       /\ lose[t] \cap retired = {}
  /\ \A t, u \in Thread : t # u /\ pc[t] = "won" /\ pc[u] = "won" => win[t] \cap win[u] = {}

(* No object is lost: it is in the bucket, in the hands of a call, retired *)
(* or free.  Entries are the exception once there was an Upsert, which     *)
(* neither retires the entry it replaces nor, if its sc fails on a list,   *)
(* the one it has made.                                                    *)
NothingLost ==
  \A o \in Obj :
    \/ mem[o].kind = "free" \/ o \in retired \/ o \in Reachable
    \/ \E t \in Thread : o \in Held(t)
    \/ mem[o].kind = "data" /\ "upsert" \in DOMAIN made /\ made["upsert"] > 0

(* What a call reads is still there and unchanged: the list and the entries *)
(* it got from its ll, for as long as it follows them (with_epoch in Find, *)
(* insert_, Upsert, Remove and copy_bucket; clear_bucket, outside, only    *)
(* goes through what it has taken out of the bucket itself).               *)
Follows(t) ==
  \/ inside[t] /\ pc[t] \in {"build", "sc", "won", "search"}
  \/ op(t) = "clear" /\ pc[t] = "won"

ReadsAreSafe ==
  \A t \in Thread : pc[t] # "idle" /\ Follows(t) =>
    /\ ListOf(s[t]) = seen[t]
    /\ \A o \in Used(s[t]) : ~IsFree(o)
    /\ \A e \in ToSet(s[t].buf \o seen[t]) : Intact(e)

(* Chains of links behave as the lists of BucketState: an sc changes the   *)
(* bucket as the operation on values says, a copy splits it, and nothing   *)
(* else, least of all the reuse of memory, changes what it holds.          *)
Stores(t) == pc[t] = "sc" /\ pc'[t] = "won"

NewValue(t) ==
  LET old == Plain(bkt) IN
  CASE op(t) = "insert" -> AddEntry(old, [key |-> key(t), val |-> call[t].val])
    [] op(t) = "upsert" ->
         LET e == [key |-> key(t), val |-> Change[Lookup(old, key(t))]] IN
         IF Has(old, key(t)) THEN ReplaceEntry(old, e) ELSE AddEntry(old, e)
    [] op(t) = "remove" -> RemoveKey(old, key(t))
    [] op(t) = "clear"  -> Empty
    [] op(t) = "copy"   -> Forwarded

LinksAreLists ==
  [][/\ Plain(bkt)' = IF \E t \in Thread : Stores(t)
                        THEN NewValue(CHOOSE t \in Thread : Stores(t)) ELSE Plain(bkt)
     /\ \A t \in Thread : Stores(t) /\ op(t) = "copy" =>
          \A h \in 1..2 : Plain(next[h])' = Split(Plain(bkt), {k \in Key : Half[k] = h})
     /\ bkt.fwd => \A h \in 1..2 : Plain(next[h])' = Plain(next[h])]_vars
=============================================================================
