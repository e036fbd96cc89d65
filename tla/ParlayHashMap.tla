--------------------------- MODULE ParlayHashMap ----------------------------
(***************************************************************************)
(* The table as a map: a key has one bucket, and every step is a step of   *)
(* UnorderedMap or one that it does not see.                               *)
(***************************************************************************)
EXTENDS ParlayHashLemmas

(* A key has one bucket that is neither forwarded nor out of reach.        *)
LEMMA OwnerOf ==
  ASSUME Inv, NEW k \in Key
  PROVE  /\ Owner(k) \in Node /\ Live(Owner(k)) /\ bucket[Owner(k)] \in State
         /\ bucket[Owner(k)] # Forwarded /\ k \in KeysOf(Owner(k))
         /\ \A n \in Node : k \in KeysOf(n) /\ Live(n) /\ bucket[n] # Forwarded => n = Owner(k)
<1> Types /\ Shape /\ Blocks /\ Copiers /\ Counts /\ Positions
  BY Zenon DEF Inv
<1> DEFINE h == Home(current, k)
           g == Home(current + 1, k)
<1>1. current \in Version /\ current \in Nat /\ Types /\ Shape /\ Blocks
  BY TypeFacts, Zenon
<1>2. h \in Node /\ h[1] = current /\ (current < MaxVersion => Parent(g) = h)
  BY <1>1, HomeOf, Zenon
<1>3. bucket[h] # None
  BY <1>1, <1>2 DEF Shape
<1>4. bucket[h] = Forwarded =>
        /\ current < MaxVersion /\ current + 1 \in Version
        /\ g \in Node /\ g[1] = current + 1 /\ g \in Children(h)
  <2>1. SUFFICES ASSUME bucket[h] = Forwarded
                 PROVE  /\ current < MaxVersion /\ current + 1 \in Version
                        /\ g \in Node /\ g[1] = current + 1 /\ g \in Children(h)
    BY Zenon
  <2>2. current < MaxVersion
    BY <1>1, <1>2, <2>1, MarkerLeadsOn, Zenon
  <2>3. current + 1 \in Version /\ current + 1 > 1
    BY <1>1, <2>2, Constants
  <2>4. g \in Node /\ g[1] = current + 1
    BY <2>3, HomeOf, Zenon
  <2>5. g \in Children(h)
    BY <1>2, <2>2, <2>3, <2>4, FamilyOf
  <2> QED BY <2>2, <2>3, <2>4, <2>5, Zenon
<1>5. Owner(k) = IF bucket[h] = Forwarded THEN g ELSE h
  BY Zenon DEF Owner
<1>6. Owner(k) \in Node /\ Live(Owner(k)) /\ bucket[Owner(k)] # Forwarded /\ k \in KeysOf(Owner(k))
  <2>1. CASE bucket[h] = Forwarded
    <3>1. Live(g) /\ g \in Node /\ g[1] = current + 1
      BY <1>1, <1>2, <1>4, <2>1, ChildrenLive, Zenon
    <3>2. bucket[g] # Forwarded
      BY <1>1, <3>1 DEF Shape
    <3>3. k \in KeysOf(g)
      BY <3>1, Zenon DEF KeysOf
    <3> QED BY <1>5, <2>1, <3>1, <3>2, <3>3
  <2>2. CASE bucket[h] # Forwarded
    <3>1. Live(h)
      BY <1>1, <1>2, <1>3 DEF Live
    <3>2. k \in KeysOf(h)
      BY <1>2, Zenon DEF KeysOf
    <3> QED BY <1>2, <1>5, <2>2, <3>1, <3>2, Zenon
  <2> QED BY <2>1, <2>2, Zenon
<1>7. bucket[Owner(k)] \in State
  BY <1>1, <1>6, Zenon DEF Live, Types
<1>8. ASSUME NEW n \in Node, k \in KeysOf(n), Live(n), bucket[n] # Forwarded
      PROVE  n = Owner(k)
  <2>1. n = Home(n[1], k) /\ n[1] \in Nat
    BY <1>8, NodeOf, Constants, Zenon DEF KeysOf
  <2>2. CASE n[1] <= current
    <3>1. n[1] = current
      BY <1>1, <1>8, <2>1, <2>2 DEF Shape
    <3> QED BY <1>5, <1>8, <2>1, <3>1, Zenon
  <2>3. CASE n[1] = current + 1 /\ bucket[Parent(n)] = Forwarded
    <3>1. n = g /\ current + 1 \in Version
      BY <2>1, <2>3, NodeOf, Zenon
    <3>2. current < MaxVersion
      BY <1>1, <3>1, Constants
    <3> QED BY <1>2, <1>5, <2>3, <3>1, <3>2, Zenon
  <2> QED BY <1>8, <2>2, <2>3, Zenon DEF Live
<1> QED BY <1>6, <1>7, <1>8, Zenon

(* IsLive is said of buckets alone.                                        *)
LEMMA LiveIs ==
  ASSUME Inv, NEW n \in Node
  PROVE  IsLive(bucket, n) <=> Live(n) /\ bucket[n] # Forwarded
<1> Types /\ Shape /\ Blocks /\ Copiers /\ Counts /\ Positions
  BY Zenon DEF Inv
<1>1. current \in Nat /\ Shape /\ n[1] \in Nat /\ n[1] >= 1 /\ current >= 1
  BY TypeFacts, NodeOf, Constants
<1>2. n[1] > 1 => Parent(n) \in Node /\ Parent(n)[1] = n[1] - 1
  BY FamilyOf, Zenon
<1>3. ASSUME Live(n), bucket[n] # Forwarded PROVE IsLive(bucket, n)
  <2>1. n[1] > 1 => bucket[Parent(n)] = Forwarded
    BY <1>1, <1>2, <1>3 DEF Live, Shape
  <2> QED BY <1>1, <1>3, <2>1 DEF IsLive, Reachable, Live
<1>4. ASSUME IsLive(bucket, n) PROVE Live(n) /\ bucket[n] # Forwarded
  <2>1. bucket[n] # None /\ bucket[n] # Forwarded /\ (n[1] > 1 => bucket[Parent(n)] = Forwarded)
    BY <1>1, <1>4 DEF IsLive, Reachable
  <2>2. n[1] > 1 => n[1] - 1 <= current
    BY <1>1, <1>2, <2>1 DEF Shape
  <2> QED BY <1>1, <2>1, <2>2 DEF Live
<1> QED BY <1>3, <1>4, Zenon

(* What the map holds for k is what its bucket holds.                      *)
LEMMA ValueFact ==
  StateFacts /\ Full => \A k \in Key :
    Value(k) = Lookup(bucket[Owner(k)], k) /\ Value(k) \in Val \cup {None}
<1>1. SUFFICES ASSUME StateFacts, Full, NEW k \in Key
               PROVE  Value(k) = Lookup(bucket[Owner(k)], k) /\ Value(k) \in Val \cup {None}
  BY Zenon
<1> Inv /\ RightBucket /\ Fresh /\ Types /\ Shape /\ Blocks /\ Copiers /\ Counts /\ Positions
  BY <1>1, Zenon DEF Full, Inv
<1> DEFINE o == Owner(k)
           at == {Home(v, k) : v \in Version}
           live == {m \in at : IsLive(bucket, m)}
           E == EntrySet(bucket[o])
           found == {e \in UNION {EntrySet(bucket[n]) : n \in live} : e.key = k}
<1>2. /\ o \in Node /\ Live(o) /\ bucket[o] \in State /\ bucket[o] # Forwarded /\ k \in KeysOf(o)
      /\ \A n \in Node : k \in KeysOf(n) /\ Live(n) /\ bucket[n] # Forwarded => n = o
  BY <1>1, OwnerOf, Zenon
<1>3. live = {o}
  <2>1. ASSUME NEW m \in live PROVE m = o
    <3>1. PICK v \in Version : m = Home(v, k)
      BY Zenon
    <3>2. m \in Node /\ m[1] = v
      BY <3>1, HomeOf, Zenon
    <3>3. k \in KeysOf(m)
      BY <3>1, <3>2, Zenon DEF KeysOf
    <3> QED BY <1>1, <1>2, <2>1, <3>2, <3>3, LiveIs, Zenon
  <2>2. o \in at
    BY <1>2, NodeOf, Zenon DEF KeysOf
  <2>3. IsLive(bucket, o)
    BY <1>1, <1>2, LiveIs, Zenon
  <2> QED BY <2>1, <2>2, <2>3, Zenon
<1>4. found = {e \in E : e.key = k}
  <2> HIDE DEF live, E
  <2>1. UNION {EntrySet(bucket[n]) : n \in {o}} = E
    BY Zenon DEF E
  <2> QED BY <1>3, <2>1, Zenon
<1>5. Value(k) = IF found = {} THEN None ELSE (CHOOSE e \in found : TRUE).val
  BY Zenon DEF Value
<1> HIDE DEF o, found, E, live, at
<1>6. /\ ~Has(bucket[o], k) => Lookup(bucket[o], k) = None
      /\ Distinct(bucket[o]) => \A e \in E : e.key = k => Lookup(bucket[o], k) = e.val
      /\ Has(bucket[o], k) <=> found # {}
      /\ E \subseteq Item
  BY <1>1, <1>2, <1>4 DEF StateFacts, EntryFacts, E, Has
<1>7. Distinct(bucket[o])
  BY <1>1, <1>2, Zenon DEF RightBucket, Live
<1>8. CASE found = {}
  BY <1>5, <1>6, <1>8, Zenon DEF o
<1>9. CASE found # {}
  <2>1. (CHOOSE e \in found : TRUE) \in found
    BY <1>9, Zenon
  <2>2. PICK e \in found : e = CHOOSE x \in found : TRUE
    BY <2>1, Zenon
  <2>3. Value(k) = e.val /\ e \in E /\ e.key = k
    BY <1>4, <1>5, <1>9, <2>2, Zenon
  <2>4. e.val \in Val
    BY <1>6, <2>3, Zenon DEF Item
  <2> QED BY <1>6, <1>7, <2>3, <2>4, Zenon DEF o
<1> QED BY <1>8, <1>9, Zenon

(* The same in the next state.                                             *)
LEMMA ValueFactNext ==
  (StateFacts /\ Full => \A k \in Key :
    Value(k) = Lookup(bucket[Owner(k)], k) /\ Value(k) \in Val \cup {None})'
BY ValueFact, PTL

-----------------------------------------------------------------------------
(***************************************************************************)
(* The contents of the buckets.                                            *)
(***************************************************************************)
Holds(n, x) == Distinct(x) /\ \A e \in EntrySet(x) : e.key \in KeysOf(n)

(* Steps that write no bucket leave the entries where they are.            *)
LEMMA ContentsStay ==
  ASSUME RightBucket, Fresh, UNCHANGED <<bucket, ctag>>,
         \A u \in Thread : pc'[u] = "copysc" => pc[u] = "copysc" /\ ht'[u] = ht[u] /\ i'[u] = i[u]
  PROVE  RightBucket' /\ Fresh'
<1>1. RightBucket'
  BY Zenon DEF RightBucket
<1>2. \A u \in Thread : pc'[u] = "copysc" => Source(u)' = Source(u)
  BY Zenon DEF Source
<1>3. ASSUME NEW u \in Thread, pc'[u] = "copysc", ctag'[u], NEW m \in Children(Source(u)')
      PROVE  EntrySet(bucket'[m]) = {e \in EntrySet(bucket'[Source(u)']) : e.key \in KeysOf(m)}
  BY <1>2, <1>3 DEF Fresh
<1>4. Fresh'
  BY <1>3, Zenon DEF Fresh
<1> QED BY <1>1, <1>4, Zenon

(* A successful sc on a bucket that can be reached.                        *)
LEMMA ContentsWritten ==
  ASSUME Inv, RightBucket, Fresh, NEW n \in Node, Live(n), NEW new, Written(n, new),
         Holds(n, new), UNCHANGED <<current, ht>>,
         \A u \in Thread : pc'[u] = "copysc" => pc[u] = "copysc" /\ i'[u] = i[u]
  PROVE  RightBucket' /\ Fresh'
<1> Types /\ Shape /\ Blocks /\ Copiers /\ Counts /\ Positions
  BY Zenon DEF Inv
<1>1. /\ bucket' = [bucket EXCEPT ![n] = new]
      /\ ctag' = [u \in Thread |-> ctag[u] /\ Source(u) # n]
  BY Zenon DEF Written
<1>2. bucket'[n] = new /\ \A m \in Node \ {n} : bucket'[m] = bucket[m]
  BY <1>1, Zenon DEF Types
<1>3. RightBucket'
  BY <1>2, Zenon DEF RightBucket, Holds
<1>4. ASSUME NEW u \in Thread, pc'[u] = "copysc", ctag'[u], NEW m \in Children(Source(u)')
      PROVE  EntrySet(bucket'[m]) = {e \in EntrySet(bucket'[Source(u)']) : e.key \in KeysOf(m)}
  <2>1. Source(u)' = Source(u) /\ pc[u] = "copysc" /\ ctag[u] /\ Source(u) # n
    BY <1>1, <1>4, Zenon DEF Source
  <2>2. Source(u) \in Node /\ m \in Node /\ m # n
    BY <1>4, <2>1, CopierOf, Zenon
  <2>3. bucket'[Source(u)] = bucket[Source(u)] /\ bucket'[m] = bucket[m]
    BY <1>2, <2>1, <2>2, Zenon
  <2> QED BY <1>4, <2>1, <2>3, Zenon DEF Fresh
<1>5. Fresh'
  BY <1>4, Zenon DEF Fresh
<1> QED BY <1>3, <1>5, Zenon

(* Two copiers write different buckets.                                    *)
LEMMA CopiersApart ==
  ASSUME Inv, NEW t \in Thread, NEW u \in Thread, t # u,
         pc[t] \in {"copyll", "copysc"}, pc[u] \in {"copyll", "copysc"}
  PROVE  /\ Source(t) # Source(u) /\ Source(u) \notin Children(Source(t))
         /\ \A m \in Children(Source(u)) : m \notin Children(Source(t))
<1> Types /\ Shape /\ Blocks /\ Copiers /\ Counts /\ Positions
  BY Zenon DEF Inv
<1>1. /\ Source(t) = <<current, i[t]>> /\ Source(u) = <<current, i[u]>> /\ current \in Nat
      /\ \A m \in Children(Source(t)) : Parent(m) = Source(t) /\ m[1] = current + 1
      /\ \A m \in Children(Source(u)) : Parent(m) = Source(u)
  BY CopierOf, Zenon
<1>2. i[t] # i[u]
  <2>1. Copies(t) /\ Copies(u) /\ Spot(t) = i[t] /\ Spot(u) = i[u]
    BY Zenon DEF Copies, Spot
  <2> QED BY <2>1, Zenon DEF Copiers
<1>3. Source(t) # Source(u)
  BY <1>1, <1>2
<1>4. Source(u)[1] = current /\ current # current + 1
  BY <1>1
<1> QED BY <1>1, <1>3, <1>4, Zenon

(* The buckets that t copies to are written.                               *)
LEMMA ContentsCopied ==
  ASSUME Inv, RightBucket, Fresh, NEW t \in Thread, pc[t] \in {"copyll", "copysc"},
         \A n \in Node : IF n \in Children(Source(t)) THEN Holds(n, bucket'[n])
                                                      ELSE bucket'[n] = bucket[n],
         UNCHANGED <<ht, i>>,
         \A u \in Thread \ {t} : pc'[u] = pc[u] /\ ctag'[u] = ctag[u],
         pc'[t] = "copysc" /\ ctag'[t] => \A m \in Children(Source(t)) :
           EntrySet(bucket'[m]) = {e \in EntrySet(bucket[Source(t)]) : e.key \in KeysOf(m)}
  PROVE  RightBucket' /\ Fresh'
<1>1. RightBucket'
  BY Zenon DEF RightBucket, Holds
<1>2. /\ Source(t) \in Node /\ Source(t) \notin Children(Source(t))
  <2>1. /\ Source(t) = <<current, i[t]>> /\ Source(t) \in Node /\ current \in Nat
        /\ \A m \in Children(Source(t)) : m[1] = current + 1
    BY CopierOf, Zenon
  <2>2. Source(t)[1] = current /\ current # current + 1
    BY <2>1
  <2> QED BY <2>1, <2>2, Zenon
<1>3. bucket'[Source(t)] = bucket[Source(t)]
  BY <1>2, Zenon
<1>4. \A u \in Thread : Source(u)' = Source(u)
  BY Zenon DEF Source
<1>5. ASSUME NEW u \in Thread, pc'[u] = "copysc", ctag'[u], NEW m \in Children(Source(u)')
      PROVE  EntrySet(bucket'[m]) = {e \in EntrySet(bucket'[Source(u)']) : e.key \in KeysOf(m)}
  <2>1. CASE u = t
    BY <1>3, <1>4, <1>5, <2>1, Zenon
  <2>2. CASE u # t
    <3>1. pc[u] = "copysc" /\ ctag[u] /\ m \in Children(Source(u))
      BY <1>4, <1>5, <2>2, Zenon
    <3>2. Source(u) \in Node /\ m \in Node
      BY <3>1, CopierOf, Zenon
    <3>3. Source(u) \notin Children(Source(t)) /\ m \notin Children(Source(t))
      BY <2>2, <3>1, CopiersApart, Zenon
    <3>4. bucket'[Source(u)] = bucket[Source(u)] /\ bucket'[m] = bucket[m]
      BY <3>2, <3>3, Zenon
    <3> QED BY <1>4, <3>1, <3>4 DEF Fresh
  <2> QED BY <2>1, <2>2, Zenon
<1>6. Fresh'
  BY <1>5, Zenon DEF Fresh
<1> QED BY <1>1, <1>6, Zenon

(* copy_bucket gives the copies the entries of their keys.                 *)
LEMMA CopyLLContents ==
  ASSUME StateFacts, Full, NEW t \in Thread, CopyLL(t)
  PROVE  RightBucket' /\ Fresh'
<1> Inv /\ RightBucket /\ Fresh /\ Types /\ Shape /\ Blocks /\ Copiers /\ Counts /\ Positions
  BY Zenon DEF Full, Inv
<1>1. /\ pc[t] = "copyll" /\ ctag' = [ctag EXCEPT ![t] = TRUE]
      /\ bucket' = [n \in Node |-> IF n \in Children(Source(t))
                                     THEN Split(bucket[Source(t)], Share(n)) ELSE bucket[n]]
      /\ pc' = [pc EXCEPT ![t] = "copysc"]
      /\ UNCHANGED <<ht, i>>
  BY Zenon DEF CopyLL, Goto, target
<1> DEFINE src == Source(t)
           x == bucket[src]
<1>2. /\ src \in Node /\ x \in State /\ x # None /\ src[1] < MaxVersion
      /\ \A m \in Children(src) : m \in Node
  <2>1. /\ src = <<current, i[t]>> /\ src \in Node /\ x \in State /\ x # None /\ current < MaxVersion
        /\ \A m \in Children(src) : m \in Node
    BY <1>1, CopierOf, Zenon
  <2> QED BY <2>1
<1>3. Distinct(x) /\ \A e \in EntrySet(x) : e.key \in KeysOf(src)
  BY <1>2, Zenon DEF RightBucket
<1> HIDE DEF x, src
<1>4. ASSUME NEW m \in Children(src)
      PROVE  /\ Holds(m, Split(x, Share(m)))
             /\ EntrySet(Split(x, Share(m))) = {e \in EntrySet(x) : e.key \in KeysOf(m)}
  <2>1. Share(m) \in SUBSET Key
    BY Zenon DEF Share
  <2>2. /\ EntrySet(Split(x, Share(m))) = {e \in EntrySet(x) : e.key \in Share(m)}
        /\ Distinct(Split(x, Share(m)))
    BY <1>2, <1>3, <2>1, Zenon DEF StateFacts, SplitFacts
  <2>3. \A k \in KeysOf(src) : k \in Share(m) <=> k \in KeysOf(m)
    BY <1>2, ShareOf, Zenon
  <2> QED BY <1>3, <2>2, <2>3, Zenon DEF Holds
<1>5. \A n \in Node : bucket'[n] = IF n \in Children(src) THEN Split(x, Share(n)) ELSE bucket[n]
  BY <1>1, Zenon DEF src, x
<1>6. /\ \A n \in Node : IF n \in Children(src) THEN Holds(n, bucket'[n]) ELSE bucket'[n] = bucket[n]
      /\ \A m \in Children(src) :
           EntrySet(bucket'[m]) = {e \in EntrySet(x) : e.key \in KeysOf(m)}
  BY <1>2, <1>4, <1>5, Zenon
<1>7. \A u \in Thread \ {t} : pc'[u] = pc[u] /\ ctag'[u] = ctag[u]
  BY <1>1, Zenon DEF Types
<1> QED BY <1>1, <1>6, <1>7, ContentsCopied, Zenon DEF src, x

(* A copy that fails leaves the entries where they are.                    *)
LEMMA CopySCFailsContents ==
  ASSUME Full, NEW t \in Thread, CopySCFails(t)
  PROVE  RightBucket' /\ Fresh'
<1> Inv /\ RightBucket /\ Fresh /\ Types /\ Shape /\ Blocks /\ Copiers /\ Counts /\ Positions
  BY Zenon DEF Full, Inv
<1>1. /\ pc[t] = "copysc"
      /\ bucket' = [n \in Node |-> IF n \in Children(Source(t)) THEN Empty ELSE bucket[n]]
      /\ pc' = [pc EXCEPT ![t] = "copyll"]
      /\ UNCHANGED <<ht, i, ctag>>
  BY Zenon DEF CopySCFails, Goto, target, copying
<1>2. \A n : Holds(n, Empty)
  BY NoEntriesState, Zenon DEF Holds
<1>3. \A n \in Node : IF n \in Children(Source(t)) THEN Holds(n, bucket'[n]) ELSE bucket'[n] = bucket[n]
  BY <1>1, <1>2, Zenon
<1>4. pc'[t] = "copyll" /\ \A u \in Thread \ {t} : pc'[u] = pc[u] /\ ctag'[u] = ctag[u]
  BY <1>1, Zenon DEF Types
<1> QED BY <1>1, <1>3, <1>4, ContentsCopied, Zenon

(* The bucket that a successful sc of an update changes.                   *)
LEMMA UpdateOf ==
  ASSUME StateFacts, Full, UpsertsMeetNoMarker, NEW t \in Thread, SCSucceeds(t)
  PROVE  /\ pc[t] \in {"check", "expanded"} /\ ~s[t].fwd /\ op(t) \in Updates /\ key(t) \in Key
         /\ b[t] \in Node /\ Live(b[t]) /\ s[t] = bucket[b[t]] /\ bucket[b[t]] # Forwarded
         /\ s[t] \in State /\ key(t) \in KeysOf(b[t])
         /\ IsState(NewState(t)) /\ ~NewState(t).fwd
         /\ Holds(b[t], NewState(t))
         /\ Distinct(s[t]) /\ Distinct(NewState(t))
         /\ EntrySet(NewState(t)) = {x \in EntrySet(s[t]) : x.key # key(t)} \cup NewEntries(t)
         /\ op(t) = "insert" => ~Has(s[t], key(t))
         /\ op(t) = "remove" => Has(s[t], key(t))
<1> Inv /\ RightBucket /\ Fresh /\ Types /\ Shape /\ Blocks /\ Copiers /\ Counts /\ Positions
  BY Zenon DEF Full, Inv
<1>1. /\ Ready(t) /\ ~Answered(t) /\ op(t) \in Updates /\ (inside[t] \/ ~Overfull(s[t])) /\ tag[t]
  BY Zenon DEF SCSucceeds
<1>2. pc[t] \in {"check", "expanded"} /\ ~s[t].fwd
  BY <1>1, Zenon DEF Ready
<1>3. /\ b[t] \in Node /\ bucket[b[t]] # None /\ op(t) \notin Walks /\ key(t) \in Key
      /\ bucket[b[t]] \in State
  BY <1>2, InCall, Zenon DEF WalkLabels
<1>4. /\ s[t] = bucket[b[t]] /\ Live(b[t]) /\ b[t] = Home(b[t][1], key(t))
  <2>1. Position(t)
    BY Zenon DEF Positions
  <2>2. s[t] = bucket[b[t]]
    BY <1>1, <1>2, <2>1, Zenon DEF Position
  <2>3. b[t] = Home(b[t][1], key(t))
    BY <1>2, <1>3, <2>1, Zenon DEF Position
  <2>4. b[t] # None
    BY <1>3, Constants, Zenon
  <2>5. Live(b[t])
    BY <2>1, <2>4, Zenon DEF Position
  <2> QED BY <2>2, <2>3, <2>5, Zenon
<1>5. bucket[b[t]] # Forwarded /\ key(t) \in KeysOf(b[t])
  BY <1>2, <1>3, <1>4, NoEntriesState, Zenon DEF KeysOf
<1>6. Distinct(s[t]) /\ \A e \in EntrySet(s[t]) : e.key \in KeysOf(b[t])
  BY <1>3, <1>4, Zenon DEF RightBucket
<1>7. /\ IsState(NewState(t)) /\ ~NewState(t).fwd
      /\ Distinct(NewState(t))
      /\ EntrySet(NewState(t)) = {x \in EntrySet(s[t]) : x.key # key(t)} \cup NewEntries(t)
      /\ op(t) = "insert" => ~Has(s[t], key(t))
      /\ op(t) = "remove" => Has(s[t], key(t))
  BY <1>1, <1>6, NewStateOf, Zenon
<1>8. \A e \in NewEntries(t) : e.key = key(t)
  BY <1>1 DEF NewEntries, Updates
<1>9. Holds(b[t], NewState(t))
  BY <1>5, <1>6, <1>7, <1>8, Zenon DEF Holds
<1> QED BY <1>1, <1>2, <1>3, <1>4, <1>5, <1>6, <1>7, <1>9, Zenon

(* An update stores entries of its bucket's keys, each once.               *)
LEMMA SCSucceedsContents ==
  ASSUME StateFacts, Full, UpsertsMeetNoMarker, NEW t \in Thread, SCSucceeds(t)
  PROVE  RightBucket' /\ Fresh'
<1> Inv /\ RightBucket /\ Fresh /\ Types /\ Shape /\ Blocks /\ Copiers /\ Counts /\ Positions
  BY Zenon DEF Full, Inv
<1>1. /\ Written(b[t], NewState(t)) /\ pc' = [pc EXCEPT ![t] = "return"]
      /\ UNCHANGED <<current, ht, i>>
  BY Zenon DEF SCSucceeds, Goto
<1>2. b[t] \in Node /\ Live(b[t]) /\ Holds(b[t], NewState(t))
  BY UpdateOf, Zenon
<1>3. \A u \in Thread : pc'[u] = "copysc" => pc[u] = "copysc" /\ i'[u] = i[u]
  BY <1>1, Zenon DEF Types
<1> QED BY <1>1, <1>2, <1>3, ContentsWritten, Zenon

(* The bucket that clear_bucket empties.                                   *)
LEMMA ClearOf ==
  ASSUME Full, NEW t \in Thread, ClearSC(t), tag[t]
  PROVE  /\ pc[t] = "clearsc" /\ op(t) = "clear" /\ b[t] \in Node /\ Live(b[t])
         /\ bucket[b[t]] # Forwarded /\ Written(b[t], Empty)
<1> Inv /\ RightBucket /\ Fresh /\ Types /\ Shape /\ Blocks /\ Copiers /\ Counts /\ Positions
  BY Zenon DEF Full, Inv
<1>1. pc[t] = "clearsc" /\ Written(b[t], NewState(t))
  BY Zenon DEF ClearSC
<1>2. /\ Position(t) /\ b[t] \in Node
  BY <1>1, InCall, Zenon DEF Positions
<1>3. /\ op(t) = "clear" /\ bucket[b[t]] # Forwarded /\ b[t] # None
  BY <1>1, <1>2, Zenon DEF Position
<1>4. Live(b[t])
  BY <1>2, <1>3, Zenon DEF Position
<1>5. NewState(t) = Empty
  BY <1>3, Zenon DEF NewState
<1> QED BY <1>1, <1>2, <1>3, <1>4, <1>5, Zenon

(* An empty bucket has no wrong entries.                                   *)
LEMMA ClearSCContents ==
  ASSUME Full, NEW t \in Thread, ClearSC(t)
  PROVE  RightBucket' /\ Fresh'
<1> Inv /\ RightBucket /\ Fresh /\ Types /\ Shape /\ Blocks /\ Copiers /\ Counts /\ Positions
  BY Zenon DEF Full, Inv
<1>1. /\ pc' = [pc EXCEPT ![t] = "visit"]
      /\ UNCHANGED <<current, ht, i>> /\ (tag[t] \/ UNCHANGED <<bucket, ctag>>)
  BY Zenon DEF ClearSC, Goto
<1>2. \A u \in Thread : pc'[u] = "copysc" => pc[u] = "copysc" /\ i'[u] = i[u] /\ ht'[u] = ht[u]
  BY <1>1, Zenon DEF Types
<1>3. CASE tag[t]
  <2>1. b[t] \in Node /\ Live(b[t]) /\ Written(b[t], Empty) /\ Holds(b[t], Empty)
    BY <1>3, ClearOf, NoEntriesState, Zenon DEF Holds
  <2> QED BY <1>1, <1>2, <2>1, ContentsWritten, Zenon
<1>4. CASE UNCHANGED <<bucket, ctag>>
  BY <1>2, <1>4, ContentsStay, Zenon
<1> QED BY <1>1, <1>3, <1>4, Zenon

(* Neither has a marker.                                                   *)
LEMMA CopySCSucceedsContents ==
  ASSUME Full, NEW t \in Thread, CopySCSucceeds(t)
  PROVE  RightBucket' /\ Fresh'
<1> Inv /\ RightBucket /\ Fresh /\ Types /\ Shape /\ Blocks /\ Copiers /\ Counts /\ Positions
  BY Zenon DEF Full, Inv
<1>1. /\ pc[t] = "copysc" /\ Written(Source(t), Forwarded)
      /\ i' = [i EXCEPT ![t] = @ + 1]
      /\ pc' = [pc EXCEPT ![t] = IF (i[t] + 1) % BlockSize[ht[t]] = 0 THEN "copied" ELSE "copyll"]
      /\ UNCHANGED <<current, ht>>
  BY Zenon DEF CopySCSucceeds, Goto
<1>2. /\ Source(t) \in Node /\ Source(t) = <<current, i[t]>> /\ bucket[Source(t)] # None
      /\ current \in Nat
  BY <1>1, CopierOf, Zenon
<1>3. Live(Source(t)) /\ Holds(Source(t), Forwarded)
  <2>1. Source(t)[1] = current
    BY <1>2
  <2> QED BY <1>2, <2>1, NoEntriesState DEF Live, Holds
<1>4. \A u \in Thread : pc'[u] = "copysc" => pc[u] = "copysc" /\ i'[u] = i[u]
  BY <1>1, Zenon DEF Types
<1> QED BY <1>1, <1>2, <1>3, <1>4, ContentsWritten, Zenon

(* RightBucket and Fresh hold at the start.                                *)
LEMMA InitContents ==
  ASSUME StateFacts, Init
  PROVE  RightBucket /\ Fresh
<1> DEFINE all == [Empty EXCEPT !.list = Preload]
<1>1. all \in State /\ Distinct(all)
  <2>1. Preload \in Seq(Item) /\ <<>> \in Seq(Item)
    BY PreloadAssumption DEF Item
  <2>2. all \in State /\ all.buf = <<>> /\ all.list = Preload
    BY <2>1, Zenon DEF State, States, Item, Empty
  <2>3. Entries(all) = Preload
    BY <2>1, <2>2 DEF Entries
  <2> QED BY <2>2, <2>3, PreloadAssumption, Zenon DEF Distinct
<1>2. bucket = [n \in Node |-> IF n[1] = 1 THEN Split(all, KeysOf(n)) ELSE None]
  BY Zenon DEF Init
<1> HIDE DEF all
<1>3. \A n \in Node : Holds(n, Split(all, KeysOf(n)))
  <2>1. \A n \in Node : KeysOf(n) \in SUBSET Key
    BY Zenon DEF KeysOf
  <2> QED BY <1>1, <2>1, Zenon DEF StateFacts, SplitFacts, Holds
<1>4. RightBucket
  BY <1>2, <1>3, Zenon DEF RightBucket, Holds
<1>5. Fresh
  BY Zenon DEF Fresh, Init
<1> QED BY <1>4, <1>5, Zenon

(* A step that writes no bucket.                                           *)
LEMMA QuietContents ==
  ASSUME Full, NEW t \in Thread, UNCHANGED <<bucket, ctag>>, pc'[t] # "copysc",
         \A u \in Thread \ {t} : pc'[u] = pc[u] /\ ht'[u] = ht[u] /\ i'[u] = i[u]
  PROVE  RightBucket' /\ Fresh'
<1> Inv /\ RightBucket /\ Fresh /\ Types /\ Shape /\ Blocks /\ Copiers /\ Counts /\ Positions
  BY Zenon DEF Full, Inv
<1>1. \A u \in Thread : pc'[u] = "copysc" => pc[u] = "copysc" /\ ht'[u] = ht[u] /\ i'[u] = i[u]
  BY Zenon
<1> QED BY <1>1, ContentsStay, Zenon

-----------------------------------------------------------------------------
(***************************************************************************)
(* What UnorderedMap sees of a step.                                       *)
(***************************************************************************)
OwnEffect(t) ==
  CASE op(t) = "find"   -> Value(key(t))
    [] op(t) = "insert" -> IF Value(key(t)) = None THEN call[t].val ELSE Value(key(t))
    [] op(t) = "upsert" -> Change[Value(key(t))]
    [] op(t) = "remove" -> None

SameView(u) == StatusOf(u)' = StatusOf(u) /\ ResultOf(u)' = ResultOf(u)

(* What UnorderedMap sees of a thread that does not move.                  *)
LEMMA ViewStays ==
  ASSUME NEW u \in Thread, pc'[u] = pc[u], call'[u] = call[u], s'[u] = s[u],
         inside'[u] = inside[u]
  PROVE  SameView(u)
<1>1. op(u)' = op(u) /\ key(u)' = key(u)
  BY Zenon DEF op, key
<1>2. Answered(u)' = Answered(u) /\ Walking(u)' = Walking(u)
  BY <1>1, Zenon DEF Answered, Walking
<1>3. Decided(u)' = Decided(u)
  BY <1>2, Zenon DEF Decided
<1> QED BY <1>1, <1>3, Zenon DEF SameView, StatusOf, ResultOf

(* Within an update, up to its sc.                                         *)
LEMMA ViewMoves ==
  ASSUME NEW u \in Thread, {pc[u], pc'[u]} \cap {"idle", "ll", "load", "return"} = {},
         call'[u] = call[u], s'[u] = s[u], inside'[u] = inside[u]
  PROVE  SameView(u)
<1>1. op(u)' = op(u) /\ key(u)' = key(u)
  BY Zenon DEF op, key
<1>2. Answered(u)' = Answered(u) /\ Walking(u)' = Walking(u)
  BY <1>1, Zenon DEF Answered, Walking
<1>3. Decided(u)' = Decided(u)
  BY <1>2, Zenon DEF Decided
<1> QED BY <1>1, <1>3, Zenon DEF SameView, StatusOf, ResultOf

(* While t has not decided.                                                *)
LEMMA ViewPends ==
  ASSUME NEW u \in Thread, pc[u] # "idle", pc'[u] # "idle", ~Decided(u), ~Decided(u)'
  PROVE  SameView(u)
BY Zenon DEF SameView, StatusOf, ResultOf

(* Without a write the map stays the same.                                 *)
LEMMA ValuesStay ==
  ASSUME UNCHANGED bucket
  PROVE  \A k \in Key : Value(k)' = Value(k)
BY DEF Value, IsLive, Reachable

(* A step that changes nothing UnorderedMap sees is allowed.               *)
LEMMA Unseen ==
  ASSUME call' = call, \A u \in Thread : SameView(u), \A k \in Key : Value(k)' = Value(k)
  PROVE  UNCHANGED Abstract!vars
<1>1. [k \in Key |-> Value(k)]' = [k \in Key |-> Value(k)]
  BY Zenon
<1>2. [u \in Thread |-> StatusOf(u)]' = [u \in Thread |-> StatusOf(u)]
  BY Zenon DEF SameView
<1>3. [u \in Thread |-> ResultOf(u)]' = [u \in Thread |-> ResultOf(u)]
  BY Zenon DEF SameView
<1> QED BY <1>1, <1>2, <1>3, Zenon DEF Abstract!vars, StatusOf, ResultOf

(* A step that it sees as the beginning of a call...                       *)
LEMMA SeenAsInvoke ==
  ASSUME NEW t \in Thread, StatusOf(t) = "idle", StatusOf(t)' = "pending", ResultOf(t)' = ResultOf(t),
         \E c \in Call : call' = [call EXCEPT ![t] = c],
         \A u \in Thread \ {t} : SameView(u), \A k \in Key : Value(k)' = Value(k)
  PROVE  Abstract!Next
<1>1. [k \in Key |-> Value(k)]' = [k \in Key |-> Value(k)]
  BY Zenon
<1>2. [u \in Thread |-> StatusOf(u)]' = [[u \in Thread |-> StatusOf(u)] EXCEPT ![t] = "pending"]
  BY Zenon DEF SameView
<1>3. [u \in Thread |-> ResultOf(u)]' = [u \in Thread |-> ResultOf(u)]
  BY Zenon DEF SameView
<1>4. [u \in Thread |-> StatusOf(u)][t] = "idle"
  BY Zenon
<1>5. Abstract!Invoke(t)
  BY <1>1, <1>2, <1>3, <1>4, Zenon DEF Abstract!Invoke, StatusOf, ResultOf
<1> QED BY <1>5, Zenon DEF Abstract!Next

(* ... as the return of one...                                             *)
LEMMA SeenAsReturn ==
  ASSUME NEW t \in Thread,
         StatusOf(t) = "done" \/ (StatusOf(t) = "pending" /\ op(t) \in Walks),
         StatusOf(t)' = "idle", ResultOf(t)' = None, call' = [call EXCEPT ![t] = None],
         \A u \in Thread \ {t} : SameView(u), \A k \in Key : Value(k)' = Value(k)
  PROVE  Abstract!Next
<1>1. [k \in Key |-> Value(k)]' = [k \in Key |-> Value(k)]
  BY Zenon
<1>2. [u \in Thread |-> StatusOf(u)]' = [[u \in Thread |-> StatusOf(u)] EXCEPT ![t] = "idle"]
  BY Zenon DEF SameView
<1>3. [u \in Thread |-> ResultOf(u)]' = [[u \in Thread |-> ResultOf(u)] EXCEPT ![t] = None]
  BY Zenon DEF SameView
<1>4. \/ [u \in Thread |-> StatusOf(u)][t] = "done"
      \/ [u \in Thread |-> StatusOf(u)][t] = "pending" /\ call[t].op \in Abstract!Walks
  BY Zenon DEF op, Walks, Abstract!Walks
<1>5. Abstract!Return(t)
  BY <1>1, <1>2, <1>3, <1>4, Zenon DEF Abstract!Return, StatusOf, ResultOf
<1> QED BY <1>5, Zenon DEF Abstract!Next

(* ... as a call that takes effect...                                      *)
LEMMA SeenAsTakeEffect ==
  ASSUME NEW t \in Thread, StatusOf(t) = "pending", op(t) \notin Walks, key(t) \in Key,
         op(t) \in Updates \cup {"find"},
         StatusOf(t)' = "done", ResultOf(t)' = Value(key(t)), call' = call,
         \A u \in Thread \ {t} : SameView(u),
         \A k \in Key \ {key(t)} : Value(k)' = Value(k),
         Value(key(t))' = OwnEffect(t)
  PROVE  Abstract!Next
<1> DEFINE M == [k \in Key |-> Value(k)]
           St == [u \in Thread |-> StatusOf(u)]
           Re == [u \in Thread |-> ResultOf(u)]
<1>1. key(t)' = key(t)
  BY Zenon DEF key
<1>2. M' = [M EXCEPT ![key(t)] = OwnEffect(t)]
  BY <1>1, Zenon
<1>3. St' = [St EXCEPT ![t] = "done"]
  BY Zenon DEF SameView
<1>4. Re' = [Re EXCEPT ![t] = M[key(t)]]
  BY Zenon DEF SameView
<1>5. St[t] = "pending" /\ call[t].op \notin Abstract!Walks
  BY Zenon DEF op, Walks, Abstract!Walks
<1>6. M[key(t)] = Value(key(t))
  BY Zenon
<1>7. OwnEffect(t) = Abstract!Effect(call[t])
  <2>1. Abstract!Effect(call[t]) =
          CASE op(t) = "find"   -> M[key(t)]
            [] op(t) = "insert" -> IF M[key(t)] = None THEN call[t].val ELSE M[key(t)]
            [] op(t) = "upsert" -> Change[M[key(t)]]
            [] op(t) = "remove" -> None
    BY Zenon DEF Abstract!Effect, op, key
  <2> HIDE DEF M
  <2> QED BY <1>6, <2>1, Zenon DEF OwnEffect, Updates
<1>8. Abstract!TakeEffect(t)
  BY <1>2, <1>3, <1>4, <1>5, <1>7, Zenon DEF Abstract!TakeEffect, StatusOf, ResultOf, key
<1> QED BY <1>8, Zenon DEF Abstract!Next

(* ... or as entries that clear takes away.                                *)
LEMMA SeenAsTakeAway ==
  ASSUME NEW t \in Thread, StatusOf(t) = "pending", op(t) = "clear", call' = call,
         \A u \in Thread : SameView(u), NEW gone \in SUBSET Key,
         \A k \in Key : Value(k)' = IF k \in gone THEN None ELSE Value(k)
  PROVE  Abstract!Next
<1> DEFINE M == [k \in Key |-> Value(k)]
           St == [u \in Thread |-> StatusOf(u)]
           Re == [u \in Thread |-> ResultOf(u)]
<1>1. M' = [k \in Key |-> IF k \in gone THEN None ELSE M[k]]
  BY Zenon
<1>2. St' = St /\ Re' = Re
  BY Zenon DEF SameView
<1>3. St[t] = "pending" /\ call[t].op = "clear"
  BY Zenon DEF op
<1>4. Abstract!TakeAway(t)
  BY <1>1, <1>2, <1>3, Zenon DEF Abstract!TakeAway, StatusOf, ResultOf
<1> QED BY <1>4, Zenon DEF Abstract!Next

Refines == Abstract!Next \/ UNCHANGED Abstract!vars

(* The steps of t that neither write a bucket nor answer a call.           *)
LEMMA QuietRefines ==
  ASSUME NEW t \in Thread, UNCHANGED <<bucket, call>>, SameView(t),
         \A u \in Thread \ {t} : pc'[u] = pc[u] /\ s'[u] = s[u] /\ inside'[u] = inside[u]
  PROVE  Refines
<1>1. \A u \in Thread : SameView(u)
  BY ViewStays, Zenon
<1> QED BY <1>1, ValuesStay, Unseen, Zenon DEF Refines

(* A step of a call that has not taken effect, and does not, is not seen.  *)
LEMMA OnwardRefines ==
  ASSUME NEW t \in Thread, UNCHANGED <<bucket, call, s, inside>>,
         {pc[t], pc'[t]} \cap {"idle", "ll", "load", "return"} = {},
         \A u \in Thread \ {t} : pc'[u] = pc[u]
  PROVE  Refines
<1>1. SameView(t)
  BY ViewMoves, Zenon
<1> QED BY <1>1, QuietRefines, Zenon

(* t reads bucket n of its key, which may answer its call.                 *)
LEMMA ReadRefines ==
  ASSUME StateFacts, Full, NEW t \in Thread, UNCHANGED <<bucket, call>>,
         pc[t] # "idle", op(t) \notin Walks, ~Decided(t),
         NEW n \in Node, Live(n), key(t) \in KeysOf(n), s'[t] = bucket[n],
         pc'[t] \notin {"idle", "ll", "load"},
         pc'[t] = "return" => op(t) = "find" /\ ~bucket[n].fwd,
         \A u \in Thread \ {t} : pc'[u] = pc[u] /\ s'[u] = s[u] /\ inside'[u] = inside[u]
  PROVE  Refines
<1> Inv /\ RightBucket /\ Fresh /\ Types /\ Shape /\ Blocks /\ Copiers /\ Counts /\ Positions
  BY Zenon DEF Full, Inv
<1>1. op(t)' = op(t) /\ key(t)' = key(t)
  BY Zenon DEF op, key
<1>2. CASE ~Decided(t)'
  BY <1>2, ViewPends, QuietRefines, Zenon
<1>3. CASE Decided(t)'
  <2>1. ~s'[t].fwd /\ (op(t) = "find" \/ Answered(t)')
    BY <1>1, <1>3, Zenon DEF Decided
  <2>2. /\ key(t) \in Key /\ op(t) \in Updates \cup {"find"}
    BY InCall, Zenon
  <2>3. bucket[n] # Forwarded
    BY <2>1, NoEntriesState, Zenon
  <2>4. n = Owner(key(t)) /\ bucket[n] \in State
    BY <2>2, <2>3, OwnerOf, Zenon
  <2>5. Value(key(t)) = Lookup(bucket[n], key(t))
    BY <2>2, <2>4, ValueFact, Zenon
  <2>6. ResultOf(t)' = Value(key(t)) /\ StatusOf(t)' = "done" /\ StatusOf(t) = "pending"
    BY <1>1, <1>3, <2>5, Zenon DEF ResultOf, StatusOf
  <2>7. Value(key(t)) # None <=> Has(bucket[n], key(t))
    BY <2>2, <2>4, <2>5, LookupType, Zenon
  <2>8. /\ op(t) = "insert" => Has(bucket[n], key(t))
        /\ op(t) = "remove" => ~Has(bucket[n], key(t))
        /\ op(t) # "upsert"
    BY <1>1, <2>1, <2>2, Zenon DEF Answered
  <2>9. Value(key(t)) = OwnEffect(t)
    BY <2>2, <2>7, <2>8, Zenon DEF OwnEffect, Updates
  <2>10. \A k \in Key : Value(k)' = Value(k)
    BY ValuesStay, Zenon
  <2>11. Value(key(t))' = OwnEffect(t)
    <3>1. Value(key(t))' = Value(key(t))
      BY <1>1 DEF Value, IsLive, Reachable
    <3> QED BY <2>9, <3>1, Zenon
  <2>12. \A u \in Thread \ {t} : SameView(u)
    BY ViewStays, Zenon
  <2>13. Abstract!Next
    BY <2>2, <2>6, <2>10, <2>11, <2>12, SeenAsTakeEffect, Zenon
  <2> QED BY <2>13, Zenon DEF Refines
<1> QED BY <1>2, <1>3, Zenon

(* Invoke is the beginning of a call.                                      *)
LEMMA InvokeRefines ==
  ASSUME Full, NEW t \in Thread, Invoke(t)
  PROVE  Refines
<1> Inv /\ RightBucket /\ Fresh /\ Types /\ Shape /\ Blocks /\ Copiers /\ Counts /\ Positions
  BY Zenon DEF Full, Inv
<1>1. PICK c \in Call :
        /\ pc[t] = "idle" /\ call' = [call EXCEPT ![t] = c]
        /\ inside' = [inside EXCEPT ![t] = ~(Direct /\ c.op \in {"find", "remove"})]
        /\ pc' = [pc EXCEPT ![t] = IF c.op = "find" /\ ~Direct THEN "load" ELSE "ll"]
        /\ UNCHANGED <<bucket, s>>
  BY Zenon DEF Invoke, Begin, Goto, table
<1>2. pc'[t] \in {"load", "ll"}
  BY <1>1, Zenon DEF Types
<1>3. \A u \in Thread \ {t} : SameView(u)
  BY <1>1, ViewStays, Zenon DEF Types
<1>4. ~Decided(t) /\ ~Decided(t)'
  BY <1>1, <1>2, Zenon DEF Decided
<1>5. StatusOf(t) = "idle" /\ StatusOf(t)' = "pending" /\ ResultOf(t)' = ResultOf(t)
  BY <1>1, <1>2, <1>4, Zenon DEF StatusOf, ResultOf
<1>6. \E d \in Call : call' = [call EXCEPT ![t] = d]
  BY <1>1, Zenon
<1>7. Abstract!Next
  BY <1>1, <1>3, <1>5, <1>6, ValuesStay, SeenAsInvoke, Zenon
<1> QED BY <1>7, Zenon DEF Refines

(* So is InvokeWalk.                                                       *)
LEMMA InvokeWalkRefines ==
  ASSUME Full, NEW t \in Thread, InvokeWalk(t)
  PROVE  Refines
<1> Inv /\ RightBucket /\ Fresh /\ Types /\ Shape /\ Blocks /\ Copiers /\ Counts /\ Positions
  BY Zenon DEF Full, Inv
<1>1. PICK c \in Call :
        /\ c.op \in Walks /\ pc[t] = "idle" /\ call' = [call EXCEPT ![t] = c]
        /\ inside' = [inside EXCEPT ![t] = c.op = "for_each"]
        /\ pc' = [pc EXCEPT ![t] = "visit"]
        /\ UNCHANGED <<bucket, s>>
  BY Zenon DEF InvokeWalk, Begin, Goto, table
<1>2. pc'[t] = "visit" /\ call'[t] = c
  BY <1>1, Zenon DEF Types
<1>3. \A u \in Thread \ {t} : SameView(u)
  BY <1>1, ViewStays, Zenon DEF Types
<1>4. Walking(t)'
  BY <1>1, <1>2, Zenon DEF Walking, op
<1>5. ~Decided(t) /\ ~Decided(t)'
  BY <1>1, <1>2, <1>4, Zenon DEF Decided
<1>6. StatusOf(t) = "idle" /\ StatusOf(t)' = "pending" /\ ResultOf(t)' = ResultOf(t)
  BY <1>1, <1>2, <1>5, Zenon DEF StatusOf, ResultOf
<1>7. \E d \in Call : call' = [call EXCEPT ![t] = d]
  BY <1>1, Zenon
<1>8. Abstract!Next
  BY <1>1, <1>3, <1>6, <1>7, ValuesStay, SeenAsInvoke, Zenon
<1> QED BY <1>8, Zenon DEF Refines

(* Return is the return of a call.                                         *)
LEMMA ReturnRefines ==
  ASSUME Full, NEW t \in Thread, Return(t)
  PROVE  Refines
<1> Inv /\ RightBucket /\ Fresh /\ Types /\ Shape /\ Blocks /\ Copiers /\ Counts /\ Positions
  BY Zenon DEF Full, Inv
<1>1. /\ pc[t] = "return" \/ pc[t] = "visit" \/ (Ready(t) /\ Answered(t))
      /\ pc' = [pc EXCEPT ![t] = "idle"] /\ call' = [call EXCEPT ![t] = None]
      /\ inside' = [inside EXCEPT ![t] = FALSE] /\ s' = [s EXCEPT ![t] = Empty]
      /\ UNCHANGED bucket
  BY Zenon DEF Return, Goto, table
<1>2. pc'[t] = "idle"
  BY <1>1, Zenon DEF Types
<1>3. \A u \in Thread \ {t} : SameView(u)
  BY <1>1, ViewStays, Zenon DEF Types
<1>4. Position(t)
  BY Zenon DEF Positions
<1>5. StatusOf(t) = "done" \/ (StatusOf(t) = "pending" /\ op(t) \in Walks)
  <2>1. CASE pc[t] = "return"
    BY <2>1, Zenon DEF StatusOf, Decided
  <2>2. CASE pc[t] = "visit"
    <3>1. op(t) \in Walks
      BY <1>4, <2>2, Zenon DEF Position, WalkLabels
    <3>2. ~Decided(t)
      BY <2>2, <3>1, Zenon DEF Decided, Walking
    <3> QED BY <2>2, <3>1, <3>2, Zenon DEF StatusOf
  <2>3. CASE Ready(t) /\ Answered(t)
    <3>1. pc[t] \in {"check", "expanded"} /\ ~s[t].fwd
      BY <2>3, Zenon DEF Ready
    <3>2. op(t) \notin Walks
      BY <1>4, <3>1, Zenon DEF Position, WalkLabels
    <3>3. Decided(t)
      BY <2>3, <3>1, <3>2, Zenon DEF Decided, Walking
    <3> QED BY <3>1, <3>3, Zenon DEF StatusOf
  <2> QED BY <1>1, <2>1, <2>2, <2>3, Zenon
<1>6. ~Decided(t)'
  BY <1>2, Zenon DEF Decided
<1>7. StatusOf(t)' = "idle" /\ ResultOf(t)' = None
  BY <1>2, <1>6, Zenon DEF StatusOf, ResultOf
<1>8. Abstract!Next
  BY <1>1, <1>3, <1>5, <1>7, ValuesStay, SeenAsReturn, Zenon
<1> QED BY <1>8, Zenon DEF Refines

(* The bucket a call is at.                                                *)
LEMMA BucketOf ==
  ASSUME Inv, NEW t \in Thread, pc[t] # "idle", pc[t] \notin WalkLabels
  PROVE  /\ op(t) \notin Walks /\ key(t) \in Key /\ op(t) \in Updates \cup {"find"}
         /\ b[t] \in Node /\ Live(b[t]) /\ key(t) \in KeysOf(b[t])
         /\ bucket[b[t]] # None /\ (bucket[b[t]].fwd => bucket[b[t]] = Forwarded)
<1> Types /\ Shape /\ Blocks /\ Copiers /\ Counts /\ Positions
  BY Zenon DEF Inv
<1>1. /\ b[t] \in Node /\ op(t) \notin Walks /\ key(t) \in Key /\ op(t) \in Updates \cup {"find"}
      /\ bucket[b[t]] # None /\ IsState(bucket[b[t]])
  BY InCall, Zenon
<1>2. Position(t) /\ b[t] # None
  BY <1>1, Constants, Zenon DEF Positions
<1>3. b[t] = Home(b[t][1], key(t)) /\ Live(b[t])
  BY <1>1, <1>2, Zenon DEF Position
<1> QED BY <1>1, <1>3, Zenon DEF KeysOf, IsState

(* The ll of a call is a step that UnorderedMap allows...                  *)
LEMMA LLRefines ==
  ASSUME StateFacts, Full, NEW t \in Thread, LL(t)
  PROVE  Refines
<1> Inv /\ RightBucket /\ Fresh /\ Types /\ Shape /\ Blocks /\ Copiers /\ Counts /\ Positions
  BY Zenon DEF Full, Inv
<1>1. /\ pc[t] = "ll" /\ s' = [s EXCEPT ![t] = bucket[b[t]]]
      /\ pc' = [pc EXCEPT ![t] = IF op(t) = "find" THEN "check" ELSE "copy"]
      /\ UNCHANGED <<bucket, call, inside>>
  BY Zenon DEF LL, Goto, table
<1>2. /\ op(t) \notin Walks /\ b[t] \in Node /\ Live(b[t]) /\ key(t) \in KeysOf(b[t])
  BY <1>1, BucketOf, Zenon DEF WalkLabels
<1>3. /\ s'[t] = bucket[b[t]] /\ pc'[t] \in {"check", "copy"}
      /\ \A u \in Thread \ {t} : pc'[u] = pc[u] /\ s'[u] = s[u]
  BY <1>1, Zenon DEF Types
<1>4. ~Decided(t)
  BY <1>1, Zenon DEF Decided
<1> QED BY <1>1, <1>2, <1>3, <1>4, ReadRefines, Zenon

(* ... and so is following a marker...                                     *)
LEMMA CheckRefines ==
  ASSUME StateFacts, Full, NEW t \in Thread, Check(t)
  PROVE  Refines
<1> Inv /\ RightBucket /\ Fresh /\ Types /\ Shape /\ Blocks /\ Copiers /\ Counts /\ Positions
  BY Zenon DEF Full, Inv
<1> DEFINE n == Home(lev[t] + 1, key(t))
<1>1. /\ pc[t] = "check" /\ s[t].fwd /\ s' = [s EXCEPT ![t] = bucket[n]]
      /\ UNCHANGED <<bucket, pc, call, inside>>
  BY Zenon DEF Check, table
<1>2. /\ op(t) \notin Walks /\ key(t) \in Key
  BY <1>1, BucketOf, Zenon DEF WalkLabels
<1>3. bucket[b[t]] = Forwarded
  BY <1>1, Zenon DEF Positions, Position
<1>4. Live(n) /\ n[1] = lev[t] + 1 /\ n \in Node
  BY <1>1, <1>2, <1>3, NextLive, Zenon DEF Live
<1>5. key(t) \in KeysOf(n)
  BY <1>2, <1>4, Zenon DEF KeysOf
<1> HIDE DEF n
<1>6. s'[t] = bucket[n] /\ \A u \in Thread \ {t} : s'[u] = s[u]
  BY <1>1, Zenon DEF Types
<1>7. ~Decided(t)
  BY <1>1, Zenon DEF Decided
<1> QED BY <1>1, <1>2, <1>4, <1>5, <1>6, <1>7, ReadRefines, Zenon

(* ... trying again...                                                     *)
LEMMA RetryRefines ==
  ASSUME Full, NEW t \in Thread, Retry(t)
  PROVE  Refines
<1> Inv /\ RightBucket /\ Fresh /\ Types /\ Shape /\ Blocks /\ Copiers /\ Counts /\ Positions
  BY Zenon DEF Full, Inv
<1>1. /\ Ready(t) /\ ~Answered(t) /\ inside' = [inside EXCEPT ![t] = TRUE]
      /\ pc' = [pc EXCEPT ![t] = "ll"] /\ UNCHANGED <<bucket, call, s>>
  BY Zenon DEF Retry, Goto, table, target
<1>2. /\ pc'[t] = "ll" /\ \A u \in Thread \ {t} : pc'[u] = pc[u] /\ inside'[u] = inside[u]
  BY <1>1, Zenon DEF Types
<1>3. pc[t] \in {"check", "expanded"}
  BY <1>1, Zenon DEF Ready
<1>4. ~Decided(t) /\ ~Decided(t)'
  BY <1>1, <1>2, <1>3, Zenon DEF Decided
<1> QED BY <1>1, <1>2, <1>3, <1>4, ViewPends, QuietRefines, Zenon

(* ... and asking lv.                                                      *)
LEMMA LVRefines ==
  ASSUME StateFacts, Full, NEW t \in Thread, LV(t)
  PROVE  Refines
<1> Inv /\ RightBucket /\ Fresh /\ Types /\ Shape /\ Blocks /\ Copiers /\ Counts /\ Positions
  BY Zenon DEF Full, Inv
<1>1. /\ Ready(t) /\ ~Answered(t) /\ op(t) = "find" /\ inside' = [inside EXCEPT ![t] = TRUE]
      /\ pc' = [pc EXCEPT ![t] = IF tag[t] THEN "return" ELSE "load"]
      /\ UNCHANGED <<bucket, call, s>>
  BY Zenon DEF LV, Goto, table
<1>2. /\ pc'[t] = IF tag[t] THEN "return" ELSE "load"
      /\ \A u \in Thread \ {t} : pc'[u] = pc[u] /\ inside'[u] = inside[u]
  BY <1>1, Zenon DEF Types
<1>3. pc[t] \in {"check", "expanded"} /\ ~s[t].fwd
  BY <1>1, Zenon DEF Ready
<1>4. ~Decided(t)
  BY <1>1, <1>3, Zenon DEF Decided
<1>5. CASE ~tag[t]
  <2>1. ~Decided(t)' /\ pc'[t] # "idle"
    BY <1>2, <1>5, Zenon DEF Decided
  <2> QED BY <1>1, <1>2, <1>3, <1>4, <2>1, ViewPends, QuietRefines, Zenon
<1>6. CASE tag[t]
  <2>1. /\ op(t) \notin Walks /\ b[t] \in Node /\ Live(b[t]) /\ key(t) \in KeysOf(b[t])
    BY <1>3, BucketOf, Zenon DEF WalkLabels
  <2>2. s[t] = bucket[b[t]]
    BY <1>3, <1>6, Zenon DEF Positions, Position
  <2>3. pc'[t] = "return"
    BY <1>2, <1>6, Zenon
  <2> QED BY <1>1, <1>2, <1>3, <1>4, <2>1, <2>2, <2>3, ReadRefines, Zenon
<1> QED BY <1>5, <1>6, Zenon

(* A Find that loads its bucket again takes effect there.                  *)
LEMMA LoadRefines ==
  ASSUME StateFacts, Full, NEW t \in Thread, Load(t)
  PROVE  Refines
<1> Inv /\ RightBucket /\ Fresh /\ Types /\ Shape /\ Blocks /\ Copiers /\ Counts /\ Positions
  BY Zenon DEF Full, Inv
<1>1. /\ pc[t] = "load" /\ UNCHANGED <<bucket, call, inside>>
      /\ IF bucket[b[t]].fwd THEN UNCHANGED <<pc, s>>
                             ELSE /\ s' = [s EXCEPT ![t] = bucket[b[t]]]
                                  /\ pc' = [pc EXCEPT ![t] = "return"]
  BY Zenon DEF Load, Goto, table
<1>2. ~Decided(t)
  BY <1>1, Zenon DEF Decided
<1>3. CASE bucket[b[t]].fwd
  BY <1>1, <1>3, ViewStays, QuietRefines, Zenon
<1>4. CASE ~bucket[b[t]].fwd
  <2>1. /\ op(t) \notin Walks /\ b[t] \in Node /\ Live(b[t]) /\ key(t) \in KeysOf(b[t])
    BY <1>1, BucketOf, Zenon DEF WalkLabels
  <2>2. /\ s'[t] = bucket[b[t]] /\ pc'[t] = "return"
        /\ \A u \in Thread \ {t} : pc'[u] = pc[u] /\ s'[u] = s[u]
    BY <1>1, <1>4 DEF Types
  <2>3. op(t) = "find"
    BY <1>1, Zenon DEF Positions, Position
  <2> QED BY <1>1, <1>2, <1>4, <2>1, <2>2, <2>3, ReadRefines, Zenon
<1> QED BY <1>3, <1>4, Zenon

(* The steps that move t on, to the same answer if it has one.             *)
LEMMA OnwardSteps ==
  ASSUME Full, NEW t \in Thread,
         \/ Expand(t) \/ CopyNothing(t) \/ CopyClaim(t) \/ CopyDone(t) \/ CopyCount(t) \/ Switch(t)
         \/ Visit(t) \/ ClearVisit(t) \/ ClearLL(t)
  PROVE  Refines
<1> Inv /\ RightBucket /\ Fresh /\ Types /\ Shape /\ Blocks /\ Copiers /\ Counts /\ Positions
  BY Zenon DEF Full, Inv
<1> DEFINE Onward == /\ UNCHANGED <<bucket, call, s, inside>>
                     /\ pc[t] \notin {"idle", "ll", "load", "return"}
                     /\ \E label \in Labels \ {"idle", "ll", "load", "return"} :
                          pc' = [pc EXCEPT ![t] = label]
<1> SUFFICES Onward
  <2>1. ASSUME Onward
        PROVE  /\ {pc[t], pc'[t]} \cap {"idle", "ll", "load", "return"} = {}
               /\ \A u \in Thread \ {t} : pc'[u] = pc[u]
    BY <2>1 DEF Types
  <2> QED BY <2>1, OnwardRefines, Zenon
<1>1. pc = [pc EXCEPT ![t] = pc[t]] /\ pc[t] \in Labels
  BY Zenon DEF Types
<1>2. {"check", "copyll", "count", "switch", "expanded", "visit", "clearll", "clearsc"}
        \subseteq Labels \ {"idle", "ll", "load", "return"}
  BY Zenon DEF Labels
<1>3. CASE Expand(t)
  <2>1. pc[t] = "check" /\ pc' = [pc EXCEPT ![t] = "expanded"] /\ UNCHANGED <<bucket, call, s, inside>>
    BY <1>3, Zenon DEF Expand, Goto, target
  <2> QED BY <1>2, <2>1, Zenon
<1>4. CASE CopyNothing(t)
  <2>1. pc[t] = "copy" /\ pc' = [pc EXCEPT ![t] = "check"] /\ UNCHANGED <<bucket, call, s, inside>>
    BY <1>4, Zenon DEF CopyNothing, Goto, table, target
  <2> QED BY <1>2, <2>1, Zenon
<1>5. CASE CopyClaim(t)
  <2>1. pc[t] = "copy" /\ pc' = [pc EXCEPT ![t] = "copyll"] /\ UNCHANGED <<bucket, call, s, inside>>
    BY <1>5, Zenon DEF CopyClaim, Goto, target
  <2> QED BY <1>2, <2>1, Zenon
<1>6. CASE CopyDone(t)
  <2>1. pc[t] = "copied" /\ pc' = [pc EXCEPT ![t] = "count"] /\ UNCHANGED <<bucket, call, s, inside>>
    BY <1>6, Zenon DEF CopyDone, Goto, target
  <2> QED BY <1>2, <2>1, Zenon
<1>7. CASE CopyCount(t)
  <2>1. /\ pc[t] = "count" /\ UNCHANGED <<bucket, call, s, inside>>
        /\ \E label \in {"switch", "check"} : pc' = [pc EXCEPT ![t] = label]
    BY <1>7, Zenon DEF CopyCount, Goto, target
  <2> QED BY <1>2, <2>1, Zenon
<1>8. CASE Switch(t)
  <2>1. pc[t] = "switch" /\ pc' = [pc EXCEPT ![t] = "check"] /\ UNCHANGED <<bucket, call, s, inside>>
    BY <1>8, Zenon DEF Switch, Goto, target
  <2> QED BY <1>2, <2>1, Zenon
<1>9. CASE Visit(t)
  <2>1. pc[t] = "visit" /\ pc' = pc /\ UNCHANGED <<bucket, call, s, inside>>
    BY <1>9, Zenon DEF Visit, Descend, table
  <2> QED BY <1>1, <1>2, <2>1, Zenon
<1>10. CASE ClearVisit(t)
  <2>1. /\ pc[t] = "visit" /\ UNCHANGED <<bucket, call, s, inside>>
        /\ pc' = pc \/ pc' = [pc EXCEPT ![t] = "clearll"]
    BY <1>10, Zenon DEF ClearVisit, Descend, Goto, table
  <2> QED BY <1>1, <1>2, <2>1, Zenon
<1>11. CASE ClearLL(t)
  <2>1. /\ pc[t] = "clearll" /\ UNCHANGED <<bucket, call, s, inside>>
        /\ \E label \in {"visit", "clearsc"} : pc' = [pc EXCEPT ![t] = label]
    BY <1>11, Zenon DEF ClearLL, Goto, table
  <2> QED BY <1>2, <2>1, Zenon
<1> QED BY <1>3, <1>4, <1>5, <1>6, <1>7, <1>8, <1>9, <1>10, <1>11, Zenon

-----------------------------------------------------------------------------
(***************************************************************************)
(* The steps that write buckets.                                           *)
(***************************************************************************)

(* States that agree on k.                                                 *)
LEMMA LookupBy ==
  ASSUME StateFacts, NEW x \in State, NEW y \in State, Distinct(x), Distinct(y), NEW k \in Key,
         {e \in EntrySet(x) : e.key = k} = {e \in EntrySet(y) : e.key = k}
  PROVE  Lookup(x, k) = Lookup(y, k)
<1>1. Has(x, k) <=> Has(y, k)
  BY Zenon DEF Has
<1>2. CASE ~Has(x, k)
  BY <1>1, <1>2 DEF StateFacts, EntryFacts
<1>3. CASE Has(x, k)
  <2>1. PICK e \in EntrySet(x) : e.key = k
    BY <1>3, Zenon DEF Has
  <2>2. e \in EntrySet(y)
    BY <2>1, Zenon
  <2> QED BY <2>1, <2>2 DEF StateFacts, EntryFacts
<1> QED BY <1>2, <1>3, Zenon

(* A key stays where it is, with what is there.                            *)
LEMMA ValueMoves ==
  ASSUME StateFacts, Full, Full', NEW k \in Key,
         Lookup(bucket'[Owner(k)'], k) = Lookup(bucket[Owner(k)], k)
  PROVE  Value(k)' = Value(k)
<1>1. Value(k) = Lookup(bucket[Owner(k)], k)
  BY ValueFact, Zenon
<1>2. Value(k)' = Lookup(bucket'[Owner(k)'], k)
  BY ValueFactNext, Zenon
<1> QED BY <1>1, <1>2, Zenon

(* The copies are no key's bucket yet.                                     *)
LEMMA CopyOwners ==
  ASSUME Inv, NEW t \in Thread, pc[t] \in {"copyll", "copysc"}, UNCHANGED current,
         \A n \in Node : n \notin Children(Source(t)) => bucket'[n] = bucket[n], NEW k \in Key
  PROVE  Owner(k)' = Owner(k) /\ bucket'[Owner(k)] = bucket[Owner(k)]
<1>1. /\ current \in Version /\ current \in Nat
      /\ \A m \in Children(Source(t)) : m[1] = current + 1 /\ ~Live(m)
  BY CopierOf, Zenon
<1>2. Home(current, k) \in Node /\ Home(current, k)[1] = current /\ current # current + 1
  BY <1>1, HomeOf
<1>3. bucket'[Home(current, k)] = bucket[Home(current, k)]
  BY <1>1, <1>2, Zenon
<1>4. Owner(k)' = Owner(k)
  BY <1>3, Zenon DEF Owner, Home
<1>5. bucket'[Owner(k)] = bucket[Owner(k)]
  BY <1>1, OwnerOf, Zenon
<1> QED BY <1>4, <1>5, Zenon

(* The copies are written before anybody can reach them.                   *)
LEMMA CopyRefines ==
  ASSUME StateFacts, Full, Full', NEW t \in Thread, pc[t] \in {"copyll", "copysc"},
         \A n \in Node : n \notin Children(Source(t)) => bucket'[n] = bucket[n],
         pc'[t] \in {"copyll", "copysc"},
         \A u \in Thread \ {t} : pc'[u] = pc[u], UNCHANGED <<current, call, s, inside>>
  PROVE  Refines
<1> Inv /\ RightBucket /\ Fresh /\ Types /\ Shape /\ Blocks /\ Copiers /\ Counts /\ Positions
  BY Zenon DEF Full, Inv
<1>1. ASSUME NEW k \in Key PROVE Value(k)' = Value(k)
  BY CopyOwners, ValueMoves, Zenon
<1>2. \A u \in Thread : SameView(u)
  BY ViewStays, ViewMoves, Zenon
<1> QED BY <1>1, <1>2, Unseen, Zenon DEF Refines

(* Nobody sees the copies before the marker is there...                    *)
LEMMA CopyLLRefines ==
  ASSUME StateFacts, Full, Full', NEW t \in Thread, CopyLL(t)
  PROVE  Refines
<1> Inv /\ RightBucket /\ Fresh /\ Types /\ Shape /\ Blocks /\ Copiers /\ Counts /\ Positions
  BY Zenon DEF Full, Inv
<1>1. /\ pc[t] = "copyll" /\ pc' = [pc EXCEPT ![t] = "copysc"]
      /\ bucket' = [n \in Node |-> IF n \in Children(Source(t))
                                     THEN Split(bucket[Source(t)], Share(n)) ELSE bucket[n]]
      /\ UNCHANGED <<current, call, s, inside>>
  BY Zenon DEF CopyLL, Goto, target
<1>2. pc'[t] = "copysc" /\ \A u \in Thread \ {t} : pc'[u] = pc[u]
  BY <1>1, Zenon DEF Types
<1>3. \A n \in Node : n \notin Children(Source(t)) => bucket'[n] = bucket[n]
  BY <1>1, Zenon
<1> QED BY <1>1, <1>2, <1>3, CopyRefines, Zenon

(* ... or when they are emptied again.                                     *)
LEMMA CopySCFailsRefines ==
  ASSUME StateFacts, Full, Full', NEW t \in Thread, CopySCFails(t)
  PROVE  Refines
<1> Inv /\ RightBucket /\ Fresh /\ Types /\ Shape /\ Blocks /\ Copiers /\ Counts /\ Positions
  BY Zenon DEF Full, Inv
<1>1. /\ pc[t] = "copysc" /\ pc' = [pc EXCEPT ![t] = "copyll"]
      /\ bucket' = [n \in Node |-> IF n \in Children(Source(t)) THEN Empty ELSE bucket[n]]
      /\ UNCHANGED <<current, call, s, inside>>
  BY Zenon DEF CopySCFails, Goto, target
<1>2. pc'[t] = "copyll" /\ \A u \in Thread \ {t} : pc'[u] = pc[u]
  BY <1>1, Zenon DEF Types
<1>3. \A n \in Node : n \notin Children(Source(t)) => bucket'[n] = bucket[n]
  BY <1>1, Zenon
<1> QED BY <1>1, <1>2, <1>3, CopyRefines, Zenon

(* The keys of the bucket move to its copies, with all there is.           *)
LEMMA CopySCSucceedsRefines ==
  ASSUME StateFacts, Full, Full', NEW t \in Thread, CopySCSucceeds(t)
  PROVE  Refines
<1> Inv /\ RightBucket /\ Fresh /\ Types /\ Shape /\ Blocks /\ Copiers /\ Counts /\ Positions
  BY Zenon DEF Full, Inv
<1> DEFINE src == Source(t)
<1>1. /\ pc[t] = "copysc" /\ ctag[t] /\ bucket' = [bucket EXCEPT ![src] = Forwarded]
      /\ pc' = [pc EXCEPT ![t] = IF (i[t] + 1) % BlockSize[ht[t]] = 0 THEN "copied" ELSE "copyll"]
      /\ UNCHANGED <<current, call, s, inside>>
  BY Zenon DEF CopySCSucceeds, Goto, Written
<1>2. pc'[t] \in {"copied", "copyll"} /\ \A u \in Thread \ {t} : pc'[u] = pc[u]
  BY <1>1, Zenon DEF Types
<1>3. \A u \in Thread : SameView(u)
  BY <1>1, <1>2, ViewStays, ViewMoves, Zenon
<1>4. /\ src \in Node /\ src = <<current, i[t]>> /\ bucket[src] # Forwarded /\ bucket[src] # None
      /\ bucket[src] \in State
      /\ current \in Version /\ current < MaxVersion /\ current + 1 \in Version /\ current \in Nat
  BY <1>1, CopierOf, Zenon
<1>5. src[1] = current /\ current # current + 1 /\ current + 1 > 1 /\ current + 1 - 1 = current
  BY <1>4, Constants
<1>6. \A m \in Children(src) :
        EntrySet(bucket[m]) = {e \in EntrySet(bucket[src]) : e.key \in KeysOf(m)}
  BY <1>1, Zenon DEF Fresh
<1> HIDE DEF src
<1>7. /\ bucket'[src] = Forwarded /\ \A n \in Node \ {src} : bucket'[n] = bucket[n]
  BY <1>1, <1>4, Zenon DEF Types
<1>8. ASSUME NEW k \in Key PROVE Value(k)' = Value(k)
  <2> DEFINE h == Home(current, k)
             g == Home(current + 1, k)
  <2>1. /\ h \in Node /\ h[1] = current /\ g \in Node /\ g[1] = current + 1 /\ Parent(g) = h
    BY <1>4, HomeOf, Zenon
  <2>2. g # src
    BY <1>5, <2>1, Zenon
  <2>3. /\ Owner(k) = IF bucket[h] = Forwarded THEN g ELSE h
        /\ Owner(k)' = IF bucket'[h] = Forwarded THEN g ELSE h
    BY <1>1, Zenon DEF Owner, Home
  <2>4. CASE h # src
    <3> HIDE DEF h, g
    <3>1. Owner(k)' = Owner(k) /\ bucket'[Owner(k)] = bucket[Owner(k)]
      BY <1>7, <2>1, <2>2, <2>3, <2>4, Zenon
    <3> QED BY <3>1, ValueMoves, Zenon
  <2>5. CASE h = src
    <3>1. Owner(k) = src /\ Owner(k)' = g /\ bucket'[g] = bucket[g]
      <4> HIDE DEF h, g
      <4> QED BY <1>4, <1>7, <2>1, <2>2, <2>3, <2>5, Zenon
    <3>2. g \in Children(src)
      BY <1>4, <1>5, <2>1, <2>5, FamilyOf, Zenon
    <3>3. k \in KeysOf(g)
      BY <2>1, Zenon DEF KeysOf
    <3> HIDE DEF h, g
    <3>4. {e \in EntrySet(bucket[g]) : e.key = k} = {e \in EntrySet(bucket[src]) : e.key = k}
      BY <1>6, <3>2, <3>3, Zenon
    <3>5. bucket'[g] \in State /\ bucket[g] # None
      <4>1. bucket[g] # None
        BY <1>1, <3>2, Zenon DEF Copiers, src
      <4> QED BY <2>1, <3>1, <4>1, Zenon DEF Types
    <3>6. Distinct(bucket[g]) /\ Distinct(bucket[src])
      BY <1>4, <2>1, <3>5, Zenon DEF RightBucket
    <3>7. Lookup(bucket'[g], k) = Lookup(bucket[src], k)
      BY <1>4, <3>1, <3>4, <3>5, <3>6, LookupBy, Zenon
    <3> QED BY <3>1, <3>7, ValueMoves, Zenon
  <2> QED BY <2>4, <2>5, Zenon
<1> QED BY <1>1, <1>3, <1>8, Unseen, Zenon DEF Refines

(* A write to the bucket of some keys, and to no other.                    *)
LEMMA WrittenValues ==
  ASSUME StateFacts, Full, Full', NEW n \in Node, NEW new, Written(n, new), Live(n), ~new.fwd,
         bucket[n] # Forwarded, UNCHANGED current, NEW k \in Key
  PROVE  /\ Owner(k) # n => Value(k)' = Value(k)
         /\ Owner(k) = n => Value(k)' = Lookup(new, k) /\ Value(k) = Lookup(bucket[n], k)
<1> Inv /\ RightBucket /\ Fresh /\ Types /\ Shape /\ Blocks /\ Copiers /\ Counts /\ Positions
  BY Zenon DEF Full, Inv
<1>1. bucket' = [bucket EXCEPT ![n] = new]
  BY Zenon DEF Written
<1>2. bucket'[n] = new /\ \A m \in Node \ {n} : bucket'[m] = bucket[m]
  BY <1>1, Zenon DEF Types
<1>3. new # Forwarded
  BY NoEntriesState, Zenon
<1>4. Home(current, k) \in Node
  BY HomeOf, TypeFacts, Zenon
<1>5. bucket'[Home(current, k)] = Forwarded <=> bucket[Home(current, k)] = Forwarded
  BY <1>2, <1>3, <1>4, Zenon
<1>6. Owner(k)' = Owner(k)
  BY <1>5, Zenon DEF Owner, Home
<1>7. Owner(k) \in Node
  BY OwnerOf, Zenon
<1>8. Value(k) = Lookup(bucket[Owner(k)], k)
  BY ValueFact, Zenon
<1>9. Value(k)' = Lookup(bucket'[Owner(k)'], k)
  BY ValueFactNext, Zenon
<1> QED BY <1>2, <1>6, <1>7, <1>8, <1>9, Zenon

(* A successful sc is where an update takes effect.                        *)
LEMMA SCSucceedsRefines ==
  ASSUME StateFacts, Full, Full', UpsertsMeetNoMarker, NEW t \in Thread, SCSucceeds(t)
  PROVE  Refines
<1> Inv /\ RightBucket /\ Fresh /\ Types /\ Shape /\ Blocks /\ Copiers /\ Counts /\ Positions
  BY Zenon DEF Full, Inv
<1> DEFINE n == b[t]
           new == NewState(t)
           k0 == key(t)
<1>1. /\ Ready(t) /\ ~Answered(t) /\ Written(n, new) /\ pc' = [pc EXCEPT ![t] = "return"]
      /\ UNCHANGED <<current, call, inside, s>>
  BY Zenon DEF SCSucceeds, Goto
<1>2. /\ pc[t] \in {"check", "expanded"} /\ ~s[t].fwd /\ op(t) \in Updates /\ k0 \in Key
      /\ n \in Node /\ Live(n) /\ s[t] = bucket[n] /\ bucket[n] # Forwarded
      /\ s[t] \in State /\ k0 \in KeysOf(n)
      /\ IsState(new) /\ ~new.fwd
      /\ Distinct(s[t]) /\ Distinct(new)
      /\ EntrySet(new) = {x \in EntrySet(s[t]) : x.key # k0} \cup NewEntries(t)
      /\ op(t) = "insert" => ~Has(s[t], k0)
      /\ op(t) = "remove" => Has(s[t], k0)
  BY UpdateOf, Zenon
<1>3. op(t) \notin Walks
  BY <1>2, Zenon DEF Updates, Walks
<1>4. Owner(k0) = n
  BY <1>2, OwnerOf, Zenon
<1>5. pc'[t] = "return" /\ \A u \in Thread \ {t} : pc'[u] = pc[u]
  BY <1>1, Zenon DEF Types
<1>6. ~Decided(t) /\ Decided(t)'
  BY <1>1, <1>2, <1>5, Zenon DEF Decided
<1>7. Value(k0) = Lookup(s[t], k0) /\ Value(k0)' = Lookup(new, k0)
  <2>1. ASSUME NEW k \in Key, k = k0
        PROVE  Value(k) = Lookup(s[t], k) /\ Value(k)' = Lookup(new, k)
    BY <1>1, <1>2, <1>4, <2>1, WrittenValues, Zenon
  <2>2. k0' = k0
    BY <1>1, Zenon DEF key
  <2> QED BY <1>2, <2>1, <2>2, Zenon
<1>8. StatusOf(t) = "pending" /\ StatusOf(t)' = "done" /\ ResultOf(t)' = Value(k0)
  <2>1. key(t)' = key(t) /\ s'[t] = s[t]
    BY <1>1, Zenon DEF key
  <2> QED BY <1>2, <1>5, <1>6, <1>7, <2>1, Zenon DEF StatusOf, ResultOf
<1>9. \A u \in Thread \ {t} : SameView(u)
  BY <1>1, <1>5, ViewStays, Zenon
<1> HIDE DEF n, new, k0
<1>10. new \in State /\ \A e \in NewEntries(t) : e.key = k0
  BY <1>2 DEF IsState, NewEntries, Updates, k0
<1>11. ASSUME NEW k \in Key \ {k0} PROVE Value(k)' = Value(k)
  <2>1. CASE Owner(k) # n
    BY <1>1, <1>2, <2>1, WrittenValues, Zenon
  <2>2. CASE Owner(k) = n
    <3>1. {e \in EntrySet(new) : e.key = k} = {e \in EntrySet(s[t]) : e.key = k}
      BY <1>2, <1>10, Zenon
    <3>2. Lookup(new, k) = Lookup(s[t], k)
      BY <1>2, <1>10, <3>1, LookupBy, Zenon
    <3> QED BY <1>1, <1>2, <2>2, <3>2, WrittenValues, Zenon
  <2> QED BY <2>1, <2>2, Zenon
<1>12. Lookup(new, k0) = OwnEffect(t)
  <2>1. ASSUME NEW e \in EntrySet(new), e.key = k0 PROVE Lookup(new, k0) = e.val
    BY <1>2, <1>10, <2>1 DEF StateFacts, EntryFacts
  <2>2. CASE op(t) = "insert"
    <3>1. NewEntries(t) = {[key |-> k0, val |-> call[t].val]}
      BY <2>2, Zenon DEF NewEntries, k0
    <3>2. Lookup(new, k0) = call[t].val
      <4> DEFINE e == [key |-> k0, val |-> call[t].val]
      <4>1. e.key = k0 /\ e.val = call[t].val
        BY Zenon
      <4>2. e \in EntrySet(new)
        BY <1>2, <3>1, Zenon
      <4> HIDE DEF e
      <4> QED BY <2>1, <4>1, <4>2, Zenon
    <3>3. Value(k0) = None
      BY <1>2, <1>7, <2>2, LookupType, Zenon
    <3> QED BY <2>2, <3>2, <3>3, Zenon DEF OwnEffect, k0
  <2>3. CASE op(t) = "upsert"
    <3>1. NewEntries(t) = {[key |-> k0, val |-> Change[Lookup(s[t], k0)]]}
      BY <2>3, Zenon DEF NewEntries, k0
    <3>2. Lookup(new, k0) = Change[Lookup(s[t], k0)]
      <4> DEFINE e == [key |-> k0, val |-> Change[Lookup(s[t], k0)]]
      <4>1. e.key = k0 /\ e.val = Change[Lookup(s[t], k0)]
        BY Zenon
      <4>2. e \in EntrySet(new)
        BY <1>2, <3>1, Zenon
      <4> HIDE DEF e
      <4> QED BY <2>1, <4>1, <4>2, Zenon
    <3> QED BY <1>7, <2>3, <3>2, Zenon DEF OwnEffect, k0
  <2>4. CASE op(t) = "remove"
    <3>1. NewEntries(t) = {}
      BY <2>4, Zenon DEF NewEntries
    <3>2. ~Has(new, k0)
      BY <1>2, <3>1, Zenon DEF Has
    <3>3. Lookup(new, k0) = None
      BY <1>2, <1>10, <3>2, LookupType, Zenon
    <3> QED BY <2>4, <3>3, Zenon DEF OwnEffect
  <2> QED BY <1>2, <2>2, <2>3, <2>4, Zenon DEF Updates
<1>13. Abstract!Next
  BY <1>1, <1>2, <1>3, <1>7, <1>8, <1>9, <1>11, <1>12, SeenAsTakeEffect, Zenon DEF k0
<1> QED BY <1>13, Zenon DEF Refines

(* clear takes away the entries of a bucket.                               *)
LEMMA ClearSCRefines ==
  ASSUME StateFacts, Full, Full', NEW t \in Thread, ClearSC(t)
  PROVE  Refines
<1> Inv /\ RightBucket /\ Fresh /\ Types /\ Shape /\ Blocks /\ Copiers /\ Counts /\ Positions
  BY Zenon DEF Full, Inv
<1>1. /\ pc[t] = "clearsc" /\ pc' = [pc EXCEPT ![t] = "visit"]
      /\ UNCHANGED <<current, call, inside, s>> /\ (tag[t] \/ UNCHANGED bucket)
  BY Zenon DEF ClearSC, Goto
<1>2. pc'[t] = "visit" /\ \A u \in Thread \ {t} : pc'[u] = pc[u]
  BY <1>1, Zenon DEF Types
<1>3. \A u \in Thread : SameView(u)
  BY <1>1, <1>2, ViewStays, ViewMoves, Zenon
<1>4. CASE UNCHANGED bucket
  BY <1>1, <1>3, <1>4, ValuesStay, Unseen, Zenon DEF Refines
<1>5. CASE tag[t]
  <2> DEFINE gone == {k \in Key : Owner(k) = b[t]}
  <2>1. /\ op(t) = "clear" /\ b[t] \in Node /\ Live(b[t]) /\ bucket[b[t]] # Forwarded
        /\ Written(b[t], Empty)
    BY <1>5, ClearOf, Zenon
  <2>2. ~Decided(t)
    BY <1>1, <2>1, Zenon DEF Decided, Walking, Walks
  <2>3. StatusOf(t) = "pending"
    BY <1>1, <2>2, Zenon DEF StatusOf
  <2>4. ASSUME NEW k \in Key PROVE Value(k)' = IF k \in gone THEN None ELSE Value(k)
    <3>1. Lookup(Empty, k) = None
      BY NoEntriesState, LookupType, Zenon DEF Has
    <3>2. ~Empty.fwd
      BY NoEntriesState, Zenon
    <3>3. /\ Owner(k) # b[t] => Value(k)' = Value(k)
          /\ Owner(k) = b[t] => Value(k)' = Lookup(Empty, k)
      BY <1>1, <2>1, <3>2, WrittenValues, Zenon
    <3> QED BY <3>1, <3>3, Zenon
  <2> HIDE DEF gone
  <2>5. gone \in SUBSET Key
    BY Zenon DEF gone
  <2>6. Abstract!Next
    BY <1>1, <1>3, <2>1, <2>3, <2>4, <2>5, SeenAsTakeAway, Zenon
  <2> QED BY <2>6, Zenon DEF Refines
<1> QED BY <1>1, <1>4, <1>5, Zenon

(* The map begins with the entries that were inserted before.              *)
LEMMA InitRefines ==
  ASSUME StateFacts, Full, Init
  PROVE  Abstract!Init
<1>1. pc = [t \in Thread |-> "idle"] /\ call = [t \in Thread |-> None]
  BY Zenon DEF Init
<1>2. [k \in Key |-> Value(k)] \in [Key -> Val \cup {None}]
  BY ValueFact, Zenon
<1>3. \A t \in Thread : ~Decided(t)
  BY <1>1, Zenon DEF Decided
<1>4. [t \in Thread |-> StatusOf(t)] = [t \in Thread |-> "idle"]
  BY <1>1, Zenon DEF StatusOf
<1>5. [t \in Thread |-> ResultOf(t)] = [t \in Thread |-> None]
  BY <1>3, Zenon DEF ResultOf
<1> QED BY <1>1, <1>2, <1>4, <1>5, Zenon DEF Abstract!Init, StatusOf, ResultOf

-----------------------------------------------------------------------------
(***************************************************************************)
(* The steps that write no bucket.                                         *)
(***************************************************************************)
QuietNext(t) ==
  \/ Invoke(t) \/ InvokeWalk(t) \/ Return(t) \/ LL(t) \/ Check(t) \/ Expand(t) \/ Retry(t)
  \/ LV(t) \/ Load(t) \/ CopyNothing(t) \/ CopyClaim(t) \/ CopyDone(t) \/ CopyCount(t)
  \/ Switch(t) \/ Visit(t) \/ ClearVisit(t) \/ ClearLL(t)

(* Steps that write no bucket: what they leave alone.                      *)
LEMMA QuietSteps ==
  ASSUME Full, NEW t \in Thread, QuietNext(t)
  PROVE  /\ UNCHANGED <<bucket, ctag>> /\ RightBucket' /\ Fresh'
         /\ UNCHANGED current \/ Switch(t)
         /\ UNCHANGED versions \/ (Expand(t) /\ versions' = versions + 1)
<1> Inv /\ RightBucket /\ Fresh /\ Types /\ Shape /\ Blocks /\ Copiers /\ Counts /\ Positions
  BY Zenon DEF Full, Inv
<1> DEFINE Quiet == /\ UNCHANGED <<bucket, ctag>>
                    /\ UNCHANGED current \/ Switch(t)
                    /\ UNCHANGED versions \/ (Expand(t) /\ versions' = versions + 1)
                    /\ UNCHANGED ht \/ \E x : ht' = [ht EXCEPT ![t] = x]
                    /\ UNCHANGED i \/ \E x : i' = [i EXCEPT ![t] = x]
                    /\ \/ pc[t] # "copysc" /\ UNCHANGED pc
                       \/ \E x : x # "copysc" /\ pc' = [pc EXCEPT ![t] = x]
<1> SUFFICES Quiet
  <2>1. ASSUME Quiet
        PROVE  /\ pc'[t] # "copysc"
               /\ \A u \in Thread \ {t} : pc'[u] = pc[u] /\ ht'[u] = ht[u] /\ i'[u] = i[u]
    BY <2>1, Zenon DEF Types
  <2> QED BY <2>1, QuietContents, Zenon
<1>1. CASE Invoke(t)
  BY <1>1, Zenon DEF Invoke, Begin, Goto, table, copying
<1>2. CASE InvokeWalk(t)
  BY <1>2, Zenon DEF InvokeWalk, Begin, Goto, table, copying
<1>3. CASE Return(t)
  BY <1>3, Zenon DEF Return, Goto, table, copying
<1>4. CASE LL(t)
  BY <1>4, Zenon DEF LL, Goto, table, copying
<1>5. CASE Check(t)
  BY <1>5, Zenon DEF Check, table, copying
<1>6. CASE Expand(t)
  BY <1>6, Zenon DEF Expand, Goto, target, copying
<1>7. CASE Retry(t)
  BY <1>7, Zenon DEF Retry, Goto, table, target, copying
<1>8. CASE LV(t)
  BY <1>8, Zenon DEF LV, Goto, table, copying
<1>9. CASE Load(t)
  BY <1>9, Zenon DEF Load, Goto, table, copying
<1>10. CASE CopyNothing(t)
  BY <1>10, Zenon DEF CopyNothing, Goto, table, target, copying
<1>11. CASE CopyClaim(t)
  BY <1>11, Zenon DEF CopyClaim, Goto, target
<1>12. CASE CopyDone(t)
  BY <1>12, Zenon DEF CopyDone, Goto, target
<1>13. CASE CopyCount(t)
  BY <1>13, Zenon DEF CopyCount, Goto, target, copying
<1>14. CASE Switch(t)
  BY <1>14, Zenon DEF Switch, Goto, target, copying
<1>15. CASE Visit(t)
  BY <1>15, Zenon DEF Visit, Descend, table, copying
<1>16. CASE ClearVisit(t)
  BY <1>16, Zenon DEF ClearVisit, Descend, Goto, table, copying
<1>17. CASE ClearLL(t)
  BY <1>17, Zenon DEF ClearLL, Goto, table, copying
<1> QED
  BY <1>1, <1>2, <1>3, <1>4, <1>5, <1>6, <1>7, <1>8, <1>9, <1>10, <1>11, <1>12, <1>13,
     <1>14, <1>15, <1>16, <1>17, Zenon DEF QuietNext

(* The steps that write buckets.                                           *)
WriteNext(t) ==
  SCSucceeds(t) \/ CopyLL(t) \/ CopySCSucceeds(t) \/ CopySCFails(t) \/ ClearSC(t)

(* Every step is one of these, or changes nothing.                          *)
LEMMA StepsAre ==
  ASSUME [Next]_vars
  PROVE  UNCHANGED vars \/ \E t \in Thread : QuietNext(t) \/ WriteNext(t)
BY Zenon DEF Next, Finished, Step, QuietNext, WriteNext

-----------------------------------------------------------------------------
(***************************************************************************)
(* What Inv says.                                                          *)
(***************************************************************************)
(* Inv is enough for CopyIsPrivate.                                        *)
LEMMA InvPrivate ==
  ASSUME Inv
  PROVE  CopyIsPrivate
<1> Types /\ Shape /\ Blocks /\ Copiers /\ Counts /\ Positions
  BY Zenon DEF Inv
<1>1. Types /\ Shape /\ Blocks /\ Positions /\ current \in Nat /\ versions \in Nat
  BY TypeFacts, Zenon
<1>2. ASSUME NEW n \in Node, Live(n) PROVE bucket[n] # None /\ Reachable(bucket, n)
  <2>1. n[1] \in Nat /\ n[1] >= 1 /\ (n[1] > 1 => Parent(n) \in Node /\ Parent(n)[1] = n[1] - 1)
    BY NodeOf, Constants, FamilyOf
  <2>2. n[1] > 1 => bucket[Parent(n)] = Forwarded
    BY <1>1, <1>2, <2>1 DEF Live, Shape
  <2> QED BY <1>2, <2>1, <2>2 DEF Live, Reachable
<1>3. \A t \in Thread : \A n \in todo[t] \cup ({b[t]} \ {None}) :
        bucket[n] # None /\ Reachable(bucket, n)
  <2>1. \A t \in Thread : \A n \in todo[t] \cup ({b[t]} \ {None}) : Live(n)
    BY <1>1, Zenon DEF Positions, Position
  <2> QED BY <1>2, <2>1, Zenon DEF Live
<1>4. ASSUME NEW t \in Thread, pc[t] = "copy", ht[t] < versions
      PROVE  block_status[ht[t]][BlockOf(t)] # "Uninit"
  <2>1. ht[t] \in 1..current /\ ht[t] \in Version
    BY <1>1, <1>4, TypeFacts, Constants DEF Positions, Position
  <2>2. b[t] \in Node /\ NumBlocks(ht[t]) \in Nat \ {0}
    BY <1>4, <2>1, BucketOf, BlocksOf, Zenon DEF WalkLabels
  <2>3. b[t][2] \in Nat
    BY <2>2, NodeOf, Zenon
  <2>4. BlockOf(t) \in 0..(NumBlocks(ht[t]) - 1)
    BY <2>2, <2>3, DivMod, Zenon DEF BlockOf
  <2>5. CASE ht[t] < current
    BY <1>1, <2>1, <2>4, <2>5, Zenon DEF Blocks
  <2>6. CASE ht[t] = current
    BY <1>1, <2>4, <2>6, Zenon DEF Blocks, Status, CurrentBlock
  <2> QED BY <1>1, <2>1, <2>5, <2>6
<1>5. ASSUME NEW n \in Node, bucket[n] = Forwarded
      PROVE  n[1] < versions /\ \A m \in Children(n) : bucket[m] # None
  BY <1>1, <1>5, MarkerLeadsOn, ChildrenLive, Zenon DEF Live
<1> QED BY <1>3, <1>4, <1>5, Zenon DEF CopyIsPrivate

-----------------------------------------------------------------------------
(***************************************************************************)
(* Walks.                                                                  *)
(***************************************************************************)

(* All there is: what the keys' buckets hold.                              *)
LEMMA ContentsFact ==
  StateFacts /\ Full =>
    Contents(bucket) = {e \in Item : e \in EntrySet(bucket[Owner(e.key)])}
<1>1. SUFFICES ASSUME StateFacts, Full
               PROVE  Contents(bucket) = {e \in Item : e \in EntrySet(bucket[Owner(e.key)])}
  BY Zenon
<1> Inv /\ RightBucket /\ Fresh /\ Types /\ Shape /\ Blocks /\ Copiers /\ Counts /\ Positions
  BY <1>1, Zenon DEF Full, Inv
<1>2. ASSUME NEW n \in Node, IsLive(bucket, n), NEW e \in EntrySet(bucket[n])
      PROVE  e \in Item /\ n = Owner(e.key)
  <2>1. Live(n) /\ bucket[n] # Forwarded /\ bucket[n] # None /\ bucket[n] \in State
    BY <1>1, <1>2, LiveIs, Zenon DEF Types, Live
  <2>2. e \in Item /\ e.key \in KeysOf(n)
    BY <1>1, <1>2, <2>1, Zenon DEF StateFacts, EntryFacts, RightBucket
  <2>3. e.key \in Key
    BY <2>2, Zenon DEF KeysOf
  <2> QED BY <1>1, <2>1, <2>2, <2>3, OwnerOf, Zenon
<1>3. ASSUME NEW e \in Item PROVE Owner(e.key) \in Node /\ IsLive(bucket, Owner(e.key))
  <2>1. e.key \in Key
    BY Zenon DEF Item
  <2> QED BY <1>1, <2>1, OwnerOf, LiveIs, Zenon
<1>4. ASSUME NEW e \in Contents(bucket)
      PROVE  e \in Item /\ e \in EntrySet(bucket[Owner(e.key)])
  <2>1. PICK n \in Node : IsLive(bucket, n) /\ e \in EntrySet(bucket[n])
    BY <1>4, Zenon DEF Contents
  <2> QED BY <1>2, <2>1, Zenon
<1>5. ASSUME NEW e \in Item, e \in EntrySet(bucket[Owner(e.key)]) PROVE e \in Contents(bucket)
  BY <1>3, <1>5, Zenon DEF Contents
<1> QED BY <1>4, <1>5, Zenon

(* The same in the next state.                                             *)
LEMMA ContentsFactNext ==
  (StateFacts /\ Full =>
    Contents(bucket) = {e \in Item : e \in EntrySet(bucket[Owner(e.key)])})'
BY ContentsFact, PTL

(* A bucket's keys are divided among the buckets it is copied to.          *)
LEMMA ChildKeys ==
  ASSUME NEW n \in Node, n[1] < MaxVersion
  PROVE  /\ \A k \in KeysOf(n) : \E m \in Children(n) : k \in KeysOf(m)
         /\ \A m \in Children(n) : KeysOf(m) \subseteq KeysOf(n)
         /\ \A l, m \in Children(n) : l # m => KeysOf(l) \cap KeysOf(m) = {}
<1>1. /\ n[1] \in Version /\ n[1] \in Nat /\ n[1] >= 1 /\ n[1] + 1 \in Version
      /\ n[1] + 1 > 1
  BY NodeOf, Constants
<1>2. \A m \in Children(n) : m \in Node /\ m[1] = n[1] + 1 /\ Parent(m) = n
  BY FamilyOf, Zenon
<1>3. ASSUME NEW k \in Key
      PROVE  /\ Home(n[1] + 1, k) \in Node /\ Home(n[1] + 1, k)[1] = n[1] + 1
             /\ Parent(Home(n[1] + 1, k)) = Home(n[1], k)
  BY <1>1, HomeOf, Zenon
<1>4. ASSUME NEW k \in KeysOf(n) PROVE \E m \in Children(n) : k \in KeysOf(m)
  <2>1. k \in Key /\ Home(n[1], k) = n
    BY Zenon DEF KeysOf
  <2>2. Home(n[1] + 1, k) \in Children(n)
    BY <1>1, <1>3, <2>1, FamilyOf
  <2>3. k \in KeysOf(Home(n[1] + 1, k))
    BY <1>3, <2>1, Zenon DEF KeysOf
  <2> QED BY <2>2, <2>3, Zenon
<1>5. ASSUME NEW m \in Children(n), NEW k \in KeysOf(m) PROVE k \in KeysOf(n)
  <2>1. k \in Key /\ Home(n[1] + 1, k) = m
    BY <1>2, Zenon DEF KeysOf
  <2>2. Home(n[1], k) = n
    BY <1>2, <1>3, <2>1, Zenon
  <2> QED BY <2>1, <2>2, Zenon DEF KeysOf
<1>6. ASSUME NEW l \in Children(n), NEW m \in Children(n), l # m PROVE KeysOf(l) \cap KeysOf(m) = {}
  BY <1>2, <1>6, Zenon DEF KeysOf
<1> QED BY <1>4, <1>5, <1>6, Zenon

(* Nothing happens to the walk of u but that others change what there is.  *)
SameContents ==
  \/ UNCHANGED <<kept, met>> /\ Contents(bucket)' = Contents(bucket)
  \/ Observe(bucket')

(* A walk that does not move keeps its invariant while the entries change. *)
LEMMA SweepGoesOn ==
  ASSUME NEW u \in Thread, Sweeps(u), call'[u] = call[u], pc[u] # "idle", SameContents,
         op(u) = "for_each" => out'[u] = out[u] /\ todo'[u] = todo[u]
  PROVE  Sweeps(u)'
<1>1. SUFFICES ASSUME Walking(u)', op(u)' = "for_each" PROVE Sweeps(u)'
  BY Zenon DEF Sweeps
<1>2. op(u) = "for_each" /\ Walking(u)
  BY <1>1, Zenon DEF op, Walking, Walks
<1>3. CASE UNCHANGED <<kept, met>> /\ Contents(bucket)' = Contents(bucket)
  BY <1>2, <1>3, Zenon DEF Sweeps
<1>4. CASE Observe(bucket')
  <2>1. /\ kept'[u] = kept[u] \cap Contents(bucket)'
        /\ met'[u] = met[u] \cup Contents(bucket)'
    BY <1>2, <1>4, Zenon DEF Observe, Contents, IsLive, Reachable
  <2> QED BY <1>2, <2>1, Zenon DEF Sweeps
<1> QED BY <1>3, <1>4, Zenon DEF SameContents

(* The history variables of walks are functions of threads.                *)
LEMMA WalkTypes ==
  ASSUME WalkInv, SameContents
  PROVE  DOMAIN kept' = Thread /\ DOMAIN met' = Thread
BY Zenon DEF WalkInv, SameContents, Observe

(* The steps within a call other than for_each.                            *)
LEMMA OtherSteps ==
  ASSUME WalkInv, NEW t \in Thread, SameContents, UNCHANGED <<call, out>>,
         pc[t] # "idle", pc'[t] # "idle", \A u \in Thread \ {t} : pc'[u] = pc[u],
         UNCHANGED todo \/ (op(t) = "clear" /\ \E x : todo' = [todo EXCEPT ![t] = x]),
         DOMAIN todo = Thread
  PROVE  WalkInv'
<1>1. \A u \in Thread : op(u) = "for_each" => todo'[u] = todo[u]
  BY Zenon
<1>2. ASSUME NEW u \in Thread PROVE Sweeps(u)'
  <2>1. CASE pc'[u] = "idle"
    BY <2>1, Zenon DEF Sweeps, Walking
  <2>2. CASE pc'[u] # "idle"
    <3>1. pc[u] # "idle" /\ Sweeps(u)
      BY <2>2, Zenon DEF WalkInv
    <3> QED BY <1>1, <3>1, SweepGoesOn, Zenon
  <2> QED BY <2>1, <2>2, Zenon
<1>3. \A u \in Thread : pc'[u] = "idle" => out'[u] = {}
  BY Zenon DEF WalkInv
<1> QED BY <1>2, <1>3, WalkTypes, Zenon DEF WalkInv

(* Copying changes nothing of what there is.                               *)
LEMMA CopyContents ==
  ASSUME StateFacts, Full, Full', NEW t \in Thread, CopyLL(t) \/ CopySCFails(t)
  PROVE  Contents(bucket)' = Contents(bucket)
<1> Inv /\ RightBucket /\ Fresh /\ Types /\ Shape /\ Blocks /\ Copiers /\ Counts /\ Positions
  BY Zenon DEF Full, Inv
<1>1. /\ pc[t] \in {"copyll", "copysc"} /\ UNCHANGED current
      /\ \A n \in Node : n \notin Children(Source(t)) => bucket'[n] = bucket[n]
  BY Zenon DEF CopyLL, CopySCFails
<1>2. ASSUME NEW e \in Item PROVE bucket'[Owner(e.key)'] = bucket[Owner(e.key)]
  <2>1. e.key \in Key
    BY Zenon DEF Item
  <2>2. Owner(e.key)' = Owner(e.key) /\ bucket'[Owner(e.key)] = bucket[Owner(e.key)]
    BY <1>1, <2>1, CopyOwners, Zenon
  <2> QED BY <2>2, Zenon
<1>3. Contents(bucket)' = {e \in Item : e \in EntrySet(bucket'[Owner(e.key)'])}
  BY ContentsFactNext, Zenon
<1>4. Contents(bucket) = {e \in Item : e \in EntrySet(bucket[Owner(e.key)])}
  BY ContentsFact, Zenon
<1> QED BY <1>2, <1>3, <1>4, Zenon

(* A step that writes buckets keeps WalkInv.                               *)
LEMMA WriteSweeps ==
  ASSUME StateFacts, Full, Full', WalkInv, NEW t \in Thread, WriteNext(t)
  PROVE  WalkInv'
<1> Inv /\ RightBucket /\ Fresh /\ Types /\ Shape /\ Blocks /\ Copiers /\ Counts /\ Positions
  BY Zenon DEF Full, Inv
<1>1. SUFFICES /\ SameContents /\ UNCHANGED <<call, out, todo>> /\ pc[t] # "idle"
               /\ \E x \in Labels \ {"idle"} : pc' = [pc EXCEPT ![t] = x]
  <2>1. ASSUME NEW x \in Labels \ {"idle"}, pc' = [pc EXCEPT ![t] = x]
        PROVE  pc'[t] # "idle" /\ \A u \in Thread \ {t} : pc'[u] = pc[u]
    BY <2>1, Zenon DEF Types
  <2>2. DOMAIN todo = Thread
    BY Zenon DEF Types
  <2> QED BY <2>1, <2>2, OtherSteps, Zenon
<1>2. {"return", "copyll", "copysc", "copied", "visit"} \subseteq Labels \ {"idle"}
  BY Zenon DEF Labels
<1>3. \A n, new : Written(n, new) => SameContents
  BY Zenon DEF Written, SameContents
<1>4. CASE SCSucceeds(t)
  <2>1. /\ Ready(t) /\ Written(b[t], NewState(t)) /\ pc' = [pc EXCEPT ![t] = "return"]
        /\ UNCHANGED <<call, out, todo>>
    BY <1>4, Zenon DEF SCSucceeds, Goto
  <2> QED BY <1>2, <1>3, <2>1, Zenon DEF Ready
<1>5. CASE CopyLL(t)
  <2>1. /\ pc[t] = "copyll" /\ pc' = [pc EXCEPT ![t] = "copysc"] /\ UNCHANGED <<call, walk>>
    BY <1>5, Zenon DEF CopyLL, Goto
  <2> QED BY <1>2, <1>5, <2>1, CopyContents, Zenon DEF SameContents, walk
<1>6. CASE CopySCSucceeds(t)
  <2>1. /\ pc[t] = "copysc" /\ Written(Source(t), Forwarded) /\ UNCHANGED <<call, out, todo>>
        /\ \E x \in {"copied", "copyll"} : pc' = [pc EXCEPT ![t] = x]
    BY <1>6, Zenon DEF CopySCSucceeds, Goto
  <2> QED BY <1>2, <1>3, <2>1, Zenon
<1>7. CASE CopySCFails(t)
  <2>1. /\ pc[t] = "copysc" /\ pc' = [pc EXCEPT ![t] = "copyll"] /\ UNCHANGED <<call, walk>>
    BY <1>7, Zenon DEF CopySCFails, Goto
  <2> QED BY <1>2, <1>7, <2>1, CopyContents, Zenon DEF SameContents, walk
<1>8. CASE ClearSC(t)
  <2>1. /\ pc[t] = "clearsc" /\ pc' = [pc EXCEPT ![t] = "visit"] /\ UNCHANGED <<call, out, todo>>
        /\ Written(b[t], NewState(t)) \/ UNCHANGED <<bucket, kept, met>>
    BY <1>8, Zenon DEF ClearSC, Goto
  <2>2. UNCHANGED bucket => Contents(bucket)' = Contents(bucket)
    BY Zenon DEF Contents, IsLive, Reachable
  <2> QED BY <1>2, <1>3, <2>1, <2>2, Zenon DEF SameContents
<1> QED BY <1>4, <1>5, <1>6, <1>7, <1>8, Zenon DEF WriteNext

(* One bucket of a walk: the ones that replace it, or what it holds.       *)
LEMMA VisitSweeps ==
  ASSUME StateFacts, Full, WalkInv, NEW t \in Thread, Visit(t)
  PROVE  WalkInv'
<1> Inv /\ RightBucket /\ Fresh /\ Types /\ Shape /\ Blocks /\ Copiers /\ Counts /\ Positions
  BY Zenon DEF Full, Inv
<1>1. /\ pc[t] = "visit" /\ op(t) = "for_each" /\ UNCHANGED <<bucket, pc, call, kept, met>>
  BY Zenon DEF Visit, Descend, table
<1>2. PICK n \in todo[t] :
        \/ /\ bucket[n].fwd /\ UNCHANGED out
           /\ todo' = [todo EXCEPT ![t] = (@ \ {n}) \cup Children(n)]
        \/ /\ ~bucket[n].fwd /\ out' = [out EXCEPT ![t] = @ \cup EntrySet(bucket[n])]
           /\ todo' = [todo EXCEPT ![t] = @ \ {n}]
  BY Zenon DEF Visit, Descend
<1>3. Contents(bucket)' = Contents(bucket)
  BY <1>1, Zenon DEF Contents, IsLive, Reachable
<1>4. /\ DOMAIN todo = Thread /\ DOMAIN out = Thread /\ DOMAIN out' = Thread /\ SameContents
  BY <1>1, <1>2, <1>3, Zenon DEF Types, WalkInv, SameContents
<1>5. \A u \in Thread \ {t} : out'[u] = out[u] /\ todo'[u] = todo[u]
  BY <1>2, <1>4, Zenon
<1>6. /\ n \in Node /\ Live(n) /\ bucket[n] # None /\ (bucket[n].fwd => bucket[n] = Forwarded)
  BY Zenon DEF Types, Positions, Position, Live, IsState
<1>7. /\ kept[t] \subseteq Contents(bucket) /\ Contents(bucket) \subseteq met[t]
      /\ out[t] \subseteq met[t]
      /\ \A e \in kept[t] : e \in out[t] \/ \E m \in todo[t] : e.key \in KeysOf(m)
      /\ \A e \in out[t] : \A m \in todo[t] : e.key \notin KeysOf(m)
      /\ \A l, m \in todo[t] : l # m => KeysOf(l) \cap KeysOf(m) = {}
  BY <1>1, Zenon DEF WalkInv, Sweeps, Walking, Walks
<1>8. CASE bucket[n].fwd
  <2>1. /\ out'[t] = out[t] /\ todo'[t] = (todo[t] \ {n}) \cup Children(n)
    BY <1>2, <1>4, <1>8, Zenon
  <2>2. n[1] < MaxVersion
    BY <1>6, <1>8, MarkerLeadsOn, Zenon
  <2>3. /\ \A k \in KeysOf(n) : \E m \in Children(n) : k \in KeysOf(m)
        /\ \A m \in Children(n) : KeysOf(m) \subseteq KeysOf(n)
        /\ \A l, m \in Children(n) : l # m => KeysOf(l) \cap KeysOf(m) = {}
    BY <1>6, <2>2, ChildKeys, Zenon
  <2>4. \A e \in kept[t] : e \in out[t] \/ \E m \in todo'[t] : e.key \in KeysOf(m)
    BY <1>7, <2>1, <2>3, Zenon
  <2>5. \A e \in out[t] : \A m \in todo'[t] : e.key \notin KeysOf(m)
    BY <1>7, <2>1, <2>3, Zenon
  <2>6. ASSUME NEW l \in todo'[t], NEW m \in todo'[t], l # m PROVE KeysOf(l) \cap KeysOf(m) = {}
    BY <1>7, <2>1, <2>3, <2>6, Zenon
  <2>7. Sweeps(t)'
    BY <1>1, <1>3, <1>7, <2>1, <2>4, <2>5, <2>6, Zenon DEF Sweeps
  <2>8. \A u \in Thread \ {t} : Sweeps(u)'
    <3>1. ASSUME NEW u \in Thread \ {t}, pc[u] = "idle" PROVE Sweeps(u)'
      BY <1>1, <3>1, Zenon DEF Sweeps, Walking
    <3> QED BY <1>1, <1>4, <1>5, <3>1, SweepGoesOn, Zenon DEF WalkInv
  <2> QED BY <1>1, <1>4, <1>5, <2>7, <2>8, Zenon DEF WalkInv
<1>9. CASE ~bucket[n].fwd
  <2> DEFINE E == EntrySet(bucket[n])
  <2>1. /\ out'[t] = out[t] \cup E /\ todo'[t] = todo[t] \ {n}
    BY <1>2, <1>4, <1>9, Zenon
  <2>2. bucket[n] # Forwarded
    BY <1>9, NoEntriesState, Zenon
  <2>3. E \subseteq Contents(bucket) /\ \A e \in E : e.key \in KeysOf(n)
    <3>1. IsLive(bucket, n)
      BY <1>6, <2>2, LiveIs, Zenon
    <3>2. E \subseteq Contents(bucket)
      BY <1>6, <3>1, Zenon DEF Contents
    <3> QED BY <1>6, <3>2, Zenon DEF RightBucket
  <2>4. ASSUME NEW e \in kept[t], e.key \in KeysOf(n) PROVE e \in E
    <3>1. e \in EntrySet(bucket[Owner(e.key)])
      BY <1>7, <2>4, ContentsFact, Zenon
    <3>2. e.key \in Key
      BY <2>4, Zenon DEF KeysOf
    <3>3. n = Owner(e.key)
      BY <1>6, <2>2, <2>4, <3>2, OwnerOf, Zenon
    <3> QED BY <3>1, <3>3, Zenon
  <2> HIDE DEF E
  <2>5. out'[t] \subseteq met[t]
    BY <1>7, <2>1, <2>3, Zenon
  <2>6. \A e \in kept[t] : e \in out'[t] \/ \E m \in todo'[t] : e.key \in KeysOf(m)
    BY <1>7, <2>1, <2>4, Zenon
  <2>7. \A e \in out'[t] : \A m \in todo'[t] : e.key \notin KeysOf(m)
    BY <1>7, <2>1, <2>3, Zenon
  <2>8. \A l, m \in todo'[t] : l # m => KeysOf(l) \cap KeysOf(m) = {}
    BY <1>7, <2>1, Zenon
  <2>9. Sweeps(t)'
    BY <1>1, <1>3, <1>7, <2>5, <2>6, <2>7, <2>8, Zenon DEF Sweeps
  <2>10. \A u \in Thread \ {t} : Sweeps(u)'
    <3>1. ASSUME NEW u \in Thread \ {t}, pc[u] = "idle" PROVE Sweeps(u)'
      BY <1>1, <3>1, Zenon DEF Sweeps, Walking
    <3> QED BY <1>1, <1>4, <1>5, <3>1, SweepGoesOn, Zenon DEF WalkInv
  <2> QED BY <1>1, <1>4, <1>5, <2>9, <2>10, Zenon DEF WalkInv
<1> QED BY <1>8, <1>9, Zenon

(* A walk begins: the buckets of a version share no key and have all.      *)
LEMMA InvokeSweeps ==
  ASSUME Full, WalkInv, NEW t \in Thread, Invoke(t) \/ InvokeWalk(t)
  PROVE  WalkInv'
<1> Inv /\ RightBucket /\ Fresh /\ Types /\ Shape /\ Blocks /\ Copiers /\ Counts /\ Positions
  BY Zenon DEF Full, Inv
<1>1. PICK c \in Call :
        /\ pc[t] = "idle" /\ call' = [call EXCEPT ![t] = c] /\ UNCHANGED <<bucket, current, out>>
        /\ \E x \in Labels \ {"idle"} : pc' = [pc EXCEPT ![t] = x]
        /\ \/ c.op \notin Walks /\ UNCHANGED <<todo, kept, met>>
           \/ /\ todo' = [todo EXCEPT ![t] = {<<current, j>> : j \in 0..(Size[current] - 1)}]
              /\ kept' = [kept EXCEPT ![t] = Contents(bucket)]
              /\ met' = [met EXCEPT ![t] = Contents(bucket)]
  BY Zenon DEF Invoke, InvokeWalk, Begin, Goto, table, walk, Labels
<1>2. /\ DOMAIN kept' = Thread /\ DOMAIN met' = Thread /\ DOMAIN out' = Thread
      /\ call'[t] = c /\ pc'[t] # "idle" /\ out'[t] = {}
      /\ \A u \in Thread \ {t} : /\ call'[u] = call[u] /\ pc'[u] = pc[u] /\ out'[u] = out[u]
                                 /\ todo'[u] = todo[u] /\ kept'[u] = kept[u] /\ met'[u] = met[u]
  BY <1>1 DEF Types, WalkInv
<1>3. Contents(bucket)' = Contents(bucket)
  BY <1>1 DEF Contents, IsLive, Reachable
<1>4. ASSUME NEW u \in Thread \ {t} PROVE Sweeps(u)'
  BY <1>2, <1>3, Zenon DEF WalkInv, Sweeps, Walking, op
<1>5. Sweeps(t)'
  <2>1. CASE c.op \notin Walks
    BY <1>2, <2>1, Zenon DEF Sweeps, Walking, op
  <2>2. CASE /\ todo' = [todo EXCEPT ![t] = {<<current, j>> : j \in 0..(Size[current] - 1)}]
             /\ kept' = [kept EXCEPT ![t] = Contents(bucket)]
             /\ met' = [met EXCEPT ![t] = Contents(bucket)]
    <3>1. /\ todo'[t] = {<<current, j>> : j \in 0..(Size[current] - 1)}
          /\ kept'[t] = Contents(bucket) /\ met'[t] = Contents(bucket)
      BY <2>2, Zenon DEF Types, WalkInv
    <3>2. ASSUME NEW e \in Contents(bucket) PROVE \E n \in todo'[t] : e.key \in KeysOf(n)
      <4>1. PICK m \in Node : IsLive(bucket, m) /\ e \in EntrySet(bucket[m])
        BY <3>2, Zenon DEF Contents
      <4>2. e.key \in Key
        BY <4>1, Zenon DEF RightBucket, IsLive, KeysOf
      <4>3. /\ current \in Version /\ Index(current, e.key) \in Nat
            /\ Index(current, e.key) < Size[current] /\ Size[current] \in Nat
        BY <4>2, IndexOf, TypeFacts, Constants, Zenon
      <4>4. Index(current, e.key) \in 0..(Size[current] - 1)
        BY <4>3
      <4>5. Home(current, e.key) \in todo'[t]
        BY <3>1, <4>4, Zenon DEF Home
      <4>6. Home(current, e.key)[1] = current
        BY Zenon DEF Home
      <4> QED BY <4>2, <4>5, <4>6, Zenon DEF KeysOf
    <3>3. ASSUME NEW l \in todo'[t], NEW m \in todo'[t], l # m PROVE KeysOf(l) \cap KeysOf(m) = {}
      <4>1. l[1] = current /\ m[1] = current
        BY <3>1
      <4> QED BY <3>3, <4>1, Zenon DEF KeysOf
    <3> QED BY <1>2, <1>3, <3>1, <3>2, <3>3, Zenon DEF Sweeps
  <2> QED BY <1>1, <2>1, <2>2, Zenon
<1>6. \A u \in Thread : pc'[u] = "idle" => out'[u] = {}
  BY <1>2, Zenon DEF WalkInv
<1> QED BY <1>2, <1>4, <1>5, <1>6, Zenon DEF WalkInv

(* A walk ends.                                                            *)
LEMMA ReturnSweeps ==
  ASSUME Full, WalkInv, NEW t \in Thread, Return(t)
  PROVE  WalkInv'
<1> Inv /\ RightBucket /\ Fresh /\ Types /\ Shape /\ Blocks /\ Copiers /\ Counts /\ Positions
  BY Zenon DEF Full, Inv
<1>1. /\ pc' = [pc EXCEPT ![t] = "idle"] /\ call' = [call EXCEPT ![t] = None]
      /\ out' = [out EXCEPT ![t] = {}] /\ kept' = [kept EXCEPT ![t] = {}]
      /\ met' = [met EXCEPT ![t] = {}] /\ UNCHANGED <<bucket, todo>>
  BY Zenon DEF Return, Goto, table
<1>2. /\ DOMAIN kept' = Thread /\ DOMAIN met' = Thread /\ DOMAIN out' = Thread
      /\ pc'[t] = "idle" /\ out'[t] = {}
      /\ \A u \in Thread \ {t} : /\ call'[u] = call[u] /\ pc'[u] = pc[u] /\ out'[u] = out[u]
                                 /\ todo'[u] = todo[u] /\ kept'[u] = kept[u] /\ met'[u] = met[u]
  BY <1>1, Zenon DEF Types, WalkInv
<1>3. Contents(bucket)' = Contents(bucket)
  BY <1>1, Zenon DEF Contents, IsLive, Reachable
<1>4. ASSUME NEW u \in Thread \ {t} PROVE Sweeps(u)'
  BY <1>2, <1>3, Zenon DEF WalkInv, Sweeps, Walking, op
<1>5. Sweeps(t)'
  BY <1>2, Zenon DEF Sweeps, Walking
<1>6. \A u \in Thread : pc'[u] = "idle" => out'[u] = {}
  BY <1>2, Zenon DEF WalkInv
<1> QED BY <1>2, <1>4, <1>5, <1>6, Zenon DEF WalkInv

(* A step that writes no bucket keeps WalkInv.                             *)
LEMMA QuietSweeps ==
  ASSUME StateFacts, Full, WalkInv, NEW t \in Thread, QuietNext(t)
  PROVE  WalkInv'
<1> Inv /\ RightBucket /\ Fresh /\ Types /\ Shape /\ Blocks /\ Copiers /\ Counts /\ Positions
  BY Zenon DEF Full, Inv
<1> DEFINE Quiet == /\ UNCHANGED <<kept, met, call, out>>
                    /\ pc[t] # "idle"
                    /\ UNCHANGED pc \/ \E x \in Labels \ {"idle"} : pc' = [pc EXCEPT ![t] = x]
                    /\ UNCHANGED todo \/ (op(t) = "clear" /\ \E x : todo' = [todo EXCEPT ![t] = x])
<1>1. Quiet => WalkInv'
  <2>1. SUFFICES ASSUME Quiet PROVE WalkInv'
    BY Zenon
  <2>2. pc'[t] # "idle" /\ \A u \in Thread \ {t} : pc'[u] = pc[u]
    BY <2>1, Zenon DEF Types
  <2>3. DOMAIN todo = Thread
    BY Zenon DEF Types
  <2>4. UNCHANGED bucket
    BY QuietSteps, Zenon
  <2>5. Contents(bucket)' = Contents(bucket)
    BY <2>4, Zenon DEF Contents, IsLive, Reachable
  <2>6. SameContents
    BY <2>1, <2>5, Zenon DEF SameContents
  <2> QED BY <2>1, <2>2, <2>3, <2>6, OtherSteps, Zenon
<1>2. {"check", "copy", "ll", "load", "return", "copyll", "count", "switch", "expanded", "visit",
       "clearll", "clearsc"} \subseteq Labels \ {"idle"}
  BY Zenon DEF Labels
<1>3. CASE LL(t)
  <2> SUFFICES Quiet
    BY <1>1, Zenon
  <2> QED BY <1>2, <1>3, Zenon DEF LL, Goto, table, walk
<1>4. CASE Check(t)
  <2> SUFFICES Quiet
    BY <1>1, Zenon
  <2> QED BY <1>2, <1>4, Zenon DEF Check, table, walk
<1>5. CASE Expand(t)
  <2> SUFFICES Quiet
    BY <1>1, Zenon
  <2> QED BY <1>2, <1>5, Zenon DEF Expand, Goto, walk
<1>6. CASE Retry(t)
  <2> SUFFICES Quiet
    BY <1>1, Zenon
  <2>1. pc[t] # "idle"
    BY <1>6, Zenon DEF Retry, Ready
  <2> QED BY <1>2, <1>6, <2>1, Zenon DEF Retry, Goto, walk
<1>7. CASE LV(t)
  <2> SUFFICES Quiet
    BY <1>1, Zenon
  <2>1. pc[t] # "idle"
    BY <1>7, Zenon DEF LV, Ready
  <2> QED BY <1>2, <1>7, <2>1, Zenon DEF LV, Goto, walk
<1>8. CASE Load(t)
  <2> SUFFICES Quiet
    BY <1>1, Zenon
  <2> QED BY <1>2, <1>8, Zenon DEF Load, Goto, walk
<1>9. CASE CopyNothing(t)
  <2> SUFFICES Quiet
    BY <1>1, Zenon
  <2> QED BY <1>2, <1>9, Zenon DEF CopyNothing, Goto, walk
<1>10. CASE CopyClaim(t)
  <2> SUFFICES Quiet
    BY <1>1, Zenon
  <2> QED BY <1>2, <1>10, Zenon DEF CopyClaim, Goto, walk
<1>11. CASE CopyDone(t)
  <2> SUFFICES Quiet
    BY <1>1, Zenon
  <2> QED BY <1>2, <1>11, Zenon DEF CopyDone, Goto, walk
<1>12. CASE CopyCount(t)
  <2> SUFFICES Quiet
    BY <1>1, Zenon
  <2> QED BY <1>2, <1>12, Zenon DEF CopyCount, Goto, walk
<1>13. CASE Switch(t)
  <2> SUFFICES Quiet
    BY <1>1, Zenon
  <2> QED BY <1>2, <1>13, Zenon DEF Switch, Goto, walk
<1>14. CASE ClearVisit(t)
  <2> SUFFICES Quiet
    BY <1>1, Zenon
  <2> QED BY <1>2, <1>14, Zenon DEF ClearVisit, Descend, Goto
<1>15. CASE ClearLL(t)
  <2> SUFFICES Quiet
    BY <1>1, Zenon
  <2> QED BY <1>2, <1>15, Zenon DEF ClearLL, Goto, walk
<1>16. CASE Invoke(t) \/ InvokeWalk(t)
  BY <1>16, InvokeSweeps, Zenon
<1>17. CASE Return(t)
  BY <1>17, ReturnSweeps, Zenon
<1>18. CASE Visit(t)
  BY <1>18, VisitSweeps, Zenon
<1> HIDE DEF Quiet
<1> QED
  BY <1>3, <1>4, <1>5, <1>6, <1>7, <1>8, <1>9, <1>10, <1>11, <1>12, <1>13, <1>14,
     <1>15, <1>16, <1>17, <1>18, Zenon DEF QuietNext

(* Every step keeps WalkInv.                                               *)
LEMMA NextSweeps ==
  ASSUME StateFacts, Full, Full', WalkInv, [Next]_vars
  PROVE  WalkInv'
<1>1. CASE UNCHANGED vars
  <2>1. UNCHANGED <<bucket, pc, call, todo, out, kept, met>>
    BY <1>1, Zenon DEF vars, table, walk
  <2> QED BY <2>1 DEF WalkInv, Sweeps, Walking, op, Contents, IsLive, Reachable
<1> QED BY <1>1, StepsAre, QuietSweeps, WriteSweeps, Zenon

(* WalkInv holds at the start.                                             *)
LEMMA InitSweeps ==
  ASSUME Init
  PROVE  WalkInv
BY Zenon DEF Init, WalkInv, Sweeps, Walking

(* A walk with nothing left to visit has kept its promise.                 *)
LEMMA SweepsGuarantee ==
  ASSUME WalkInv
  PROVE  WalkGuarantee
BY Zenon DEF WalkInv, Sweeps, WalkGuarantee
=============================================================================
