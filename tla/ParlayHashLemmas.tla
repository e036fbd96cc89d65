-------------------------- MODULE ParlayHashLemmas --------------------------
(***************************************************************************)
(* Indices and blocks, and what the steps of the table have in common.     *)
(***************************************************************************)
EXTENDS ParlayHashInv, Integers, TLAPS

-----------------------------------------------------------------------------
(***************************************************************************)
(* Indices: get_index takes the high bits of the hash, and a bucket is     *)
(* copied to the grow_factor buckets that have its own index as high bits. *)
(***************************************************************************)
(* Division with remainder, as the provers need it.                        *)
LEMMA DivMod ==
  ASSUME NEW a \in Nat, NEW d \in Nat \ {0}
  PROVE  a \div d \in Nat /\ a % d \in 0..(d - 1) /\ a = d * (a \div d) + (a % d)
OBVIOUS

(* Products of natural numbers.                                            *)
LEMMA Times ==
  ASSUME NEW d \in Nat, NEW x \in Nat, NEW y \in Nat
  PROVE  /\ d * x \in Nat
         /\ x <= y => d * x <= d * y
         /\ x < y => d * x + d <= d * y
<1>1. ASSUME x < y PROVE d * x + d <= d * y
  <2>1. x + 1 <= y
    BY <1>1
  <2>2. d * (x + 1) <= d * y
    BY <2>1
  <2> QED BY <2>2
<1> QED BY <1>1

(* Quotient and remainder are unique.                                      *)
LEMMA DivUnique ==
  ASSUME NEW a \in Nat, NEW d \in Nat \ {0}, NEW q \in Nat, NEW r \in 0..(d - 1), a = d * q + r
  PROVE  a \div d = q /\ a % d = r
<1> DEFINE q1 == a \div d
           r1 == a % d
<1>1. q1 \in Nat /\ r1 \in 0..(d - 1) /\ a = d * q1 + r1
  BY DivMod, Zenon
<1> HIDE DEF q1, r1
<1>2. d * q \in Nat /\ d * q1 \in Nat
  BY <1>1
<1>3. ASSUME q1 < q PROVE FALSE
  <2>1. d * q1 + d <= d * q
    BY <1>1, <1>3, Times, Zenon
  <2> QED BY <1>1, <1>2, <2>1
<1>4. ASSUME q < q1 PROVE FALSE
  <2>1. d * q + d <= d * q1
    BY <1>1, <1>4, Times, Zenon
  <2> QED BY <1>1, <1>2, <2>1
<1>5. q1 = q
  BY <1>1, <1>3, <1>4
<1> QED BY <1>1, <1>2, <1>5 DEF q1, r1

(* Dividing twice is dividing by the product.                              *)
LEMMA DivDiv ==
  ASSUME NEW a \in Nat, NEW c \in Nat \ {0}, NEW d \in Nat \ {0}
  PROVE  c * d \in Nat \ {0} /\ (a \div c) \div d = a \div (c * d)
<1> DEFINE q1 == a \div c
           r1 == a % c
           q2 == q1 \div d
           r2 == q1 % d
           r == c * r2 + r1
<1>1. q1 \in Nat /\ r1 \in 0..(c - 1) /\ a = c * q1 + r1
  BY DivMod, Zenon
<1>2. q2 \in Nat /\ r2 \in 0..(d - 1) /\ q1 = d * q2 + r2
  <2> HIDE DEF q1
  <2> QED BY <1>1, DivMod, Zenon
<1> HIDE DEF q1, r1, q2, r2
<1>3. c * d \in Nat \ {0}
  BY Times, c * d >= 1
<1>4. c * r2 + c <= c * d
  BY <1>2, Times
<1>5. c * r2 \in Nat /\ r \in 0..(c * d - 1)
  BY <1>1, <1>2, <1>3, <1>4, Times
<1>6. a = (c * d) * q2 + r
  <2>1. c * q1 = c * (d * q2) + c * r2 /\ c * (d * q2) = (c * d) * q2
    BY <1>1, <1>2
  <2>2. (c * d) * q2 \in Nat
    BY <1>2, <1>3, Times, Zenon
  <2> DEFINE X == (c * d) * q2
             Y == c * r2
             Z == c * q1
  <2>3. X \in Nat /\ Y \in Nat /\ r1 \in Nat /\ Z = X + Y /\ a = Z + r1 /\ r = Y + r1
    BY <1>1, <1>5, <2>1, <2>2
  <2> HIDE DEF X, Y, Z, r
  <2>4. a = X + r
    BY <2>3
  <2> QED BY <2>4, Zenon DEF X
<1> HIDE DEF r
<1>7. a \div (c * d) = q2
  BY <1>2, <1>3, <1>5, <1>6, DivUnique, Zenon
<1> QED BY <1>3, <1>7, Zenon DEF q1, q2

(* The constants, one by one.                                              *)
LEMMA Constants ==
  /\ MaxVersion \in Nat \ {0} /\ Grow \in Nat \ {0} /\ HashSize \in Nat \ {0}
  /\ Version = 1..MaxVersion /\ MaxCalls \in Nat
  /\ \A v \in Version : /\ v \in Nat \ {0} /\ Size[v] \in Nat \ {0} /\ HashSize % Size[v] = 0
                        /\ v < MaxVersion => v + 1 \in Version /\ Size[v + 1] = Grow * Size[v]
                        /\ BlockSize[v] \in Nat \ {0} /\ BlockSize[v] <= Size[v]
                        /\ Size[v] % BlockSize[v] = 0
                        /\ v < MaxVersion => BlockSize[v] <= BlockSize[v + 1]
                        /\ OverflowSize[v] \in Nat
  /\ \A k \in Key : Hash[k] \in Nat /\ Hash[k] < HashSize
  /\ IsFiniteSet(Thread)
  /\ None \notin Val /\ None \notin Call /\ None \notin Node /\ None \notin State
BY ConstantsAssumption DEF Version

(* get_index: no more than a shift.                                        *)
LEMMA IndexOf ==
  ASSUME NEW v \in Version, NEW k \in Key
  PROVE  /\ HashSize \div Size[v] \in Nat \ {0} /\ HashSize = Size[v] * (HashSize \div Size[v])
         /\ Index(v, k) = Hash[k] \div (HashSize \div Size[v])
         /\ Index(v, k) \in Nat /\ Index(v, k) < Size[v]
<1> DEFINE S == Size[v]
           d == HashSize \div Size[v]
           h == Hash[k]
           x == h \div d
<1>1. S \in Nat \ {0} /\ HashSize \in Nat \ {0} /\ HashSize % S = 0 /\ h \in Nat /\ h < HashSize
  BY Constants, Zenon
<1>2. d \in Nat /\ HashSize = S * d
  <2> HIDE DEF S
  <2>1. HashSize \div S \in Nat /\ HashSize = S * (HashSize \div S) + (HashSize % S)
    BY <1>1, DivMod, Zenon
  <2> QED BY <1>1, <2>1 DEF S
<1>3. d # 0
  BY <1>1, <1>2
<1> HIDE DEF d, S, h
<1>4. x \in Nat /\ h % d \in 0..(d - 1) /\ h = d * x + (h % d)
  BY <1>1, <1>2, <1>3, DivMod, Zenon
<1> HIDE DEF x
<1>5. x < S
  <2>1. SUFFICES ASSUME S <= x PROVE FALSE
    BY <1>1, <1>4
  <2>2. d * S <= d * x /\ d * x \in Nat
    BY <1>1, <1>2, <1>4, <2>1, Times, Zenon
  <2> QED BY <1>1, <1>2, <1>4, <2>2
<1>6. x % S = x
  BY <1>1, <1>4, <1>5, DivUnique, x = S * 0 + x, x \in 0..(S - 1)
<1>7. Index(v, k) = x % S
  BY Zenon DEF Index, x, S, d, h
<1> QED BY <1>2, <1>3, <1>4, <1>5, <1>6, <1>7, Zenon DEF x, d, S, h

(* Facts about order and intervals, for where the provers need them alone. *)
LEMMA Intervals ==
  /\ \A l, v \in Nat : \A x \in l..v : x < v => l < v
  /\ \A l, c \in Nat : \A h \in 1..c : l >= h => l >= 1
OBVIOUS

(* What is below, at and above the next number.                            *)
LEMMA Successor ==
  ASSUME NEW c \in Nat, NEW x \in Nat
  PROVE  /\ x < c \/ x = c \/ x > c
         /\ x < c => x # c
         /\ x < c + 1 <=> x < c \/ x = c
         /\ x <= c + 1 <=> x <= c \/ x = c + 1
         /\ x <= c <=> x < c \/ x = c
         /\ x > c + 1 => x > c
         /\ c + 1 \in Nat /\ c + 1 > c /\ c <= c + 1 /\ c <= c /\ c + 1 # c
OBVIOUS

(* An interval grows at its upper end...                                   *)
LEMMA IntervalUp ==
  ASSUME NEW l \in Nat, NEW v \in Nat, NEW w \in Nat, v <= w, NEW x \in l..v
  PROVE  x \in l..w
OBVIOUS

(* ... also if it begins with 1...                                         *)
LEMMA FromOneUp ==
  ASSUME NEW v \in Nat, NEW w \in Nat, v <= w, NEW x \in 1..v
  PROVE  x \in 1..w
OBVIOUS

(* ... and at its lower end.                                               *)
LEMMA IntervalDown ==
  ASSUME NEW l \in Nat, NEW h \in Nat, NEW w \in Nat, l >= h, NEW x \in l..w
  PROVE  x \in h..w /\ h >= h
OBVIOUS

(* A version that is not the last has one after it.                        *)
LEMMA VersionAfter ==
  ASSUME NEW l \in Nat, NEW v \in Nat, l >= 1, l < v, v <= MaxVersion
  PROVE  l \in Version /\ l + 1 \in Version /\ l + 1 <= v /\ l < MaxVersion
BY Constants

(* A version that may grow has a next one.                                 *)
LEMMA VersionAdded ==
  ASSUME NEW c \in Nat, NEW v \in Nat, c \in 1..v, v < MaxVersion
  PROVE  v + 1 \in Version /\ v + 1 \in Nat /\ v <= v + 1 /\ c \in 1..(v + 1)
BY Constants

(* The buckets of a version are numbered from 0.                           *)
LEMMA NodeOf ==
  /\ \A v \in Version : \A j \in Nat : j < Size[v] => <<v, j>> \in Node
  /\ \A n \in Node : n[1] \in Version /\ n[2] \in Nat /\ n[2] < Size[n[1]] /\ n = <<n[1], n[2]>>
<1>1. ASSUME NEW v \in Version, NEW j \in Nat, j < Size[v] PROVE <<v, j>> \in Node
  <2>1. j \in 0..(Size[v] - 1)
    BY <1>1, Constants
  <2>2. <<v, j>> \in {v} \X (0..(Size[v] - 1))
    BY <2>1
  <2> QED BY <2>2, Zenon DEF Node
<1>2. ASSUME NEW n \in Node
      PROVE  n[1] \in Version /\ n[2] \in Nat /\ n[2] < Size[n[1]] /\ n = <<n[1], n[2]>>
  <2>1. PICK v \in Version : n \in {v} \X (0..(Size[v] - 1))
    BY Zenon DEF Node
  <2> QED BY <2>1, Constants
<1> QED BY <1>1, <1>2, Zenon

(* The index in the next version has the index in this one as high bits.   *)
LEMMA IndexGrows ==
  ASSUME NEW v \in Version, v < MaxVersion, NEW k \in Key
  PROVE  Index(v + 1, k) \div Grow = Index(v, k)
<1> DEFINE d == HashSize \div Size[v]
           d1 == HashSize \div Size[v + 1]
           h == Hash[k]
<1>1. v + 1 \in Version /\ Size[v + 1] = Grow * Size[v] /\ Size[v] \in Nat \ {0} /\ Grow \in Nat \ {0}
      /\ h \in Nat
  BY Constants, Zenon
<1>2. d \in Nat \ {0} /\ HashSize = Size[v] * d /\ Index(v, k) = h \div d
  BY IndexOf, Zenon
<1>3. d1 \in Nat \ {0} /\ HashSize = Size[v + 1] * d1 /\ Index(v + 1, k) = h \div d1
  BY <1>1, IndexOf, Zenon
<1> HIDE DEF d, d1, h
<1>4. d1 * Grow = d
  <2> DEFINE S == Size[v]
  <2>1. S * d = (Grow * S) * d1
    BY <1>1, <1>2, <1>3, Zenon
  <2>2. (Grow * S) * d1 = S * (d1 * Grow)
    BY <1>1, <1>3
  <2>3. S \in Nat \ {0} /\ d \in Nat /\ d1 * Grow \in Nat
    BY <1>1, <1>2, <1>3, Times, Zenon
  <2> HIDE DEF S
  <2> DEFINE x == d1 * Grow
  <2>4. x \in Nat /\ S * d = S * x
    BY <2>1, <2>2, <2>3, Zenon
  <2> HIDE DEF x
  <2>5. ASSUME d < x PROVE FALSE
    <3>1. S * d + S <= S * x /\ S * d \in Nat
      BY <2>3, <2>4, <2>5, Times, Zenon
    <3> QED BY <2>3, <2>4, <3>1
  <2>6. ASSUME x < d PROVE FALSE
    <3>1. S * x + S <= S * d /\ S * x \in Nat
      BY <2>3, <2>4, <2>6, Times, Zenon
    <3> QED BY <2>3, <2>4, <3>1
  <2>7. x = d
    BY <2>3, <2>4, <2>5, <2>6
  <2> QED BY <2>7, Zenon DEF x
<1>5. (h \div d1) \div Grow = h \div (d1 * Grow)
  BY <1>1, <1>3, DivDiv, ZenonT(60)
<1> QED BY <1>2, <1>3, <1>4, <1>5, Zenon

(* The bucket of a key, and the bucket before it.                          *)
LEMMA HomeOf ==
  ASSUME NEW v \in Version, NEW k \in Key
  PROVE  /\ Home(v, k) \in Node /\ Home(v, k)[1] = v
         /\ v < MaxVersion => Parent(Home(v + 1, k)) = Home(v, k)
<1>1. Index(v, k) \in Nat /\ Index(v, k) < Size[v]
  BY IndexOf, Zenon
<1>2. Home(v, k) \in Node /\ Home(v, k)[1] = v
  BY <1>1, NodeOf, Zenon DEF Home
<1>3. ASSUME v < MaxVersion PROVE Parent(Home(v + 1, k)) = Home(v, k)
  <2>1. Index(v + 1, k) \div Grow = Index(v, k) /\ (v + 1) - 1 = v
    BY <1>3, IndexGrows, Constants
  <2> QED BY <2>1, Zenon DEF Parent, Home
<1> QED BY <1>2, <1>3, Zenon

(* Children and Parent belong together.                                    *)
LEMMA FamilyOf ==
  ASSUME NEW n \in Node
  PROVE  /\ n[1] < MaxVersion => \A m \in Children(n) :
              m \in Node /\ m[1] = n[1] + 1 /\ Parent(m) = n
         /\ n[1] > 1 => Parent(n) \in Node /\ Parent(n)[1] = n[1] - 1 /\ n \in Children(Parent(n))
<1> DEFINE v == n[1]
           x == n[2]
<1>1. v \in Version /\ x \in Nat /\ x < Size[v] /\ n = <<v, x>>
  BY NodeOf, Zenon
<1>2. Grow \in Nat \ {0} /\ v \in Nat \ {0} /\ Size[v] \in Nat \ {0}
  BY <1>1, Constants, Zenon
<1> HIDE DEF v, x
<1>3. ASSUME v < MaxVersion, NEW m \in Children(n)
      PROVE  m \in Node /\ m[1] = v + 1 /\ Parent(m) = n
  <2>1. PICK j \in 0..(Grow - 1) : m = <<v + 1, Grow * x + j>>
    BY <1>1, Zenon DEF Children
  <2>2. v + 1 \in Version /\ Size[v + 1] = Grow * Size[v]
    BY <1>1, <1>3, Constants, Zenon
  <2>3. Grow * x \in Nat /\ Grow * x + Grow <= Grow * Size[v]
    BY <1>1, <1>2, Times, Zenon
  <2>4. Grow * x + j \in Nat /\ Grow * x + j < Grow * Size[v]
    BY <1>2, <2>1, <2>3, Times
  <2>5. (Grow * x + j) \div Grow = x
    <3> DEFINE a == Grow * x + j
    <3>1. a \in Nat /\ a = Grow * x + j
      BY <2>4, Zenon
    <3> HIDE DEF a
    <3>2. a \div Grow = x
      BY <1>1, <1>2, <3>1, DivUnique, Zenon
    <3> QED BY <3>2, Zenon DEF a
  <2>6. m \in Node
    BY <2>1, <2>2, <2>4, NodeOf, Zenon
  <2>7. Parent(m) = <<(v + 1) - 1, (Grow * x + j) \div Grow>>
    BY <2>1, Zenon DEF Parent
  <2> QED BY <1>1, <1>2, <2>1, <2>5, <2>6, <2>7
<1>4. ASSUME v > 1
      PROVE  Parent(n) \in Node /\ Parent(n)[1] = v - 1 /\ n \in Children(Parent(n))
  <2> DEFINE y == x \div Grow
             r == x % Grow
  <2>1. y \in Nat /\ r \in 0..(Grow - 1) /\ x = Grow * y + r
    BY <1>1, <1>2, DivMod, Zenon
  <2>2. Parent(n) = <<v - 1, y>>
    BY <1>1, Zenon DEF Parent
  <2> HIDE DEF y, r
  <2>3. v - 1 \in Version /\ v - 1 < MaxVersion /\ (v - 1) + 1 = v
    BY <1>1, <1>2, <1>4, Constants
  <2>4. Size[v] = Grow * Size[v - 1] /\ Size[v - 1] \in Nat
    BY <2>3, Constants, Zenon
  <2>5. y < Size[v - 1]
    <3>1. SUFFICES ASSUME Size[v - 1] <= y PROVE FALSE
      BY <2>1, <2>4
    <3>2. Grow * Size[v - 1] <= Grow * y /\ Grow * y \in Nat
      BY <1>2, <2>1, <2>4, <3>1, Times, Zenon
    <3> QED BY <1>1, <1>2, <2>1, <2>4, <3>2
  <2>6. Parent(n) \in Node
    BY <2>1, <2>2, <2>3, <2>5, NodeOf, Zenon
  <2>7. n \in Children(Parent(n))
    BY <1>1, <2>1, <2>2, <2>3 DEF Children
  <2> QED BY <2>2, <2>6, <2>7
<1> QED BY <1>3, <1>4, Zenon DEF v

(* copy_bucket looks at the low bits only, which is enough for the keys of *)
(* the bucket it copies.                                                   *)
LEMMA ShareOf ==
  ASSUME NEW n \in Node, n[1] < MaxVersion, NEW m \in Children(n), NEW k \in KeysOf(n)
  PROVE  k \in Share(m) <=> k \in KeysOf(m)
<1> DEFINE v == n[1]
           x == n[2]
           y == Index(v + 1, k)
<1>1. v \in Version /\ x \in Nat /\ n = <<v, x>> /\ v + 1 \in Version /\ Grow \in Nat \ {0}
  BY NodeOf, Constants, Zenon
<1>2. k \in Key /\ Index(v, k) = x
  BY <1>1 DEF KeysOf, Home
<1> HIDE DEF v, x
<1>3. PICK j \in 0..(Grow - 1) : m = <<v + 1, Grow * x + j>>
  BY <1>1, Zenon DEF Children
<1>4. y \in Nat /\ y \div Grow = x
  <2>1. v < MaxVersion
    BY Zenon DEF v
  <2> QED BY <1>1, <1>2, <2>1, IndexGrows, IndexOf, Zenon
<1>5. Grow * x \in Nat
  BY <1>1, Times, Zenon
<1>6. (Grow * x + j) % Grow = j
  <2> DEFINE a == Grow * x + j
  <2>1. a \in Nat /\ a = Grow * x + j
    BY <1>1, <1>5
  <2> HIDE DEF a
  <2>2. a % Grow = j
    BY <1>1, <2>1, DivUnique, Zenon
  <2> QED BY <2>2, Zenon DEF a
<1>7. k \in Share(m) <=> y % Grow = j
  BY <1>2, <1>3, <1>6, Zenon DEF Share
<1>8. k \in KeysOf(m) <=> y = Grow * x + j
  BY <1>2, <1>3, Zenon DEF KeysOf, Home
<1> HIDE DEF y
<1>9. y = Grow * x + (y % Grow)
  BY <1>1, <1>4, DivMod, Zenon
<1>10. y % Grow = j <=> y = Grow * x + j
  BY <1>4, <1>5, <1>6, <1>9, Zenon
<1> QED BY <1>7, <1>8, <1>10, Zenon

(* A version consists of whole blocks.                                     *)
LEMMA BlocksOf ==
  ASSUME NEW v \in Version
  PROVE  /\ NumBlocks(v) \in Nat \ {0} /\ NumBlocks(v) <= Size[v]
         /\ Size[v] = BlockSize[v] * NumBlocks(v)
<1> DEFINE B == BlockSize[v]
           S == Size[v]
           N == S \div B
<1>1. B \in Nat \ {0} /\ S \in Nat \ {0} /\ S % B = 0
  BY Constants, Zenon
<1>2. N = NumBlocks(v)
  BY Zenon DEF NumBlocks
<1> HIDE DEF B, S
<1>3. N \in Nat /\ S = B * N
  <2>1. N \in Nat /\ S = B * N + (S % B)
    BY <1>1, DivMod, Zenon
  <2> HIDE DEF N
  <2>2. B * N \in Nat
    BY <1>1, <2>1, Times, Zenon
  <2> QED BY <1>1, <2>1, <2>2
<1> HIDE DEF N
<1>4. N # 0
  BY <1>1, <1>3
<1>5. N <= S
  <2>1. N * 1 <= N * B
    BY <1>1, <1>3, Times
  <2> QED BY <1>1, <1>3, <2>1
<1> QED BY <1>2, <1>3, <1>4, <1>5, Zenon DEF B, S

(* Every bucket is in one of them.                                         *)
LEMMA BlockOfBucket ==
  ASSUME NEW v \in Version, NEW x \in 0..(Size[v] - 1)
  PROVE  x \div BlockSize[v] \in 0..(NumBlocks(v) - 1)
<1> DEFINE B == BlockSize[v]
           N == NumBlocks(v)
           q == x \div B
           r == x % B
<1>1. B \in Nat \ {0} /\ N \in Nat \ {0} /\ x \in Nat /\ x < B * N
  BY Constants, BlocksOf
<1> HIDE DEF B, N
<1>2. q \in Nat /\ r \in 0..(B - 1) /\ x = B * q + r
  BY <1>1, DivMod, Zenon
<1> HIDE DEF q, r
<1>3. q < N
  <2>1. SUFFICES ASSUME N <= q PROVE FALSE
    BY <1>1, <1>2
  <2>2. B * N <= B * q /\ B * q \in Nat /\ B * N \in Nat
    BY <1>1, <1>2, <2>1, Times, Zenon
  <2> QED BY <1>1, <1>2, <2>2
<1> QED BY <1>1, <1>2, <1>3 DEF q, B, N

(* Where a block starts.                                                   *)
LEMMA BlockStart ==
  ASSUME NEW v \in Version, NEW j \in 0..(NumBlocks(v) - 1)
  PROVE  /\ j * BlockSize[v] \in 0..(Size[v] - 1)
         /\ (j * BlockSize[v]) \div BlockSize[v] = j
         /\ \A x \in Nat : x \div BlockSize[v] = j => j * BlockSize[v] <= x
<1> DEFINE B == BlockSize[v]
           N == NumBlocks(v)
           a == j * B
<1>1. B \in Nat \ {0} /\ N \in Nat \ {0} /\ j \in Nat /\ j < N /\ Size[v] = B * N
  BY Constants, BlocksOf
<1> HIDE DEF B, N
<1>2. a \in Nat /\ a = B * j + 0
  BY <1>1
<1>3. B * j + B <= B * N /\ B * N \in Nat
  BY <1>1, Times, Zenon
<1> HIDE DEF a
<1>4. a \in Nat /\ a < B * N
  BY <1>1, <1>2, <1>3, Times
<1>5. a \div B = j
  BY <1>1, <1>2, DivUnique
<1>6. ASSUME NEW x \in Nat, x \div B = j PROVE a <= x
  <2>1. x = B * j + (x % B) /\ x % B \in 0..(B - 1)
    BY <1>1, <1>6, DivMod, Zenon
  <2> QED BY <1>1, <1>2, <2>1
<1>7. a \in 0..(Size[v] - 1)
  BY <1>1, <1>3, <1>4
<1> QED BY <1>5, <1>6, <1>7, Zenon DEF a, B

(* Where it ends.                                                          *)
LEMMA BlockEnd ==
  ASSUME NEW v \in Version, NEW x \in 0..(Size[v] - 1)
  PROVE  /\ (x + 1) % BlockSize[v] = 0 =>
              \A y \in Nat : y \div BlockSize[v] = x \div BlockSize[v] => y <= x
         /\ (x + 1) % BlockSize[v] # 0 => /\ x + 1 \in 0..(Size[v] - 1)
                                          /\ (x + 1) \div BlockSize[v] = x \div BlockSize[v]
<1> DEFINE B == BlockSize[v]
           N == NumBlocks(v)
           q == x \div B
           r == x % B
           z == x + 1
<1>1. B \in Nat \ {0} /\ N \in Nat \ {0} /\ x \in Nat /\ x < B * N /\ Size[v] = B * N
  BY Constants, BlocksOf
<1>2. q \in Nat /\ q < N
  BY <1>1, BlockOfBucket
<1> HIDE DEF B, N
<1>3. r \in 0..(B - 1) /\ x = B * q + r
  BY <1>1, DivMod, Zenon
<1> HIDE DEF q, r
<1>4. B * q \in Nat /\ B * q + B <= B * N /\ B * N \in Nat
  BY <1>1, <1>2, Times, Zenon
<1>5. z \in Nat /\ z = B * q + (r + 1)
  BY <1>1, <1>3, <1>4
<1> HIDE DEF z
<1>6. CASE r + 1 = B
  <2>1. ASSUME NEW y \in Nat, y \div B = q PROVE y <= x
    <3>1. y = B * q + (y % B) /\ y % B \in 0..(B - 1)
      BY <1>1, <2>1, DivMod, Zenon
    <3> QED BY <1>3, <1>4, <1>6, <3>1
  <2>2. z % B = 0
    <3>1. z = B * (q + 1) + 0 /\ q + 1 \in Nat /\ 0 \in 0..(B - 1)
      BY <1>1, <1>2, <1>5, <1>6
    <3> QED BY <1>1, <1>5, <3>1, DivUnique, Zenon
  <2> QED BY <2>1, <2>2, Zenon DEF z, q, B
<1>7. CASE r + 1 # B
  <2>1. r + 1 \in 0..(B - 1) /\ r + 1 # 0
    BY <1>1, <1>3, <1>7
  <2>2. z % B = r + 1 /\ z \div B = q
    BY <1>1, <1>2, <1>5, <2>1, DivUnique, Zenon
  <2>3. z \in 0..(Size[v] - 1)
    BY <1>1, <1>4, <1>5, <2>1
  <2> QED BY <2>1, <2>2, <2>3, Zenon DEF z, q, B
<1> QED BY <1>6, <1>7, Zenon

(* copy_if_needed sets up the blocks of the next version by this.          *)
LEMMA BlockBefore ==
  ASSUME NEW v \in Version, v < MaxVersion, NEW j \in 0..(NumBlocks(v + 1) - 1)
  PROVE  j \div Grow \in 0..(NumBlocks(v) - 1)
<1> DEFINE B == BlockSize[v]
           B1 == BlockSize[v + 1]
           N == NumBlocks(v)
           N1 == NumBlocks(v + 1)
           G == Grow
           S == Size[v]
           S1 == Size[v + 1]
           q == j \div G
<1>1. v + 1 \in Version
  BY Constants, Zenon
<1>2. B \in Nat \ {0} /\ N \in Nat \ {0} /\ S = B * N
  BY Constants, BlocksOf, Zenon
<1>3. B1 \in Nat \ {0} /\ N1 \in Nat \ {0} /\ S1 = B1 * N1
  BY <1>1, Constants, BlocksOf, Zenon
<1>4. G \in Nat \ {0} /\ S1 = G * S /\ B <= B1 /\ j \in Nat /\ j < N1
  BY <1>1, <1>3, Constants
<1> HIDE DEF B, B1, N, N1, G, S, S1
<1>5. N1 <= G * N
  <2>1. SUFFICES ASSUME G * N < N1 PROVE FALSE
    BY <1>2, <1>3, <1>4, Times
  <2>2. G * N \in Nat
    BY <1>2, <1>4, Times, Zenon
  <2>3. B1 * (G * N) + B1 <= B1 * N1
    BY <1>3, <2>1, <2>2, Times, Zenon
  <2>4. (G * N) * B <= (G * N) * B1 /\ (G * N) * B \in Nat
    BY <1>2, <1>3, <1>4, <2>2, Times, Zenon
  <2>5. G * (B * N) = (G * N) * B /\ B1 * (G * N) = (G * N) * B1
    BY <1>2, <1>3, <1>4
  <2> DEFINE X == (G * N) * B
             Y == (G * N) * B1
  <2>6. X \in Nat /\ Y \in Nat /\ X <= Y /\ Y + B1 <= X
    BY <1>2, <1>3, <1>4, <2>2, <2>3, <2>4, <2>5, Times, Zenon
  <2> HIDE DEF X, Y
  <2> QED BY <1>3, <2>6
<1>6. q \in Nat /\ j % G \in 0..(G - 1) /\ j = G * q + (j % G)
  BY <1>4, DivMod, Zenon
<1> HIDE DEF q
<1>7. q < N
  <2>1. SUFFICES ASSUME N <= q PROVE FALSE
    BY <1>2, <1>6
  <2>2. G * N <= G * q /\ G * q \in Nat /\ G * N \in Nat
    BY <1>2, <1>4, <1>6, <2>1, Times, Zenon
  <2> QED BY <1>3, <1>4, <1>5, <1>6, <2>2
<1> QED BY <1>2, <1>6, <1>7 DEF q, G, N

-----------------------------------------------------------------------------
(***************************************************************************)
(* What the steps have in common.                                          *)
(***************************************************************************)
(* The versions there are.                                                 *)
LEMMA TypeFacts ==
  ASSUME Types
  PROVE  /\ current \in Version /\ versions \in Version /\ current <= versions
         /\ current \in Nat /\ versions \in Nat /\ MaxVersion \in Nat /\ versions <= MaxVersion
         /\ current < versions => current + 1 \in Version /\ current < MaxVersion
BY Constants DEF Types

(* A marker leads on to a version that exists.                             *)
LEMMA MarkerLeadsOn ==
  ASSUME Types, Shape, Blocks, NEW n \in Node, bucket[n] = Forwarded
  PROVE  n[1] < versions /\ n[1] < MaxVersion /\ n[1] <= current
<1>1. n[1] \in Version /\ n[1] \in Nat /\ n[2] \in 0..(Size[n[1]] - 1) /\ n = <<n[1], n[2]>>
  BY NodeOf, Constants
<1>2. n[1] <= current
  BY <1>1, TypeFacts DEF Shape
<1>3. ASSUME n[1] = current PROVE current # versions
  <2>1. InBlock(n[2]) \in CurrentBlock /\ n[2] \in CurrentIndex
    BY <1>1, <1>3, TypeFacts, BlockOfBucket, Zenon DEF InBlock, CurrentBlock, CurrentIndex
  <2> QED BY <1>1, <1>3, <2>1, Zenon DEF Blocks
<1> QED BY <1>1, <1>2, <1>3, TypeFacts

(* The buckets and blocks of the current version.                          *)
LEMMA BlockIndices ==
  ASSUME Types
  PROVE  /\ Size[current] \in Nat \ {0} /\ CurrentBlock \subseteq 0..(Size[current] - 1)
         /\ \A j \in CurrentIndex : InBlock(j) \in CurrentBlock /\ <<current, j>> \in Node /\ j \in Nat
         /\ current < MaxVersion => \A j \in 0..(NumBlocks(current + 1) - 1) :
              j \div Grow \in CurrentBlock /\ j \in 0..(Size[current + 1] - 1)
<1>1. current \in Version /\ current \in Nat
  BY TypeFacts, Zenon
<1>2. /\ NumBlocks(current) \in Nat \ {0} /\ NumBlocks(current) <= Size[current]
      /\ Size[current] \in Nat \ {0}
  BY <1>1, BlocksOf, Constants, Zenon
<1>3. CurrentBlock \subseteq 0..(Size[current] - 1)
  BY <1>2 DEF CurrentBlock
<1>4. ASSUME NEW j \in CurrentIndex
      PROVE  InBlock(j) \in CurrentBlock /\ <<current, j>> \in Node /\ j \in Nat
  <2>1. j \in 0..(Size[current] - 1) /\ j \in Nat /\ j < Size[current]
    BY <1>2 DEF CurrentIndex
  <2>2. j \div BlockSize[current] \in 0..(NumBlocks(current) - 1)
    BY <1>1, <2>1, BlockOfBucket, Zenon
  <2> QED BY <1>1, <2>1, <2>2, NodeOf, Zenon DEF InBlock, CurrentBlock
<1>5. ASSUME current < MaxVersion, NEW j \in 0..(NumBlocks(current + 1) - 1)
      PROVE  j \div Grow \in CurrentBlock /\ j \in 0..(Size[current + 1] - 1)
  <2>1. current + 1 \in Version
    BY <1>1, <1>5, Constants, Zenon
  <2>2. /\ NumBlocks(current + 1) \in Nat \ {0} /\ NumBlocks(current + 1) <= Size[current + 1]
        /\ Size[current + 1] \in Nat \ {0}
    BY <2>1, BlocksOf, Constants, Zenon
  <2>3. j \div Grow \in 0..(NumBlocks(current) - 1)
    BY <1>1, <1>5, BlockBefore, Zenon
  <2> QED BY <2>2, <2>3 DEF CurrentBlock
<1> QED BY <1>2, <1>3, <1>4, <1>5, Zenon

(* Without a new marker, the buckets stay as the statuses say.             *)
LEMMA BucketsStay ==
  ASSUME Types, Shape, Blocks, SameMarkers,
         UNCHANGED <<versions, current, block_status>>
  PROVE  Shape' /\ Blocks'
<1>1. \A n \in Node : bucket[n] = Forwarded => Children(n) \subseteq Node
  BY MarkerLeadsOn, FamilyOf, Zenon
<1>2. Shape'
  BY <1>1, Zenon DEF Shape, SameMarkers
<1>3. \A j \in CurrentIndex : <<current, j>> \in Node
  BY NodeOf, TypeFacts, Constants DEF CurrentIndex
<1>4. Blocks'
  BY <1>3, Zenon DEF Blocks, SameMarkers, CurrentIndex, CurrentBlock, Status, InBlock
<1> QED BY <1>2, <1>4, Zenon

(* Copiers and counts stay right while markers stay.                       *)
LEMMA CopiersStay ==
  ASSUME Types, Shape, Blocks, Copiers, Counts, SameMarkers,
         UNCHANGED <<versions, current, block_status, finished, i>>,
         \A u \in Thread : pc[u] \in CopierLabels \/ pc'[u] \in CopierLabels =>
           /\ ht'[u] = ht[u]
           /\ \/ pc'[u] = pc[u]
              \/ pc[u] = "copysc" /\ pc'[u] = "copyll"
              \/ /\ pc[u] = "copyll" /\ pc'[u] = "copysc"
                 /\ \A m \in Children(Source(u)) : bucket'[m] # None
  PROVE  Copiers' /\ Counts'
<1>1. \A u \in Thread : Copies(u)' => Copies(u) /\ Spot(u)' = Spot(u) /\ ht'[u] = ht[u]
  BY Zenon DEF Copies, Spot, CopierLabels
<1>2. \A j \in CurrentIndex : <<current, j>> \in Node
  BY NodeOf, TypeFacts, Constants DEF CurrentIndex
<1>3. ASSUME NEW u \in Thread, Copies(u)'
      PROVE  /\ ht'[u] = current' /\ current' < versions'
             /\ (Spot(u) \in CurrentIndex)'
             /\ (Status(InBlock(Spot(u))) = "Working")'
             /\ \A j \in CurrentIndex' : InBlock(j)' = InBlock(Spot(u))' =>
                  (bucket'[<<current', j>>] = Forwarded <=> j < i'[u])
  BY <1>1, <1>2, <1>3 DEF Copiers, CurrentIndex, Status, InBlock, SameMarkers
<1>4. \A t, u \in Thread : Copies(t)' /\ Copies(u)' /\ InBlock(Spot(t))' = InBlock(Spot(u))' => t = u
  BY <1>1, Zenon DEF Copiers, InBlock
<1>5. \A t \in Thread : pc'[t] = "copied" => i'[t] % BlockSize[current'] = 0
  BY Zenon DEF Copiers, CopierLabels
<1>6. ASSUME NEW t \in Thread, pc'[t] = "copysc", NEW m \in Children(Source(t))'
      PROVE  bucket'[m] # None
  <2>1. ht'[t] = ht[t] /\ m \in Children(Source(t))
    BY <1>6, Zenon DEF CopierLabels, Source, Children
  <2>2. CASE pc[t] = "copysc"
    <3>1. bucket[m] # None /\ Copies(t)
      BY <2>1, <2>2, Zenon DEF Copiers, Copies
    <3>2. Source(t) \in Node /\ Source(t)[1] < MaxVersion
      BY <1>2, <2>2, <3>1, TypeFacts, Zenon DEF Copiers, Source, Spot
    <3>3. m \in Node
      BY <2>1, <3>2, FamilyOf, Zenon
    <3> QED BY <3>1, <3>3, Zenon DEF SameMarkers
  <2> QED BY <1>6, <2>1, <2>2, Zenon DEF CopierLabels
<1>7. Copiers'
  BY <1>3, <1>4, <1>5, <1>6, Zenon DEF Copiers
<1>8. Counting' = Counting /\ DoneBlocks' = DoneBlocks
  BY Zenon DEF Counting, CopierLabels, DoneBlocks, CurrentBlock, Status
<1>9. Counts'
  BY <1>8, Zenon DEF Counts, CopierLabels
<1> QED BY <1>7, <1>9, Zenon

(* A bucket that can be reached stays so.                                  *)
LEMMA LiveWithMarkers ==
  ASSUME Types, SameMarkers, UNCHANGED current
  PROVE  \A n : Live(n) => Live(n)'
<1>1. SUFFICES ASSUME NEW n, Live(n) PROVE Live(n)'
  BY Zenon
<1>2. n \in Node /\ bucket'[n] # None
  BY <1>1, Zenon DEF Live, SameMarkers
<1>3. n[1] > 1 => Parent(n) \in Node
  BY <1>2, FamilyOf, Zenon
<1> QED BY <1>1, <1>2, <1>3, TypeFacts, Constants, NodeOf DEF Live, SameMarkers

(* A step of another thread that takes nothing away from u.                *)
LEMMA OthersStay ==
  ASSUME Types, NEW u \in Thread, Position(u), NotOf(u),
         current' \in Nat, current <= current', versions' \in Nat, versions <= versions',
         \A n : Live(n) => Live(n)',
         \A n \in Node : bucket[n] = Forwarded => bucket'[n] = Forwarded
  PROVE  Position(u)'
<1> USE DEF NotOf
<1>1. op(u)' = op(u) /\ key(u)' = key(u)
  BY Zenon DEF op, key
<1>2. current \in Nat /\ versions \in Nat /\ b[u] \in Node \cup {None}
  BY TypeFacts, Zenon DEF Types
<1>3. pc'[u] # "idle" => ht'[u] \in 1..current' /\ (op(u)' \in Walks <=> pc'[u] \in WalkLabels)
  BY <1>1, <1>2 DEF Position
<1>4. pc'[u] # "idle" /\ op(u)' \notin Walks =>
        /\ b'[u] # None /\ b'[u][1] \in lev'[u]..versions' /\ lev'[u] >= ht'[u]
        /\ b'[u] = Home(b'[u][1], key(u)')
  BY <1>1, <1>2 DEF Position, Types
<1>5. \A n \in todo'[u] \cup ({b'[u]} \ {None}) : Live(n)'
  BY Zenon DEF Position
<1>6. s'[u].fwd => pc'[u] \in CopyLabels \cup {"check"} /\ bucket'[b'[u]] = Forwarded
  <2>1. s[u].fwd => b[u] # None
    BY <1>2, Zenon DEF Position, CopyLabels, WalkLabels, Walks, Updates
  <2> QED BY <1>2, <2>1, Zenon DEF Position
<1>7. tag'[u] /\ pc'[u] \in CopyLabels \cup {"check", "expanded"} => s'[u] = bucket'[b'[u]]
  <2>1. pc[u] \in CopyLabels \cup {"check", "expanded"} => b[u] # None
    BY Zenon DEF Position, CopyLabels, WalkLabels
  <2> QED BY <2>1, Zenon DEF Position
<1>8. tag'[u] /\ pc'[u] = "clearsc" => bucket'[b'[u]] # Forwarded
  BY Zenon DEF Position
<1> QED BY <1>1, <1>3, <1>4, <1>5, <1>6, <1>7, <1>8, Zenon DEF Position

(* A step of t that has nothing to do with copying.                        *)
LEMMA QuietStep ==
  ASSUME Inv, NEW t \in Thread, SameMarkers,
         UNCHANGED <<versions, current, block_status, finished, i>>,
         pc[t] \notin CopierLabels, pc'[t] \notin CopierLabels,
         \A u \in Thread \ {t} : NotOf(u),
         Types', Position(t)'
  PROVE  Inv'
<1> Types /\ Shape /\ Blocks /\ Copiers /\ Counts /\ Positions
  BY Zenon DEF Inv
<1>1. Shape' /\ Blocks'
  BY BucketsStay, Zenon
<1>2. \A u \in Thread : pc[u] \in CopierLabels \/ pc'[u] \in CopierLabels =>
                          pc'[u] = pc[u] /\ ht'[u] = ht[u]
  BY Zenon DEF NotOf
<1>3. Copiers' /\ Counts'
  BY <1>2, CopiersStay, Zenon
<1>4. \A n : Live(n) => Live(n)'
  BY LiveWithMarkers, Zenon
<1>5. \A n \in Node : bucket[n] = Forwarded => bucket'[n] = Forwarded
  BY Zenon DEF SameMarkers
<1>6. current' \in Nat /\ current <= current' /\ versions' \in Nat /\ versions <= versions'
  BY TypeFacts
<1>7. ASSUME NEW u \in Thread, u # t PROVE Position(u)'
  BY <1>4, <1>5, <1>6, <1>7, OthersStay, Zenon DEF Positions
<1>8. Positions'
  BY <1>7, Zenon DEF Positions
<1> QED BY <1>1, <1>3, <1>8, Zenon DEF Inv

(* The buckets a marker stands for can be reached.                         *)
LEMMA ChildrenLive ==
  ASSUME Types, Shape, Blocks, NEW n \in Node, bucket[n] = Forwarded
  PROVE  \A m \in Children(n) : Live(m) /\ m[1] = n[1] + 1
<1>1. n[1] < MaxVersion /\ n[1] <= current /\ n[1] \in Nat /\ current \in Nat
  BY MarkerLeadsOn, TypeFacts, NodeOf, Constants, Zenon
<1>2. ASSUME NEW m \in Children(n) PROVE Live(m) /\ m[1] = n[1] + 1
  <2>1. m \in Node /\ m[1] = n[1] + 1 /\ Parent(m) = n
    BY <1>1, FamilyOf, Zenon
  <2>2. bucket[m] # None
    BY <1>1, <2>1 DEF Shape
  <2> QED BY <1>1, <2>1, <2>2 DEF Live
<1> QED BY <1>2, Zenon

(* ... and so can the bucket of the key in the version after lev[t].       *)
LEMMA NextLive ==
  ASSUME Inv, NEW t \in Thread, pc[t] # "idle", op(t) \notin Walks, bucket[b[t]] = Forwarded
  PROVE  LET n == Home(lev[t] + 1, key(t)) IN
         lev[t] + 1 \in Version /\ lev[t] + 1 <= versions /\ Live(n) /\ n[1] = lev[t] + 1
<1> Types /\ Shape /\ Blocks /\ Copiers /\ Counts /\ Positions
  BY Zenon DEF Inv
<1> DEFINE n == Home(lev[t] + 1, key(t))
           l == lev[t]
<1>1. /\ b[t] \in Node /\ b[t][1] \in l..versions /\ l >= ht[t] /\ ht[t] \in 1..current
      /\ b[t] = Home(b[t][1], key(t)) /\ l \in Nat /\ call[t] \in Call
  <2>1. b[t] \in Node \cup {None} /\ l \in Nat /\ call[t] \in Call \cup {None}
    BY Zenon DEF Types
  <2>2. /\ call[t] # None /\ b[t] # None
        /\ b[t][1] \in l..versions /\ l >= ht[t] /\ ht[t] \in 1..current
        /\ b[t] = Home(b[t][1], key(t))
    BY Zenon DEF Positions, Position
  <2> QED BY <2>1, <2>2, Zenon
<1>2. key(t) \in Key
  BY <1>1, ConstantsAssumption, Zenon DEF key
<1>3. b[t][1] < versions /\ b[t][1] <= current /\ versions <= MaxVersion /\ b[t][1] \in Nat
      /\ current \in Nat /\ versions \in Nat /\ MaxVersion \in Nat
  BY <1>1, MarkerLeadsOn, TypeFacts, NodeOf, Constants, Zenon
<1>4. l \in Version /\ l + 1 \in Version /\ l + 1 <= versions /\ l < MaxVersion
  <2>1. l < versions
    BY <1>1, <1>3, Intervals, Zenon
  <2>2. l >= 1
    BY <1>1, <1>3, Intervals, Zenon
  <2> QED BY <1>1, <1>3, <2>1, <2>2, VersionAfter, Zenon
<1>5. n \in Node /\ n[1] = l + 1 /\ Parent(n) = Home(l, key(t))
  BY <1>2, <1>4, HomeOf, Zenon
<1>6. CASE b[t][1] = l
  <2>1. Parent(n) = b[t]
    BY <1>1, <1>5, <1>6, Zenon
  <2>2. n \in Children(b[t])
    BY <1>4, <1>5, <2>1, FamilyOf, Constants
  <2> QED BY <1>1, <1>4, <1>5, <2>2, ChildrenLive, Zenon
<1>7. CASE b[t][1] > l
  <2>1. n[1] <= current
    BY <1>1, <1>3, <1>5, <1>7
  <2>2. bucket[n] # None
    BY <1>5, <2>1, Zenon DEF Shape
  <2> QED BY <1>4, <1>5, <2>1, <2>2, Zenon DEF Live
<1> QED BY <1>1, <1>3, <1>6, <1>7

(* What a thread that runs a call has in hand.                             *)
LEMMA InCall ==
  ASSUME Inv, NEW t \in Thread, pc[t] # "idle"
  PROVE  /\ call[t] \in Call /\ op(t) \in Updates \cup Walks \cup {"find"} /\ key(t) \in Key
         /\ pc[t] \notin WalkLabels => /\ op(t) \notin Walks /\ b[t] \in Node /\ bucket[b[t]] \in State
                                       /\ bucket[b[t]] # None /\ IsState(bucket[b[t]])
         /\ pc[t] \in {"clearll", "clearsc"} => /\ b[t] \in Node /\ bucket[b[t]] \in State
                                                /\ bucket[b[t]] # None /\ IsState(bucket[b[t]])
<1> Types /\ Shape /\ Blocks /\ Copiers /\ Counts /\ Positions
  BY Zenon DEF Inv
<1>1. call[t] \in Call /\ b[t] \in Node \cup {None}
  BY DEF Types, Positions, Position
<1>2. op(t) \in Updates \cup Walks \cup {"find"} /\ key(t) \in Key
  BY <1>1, ConstantsAssumption, Zenon DEF op, key
<1>3. b[t] # None => bucket[b[t]] # None /\ IsState(bucket[b[t]]) /\ bucket[b[t]] \in State
  BY <1>1, Zenon DEF Positions, Position, Live, Types, IsState
<1>4. pc[t] \notin WalkLabels => op(t) \notin Walks /\ b[t] # None
  BY Zenon DEF Positions, Position
<1>5. pc[t] \in {"clearll", "clearsc"} => b[t] # None
  BY Zenon DEF Positions, Position
<1> QED BY <1>1, <1>2, <1>3, <1>4, <1>5, Zenon

(* A marker is a state, and no entry is in it.                             *)
LEMMA NoEntriesState ==
  /\ IsState(Empty) /\ IsState(Forwarded) /\ Empty \in State /\ Forwarded \in State
  /\ ~Empty.fwd /\ Forwarded.fwd /\ Empty # Forwarded /\ Empty # None /\ Forwarded # None
  /\ EntrySet(Empty) = {} /\ EntrySet(Forwarded) = {} /\ Distinct(Empty) /\ Distinct(Forwarded)
<1>1. /\ Empty.fwd = FALSE /\ Empty.buf = <<>> /\ Empty.list = <<>>
      /\ Forwarded.fwd = TRUE /\ Forwarded.buf = <<>> /\ Forwarded.list = <<>>
  BY Zenon DEF Empty, Forwarded
<1>2. Empty \in State /\ Forwarded \in State
  <2>1. <<>> \in Seq(Item)
    OBVIOUS
  <2> QED BY <2>1, Zenon DEF State, States, Item, Empty, Forwarded
<1>3. WellFormed(Empty) /\ WellFormed(Forwarded)
  BY <1>1, BufferSizeAssumption DEF WellFormed, Overfull
<1>4. DOMAIN Entries(Empty) = {} /\ DOMAIN Entries(Forwarded) = {}
  BY <1>1 DEF Entries
<1>5. EntrySet(Empty) = {} /\ EntrySet(Forwarded) = {} /\ Distinct(Empty) /\ Distinct(Forwarded)
  BY <1>4, Zenon DEF EntrySet, Distinct
<1> QED BY <1>1, <1>2, <1>3, <1>5, Constants, Zenon DEF IsState

(* A step that leaves the table alone keeps what can be reached.           *)
LEMMA TableStays ==
  ASSUME Inv, UNCHANGED table
  PROVE  /\ SameMarkers /\ UNCHANGED <<bucket, versions, current, block_status, finished>>
         /\ \A n : Live(n) => Live(n)'
         /\ versions \in Nat /\ current \in 1..versions
<1> Types /\ Shape /\ Blocks /\ Copiers /\ Counts /\ Positions
  BY Zenon DEF Inv
<1> QED BY TypeFacts, Zenon DEF SameMarkers, table, Live, Types

(* A step of t, in a call that is no walk, to another place at its bucket. *)
LEMMA MovesOn ==
  ASSUME Inv, NEW t \in Thread, pc[t] # "idle", pc[t] \notin WalkLabels,
         \A n : Live(n) => Live(n)',
         current' \in Nat, current <= current', versions' \in Nat, versions <= versions',
         call'[t] = call[t], ht'[t] = ht[t], b'[t] = b[t], todo'[t] = todo[t],
         lev'[t] = lev[t] \/ lev'[t] = ht[t],
         pc'[t] # "idle", pc'[t] \notin WalkLabels,
         pc'[t] \in CopyLabels \cup {"expanded"} => op(t) \in Updates,
         pc'[t] = "load" => op(t) = "find",
         s'[t].fwd => pc'[t] \in CopyLabels \cup {"check"} /\ bucket'[b[t]] = Forwarded,
         tag'[t] /\ pc'[t] \in CopyLabels \cup {"check", "expanded"} => s'[t] = bucket'[b[t]]
  PROVE  Position(t)'
<1> Types /\ Shape /\ Blocks /\ Copiers /\ Counts /\ Positions
  BY Zenon DEF Inv
<1>1. op(t)' = op(t) /\ key(t)' = key(t)
  BY Zenon DEF op, key
<1>2. /\ call[t] # None /\ ht[t] \in 1..current /\ op(t) \notin Walks /\ b[t] # None
      /\ b[t][1] \in lev[t]..versions /\ lev[t] >= ht[t] /\ b[t] = Home(b[t][1], key(t))
      /\ \A n \in todo[t] \cup ({b[t]} \ {None}) : Live(n)
  BY Zenon DEF Positions, Position
<1>3. lev[t] \in Nat /\ ht[t] \in Nat /\ current \in Nat /\ versions \in Nat
  BY TypeFacts, Zenon DEF Types
<1>4. b[t][1] \in lev'[t]..versions' /\ lev'[t] >= ht[t] /\ ht[t] \in 1..current'
  <2> DEFINE v == b[t][1]
  <2>1. v \in lev[t]..versions /\ lev[t] >= ht[t] /\ ht[t] \in 1..current
    BY <1>2, Zenon
  <2> HIDE DEF v
  <2>2. v \in lev[t]..versions'
    BY <1>3, <2>1, IntervalUp, Zenon
  <2>3. ht[t] \in 1..current'
    BY <1>3, <2>1, FromOneUp, Zenon
  <2>4. v \in ht[t]..versions' /\ ht[t] >= ht[t]
    BY <1>3, <2>1, <2>2, IntervalDown, Zenon
  <2> QED BY <2>1, <2>2, <2>3, <2>4, Zenon DEF v
<1>5. \A n \in todo'[t] \cup ({b'[t]} \ {None}) : Live(n)'
  BY <1>2, Zenon
<1> QED BY <1>1, <1>2, <1>4, <1>5, Zenon DEF Position, WalkLabels

(* A step of a walk.                                                       *)
LEMMA WalksOn ==
  ASSUME Inv, NEW t \in Thread, pc[t] \in WalkLabels, UNCHANGED <<current, call, ht, lev, s>>,
         pc'[t] \in WalkLabels, pc'[t] \in {"clearll", "clearsc"} => op(t) = "clear" /\ b'[t] # None,
         tag'[t] /\ pc'[t] = "clearsc" => bucket'[b'[t]] # Forwarded,
         \A m \in todo'[t] \cup ({b'[t]} \ {None}) : Live(m),
         \A m : Live(m) => Live(m)'
  PROVE  Position(t)'
<1> Types /\ Shape /\ Blocks /\ Copiers /\ Counts /\ Positions
  BY Zenon DEF Inv
<1>1. op(t)' = op(t)
  BY Zenon DEF op
<1>2. /\ call[t] # None /\ ht[t] \in 1..current /\ op(t) \in Walks /\ lev[t] = 0 /\ ~s[t].fwd
  BY Zenon DEF Positions, Position, WalkLabels, CopyLabels
<1>3. \A m \in todo'[t] \cup ({b'[t]} \ {None}) : Live(m)'
  BY Zenon
<1> QED BY <1>1, <1>2, <1>3, Zenon DEF Position, CopyLabels, WalkLabels

(* The two branches of for_each_bucket_rec and clear_bucket_rec.           *)
LEMMA TodoLive ==
  ASSUME Inv, NEW t \in Thread, NEW n \in todo[t],
         \/ bucket[n].fwd /\ todo' = [todo EXCEPT ![t] = (@ \ {n}) \cup Children(n)]
         \/ todo' = [todo EXCEPT ![t] = @ \ {n}]
  PROVE  /\ todo' \in [Thread -> SUBSET Node] /\ \A u \in Thread \ {t} : todo'[u] = todo[u]
         /\ \A m \in todo'[t] : Live(m)
         /\ n \in Node /\ Live(n)
<1> Types /\ Shape /\ Blocks /\ Copiers /\ Counts /\ Positions
  BY Zenon DEF Inv
<1>1. /\ todo \in [Thread -> SUBSET Node] /\ n \in Node /\ Live(n)
      /\ \A m \in todo[t] : Live(m)
  BY Zenon DEF Types, Positions, Position
<1>2. CASE bucket[n].fwd /\ todo' = [todo EXCEPT ![t] = (@ \ {n}) \cup Children(n)]
  <2>1. bucket[n] = Forwarded
    BY <1>1, <1>2, Zenon DEF Types, IsState, Live
  <2>2. \A m \in Children(n) : Live(m) /\ m \in Node
    BY <1>1, <2>1, ChildrenLive, Zenon DEF Live
  <2> QED BY <1>1, <1>2, <2>2, Zenon
<1>3. CASE todo' = [todo EXCEPT ![t] = @ \ {n}]
  BY <1>1, <1>3, Zenon
<1> QED BY <1>2, <1>3, Zenon

(* Lookup returns a value or None.                                         *)
LEMMA LookupType ==
  ASSUME StateFacts, NEW x \in State, NEW k \in Key
  PROVE  Lookup(x, k) \in Val \cup {None} /\ (Lookup(x, k) # None <=> Has(x, k))
<1>1. /\ ~Has(x, k) => Lookup(x, k) = None
      /\ Has(x, k) => \E e \in EntrySet(x) : e.key = k /\ Lookup(x, k) = e.val
      /\ EntrySet(x) \subseteq Item
  BY Zenon DEF StateFacts, EntryFacts
<1> QED BY <1>1, Constants, Zenon DEF Item

(* The state that an update stores has the entries it should.              *)
LEMMA NewStateOf ==
  ASSUME StateFacts, Inv, UpsertsMeetNoMarker, NEW t \in Thread, Ready(t), ~Answered(t), op(t) \in Updates,
         inside[t] \/ ~Overfull(s[t])
  PROVE  /\ IsState(NewState(t)) /\ ~NewState(t).fwd
         /\ Distinct(s[t]) =>
              /\ Distinct(NewState(t))
              /\ EntrySet(NewState(t)) = {x \in EntrySet(s[t]) : x.key # key(t)} \cup NewEntries(t)
         /\ op(t) = "insert" => ~Has(s[t], key(t))
         /\ op(t) = "remove" => Has(s[t], key(t))
<1> Types /\ Shape /\ Blocks /\ Copiers /\ Counts /\ Positions
  BY Zenon DEF Inv
<1> DEFINE st == s[t]
           k == key(t)
<1>1. pc[t] # "idle" /\ pc[t] \in {"check", "expanded"} /\ ~st.fwd
  BY Zenon DEF Ready
<1>2. call[t] \in Call /\ k \in Key
  BY <1>1, InCall, Zenon
<1>3. st \in State /\ WellFormed(st)
  BY Zenon DEF Types, IsState
<1>4. Change[Lookup(st, k)] \in Val /\ call[t].val \in Val
  BY <1>2, <1>3, LookupType, ConstantsAssumption, Zenon
<1> DEFINE new == NewState(t)
           Goal == /\ new \in State /\ WellFormed(new) /\ new.fwd = st.fwd
                   /\ Distinct(st) =>
                        /\ Distinct(new)
                        /\ EntrySet(new) = {x \in EntrySet(st) : x.key # k} \cup NewEntries(t)
<1>5. ~Has(st, k) => {x \in EntrySet(st) : x.key # k} = EntrySet(st)
  BY Zenon DEF Has
<1>6. CASE op(t) = "insert"
  <2> DEFINE e == [key |-> k, val |-> call[t].val]
  <2>1. ~Has(st, k)
    BY <1>6, Zenon DEF Answered
  <2>2. new = AddEntry(st, e) /\ NewEntries(t) = {e} /\ e \in Item /\ e.key = k
    BY <1>2, <1>4, <1>6, Zenon DEF NewState, NewEntries, Item
  <2> HIDE DEF e, st, k, new
  <2>3. Goal
    BY <1>3, <1>5, <2>1, <2>2, Zenon DEF StateFacts, AddEntryFacts
  <2> QED BY <1>1, <1>6, <2>1, <2>3, Zenon DEF IsState, st, k, new
<1>7. CASE op(t) = "remove"
  <2>1. Has(st, k)
    BY <1>7, Zenon DEF Answered
  <2>2. new = RemoveKey(st, k) /\ NewEntries(t) = {}
    BY <1>7, Zenon DEF NewState, NewEntries, Item
  <2> HIDE DEF st, k, new
  <2>3. Goal
    BY <1>2, <1>3, <2>1, <2>2, Zenon DEF StateFacts, RemoveKeyFacts
  <2> QED BY <1>1, <1>7, <2>1, <2>3, Zenon DEF IsState, st, k, new
<1>8. CASE op(t) = "upsert"
  <2> DEFINE e == [key |-> k, val |-> Change[Lookup(st, k)]]
  <2>1. ~out_s[t].fwd
    BY <1>1, <1>8, Zenon DEF UpsertsMeetNoMarker
  <2>2. /\ new = IF ~Has(st, k) THEN AddEntry(st, e) ELSE ReplaceEntry(st, e)
        /\ NewEntries(t) = {e} /\ e \in Item /\ e.key = k
    BY <1>2, <1>4, <1>8, <2>1, Zenon DEF NewState, NewEntries, Item
  <2> HIDE DEF e, st, k, new
  <2>3. CASE ~Has(st, k)
    <3>1. Goal
      BY <1>3, <1>5, <2>2, <2>3, Zenon DEF StateFacts, AddEntryFacts
    <3> QED BY <1>1, <1>8, <3>1, Zenon DEF IsState, st, k, new
  <2>4. CASE Has(st, k)
    <3>1. Goal
      BY <1>3, <2>2, <2>4, Zenon DEF StateFacts, ReplaceEntryFacts
    <3> QED BY <1>1, <1>8, <3>1, Zenon DEF IsState, st, k, new
  <2> QED BY <2>3, <2>4, Zenon
<1> QED BY <1>6, <1>7, <1>8, Zenon DEF Updates

(* Written, where there is no marker before or after.                      *)
LEMMA WriteOf ==
  ASSUME Inv, NEW n \in Node, NEW new, Written(n, new), IsState(new), ~new.fwd,
         bucket[n] # None, bucket[n] # Forwarded
  PROVE  /\ SameMarkers
         /\ bucket' \in [Node -> State \cup {None}]
         /\ \A m \in Node : bucket'[m] # None => IsState(bucket'[m])
         /\ tag' \in [Thread -> BOOLEAN] /\ ctag' \in [Thread -> BOOLEAN]
         /\ \A u \in Thread : tag'[u] => tag[u] /\ (b[u] # None => bucket'[b[u]] = bucket[b[u]])
<1> Types /\ Shape /\ Blocks /\ Copiers /\ Counts /\ Positions
  BY Zenon DEF Inv
<1>1. bucket \in [Node -> State \cup {None}] /\ b \in [Thread -> Node \cup {None}]
      /\ \A m \in Node : bucket[m] # None => IsState(bucket[m])
      /\ tag \in [Thread -> BOOLEAN] /\ ctag \in [Thread -> BOOLEAN]
  BY Zenon DEF Types
<1>2. /\ bucket' = [bucket EXCEPT ![n] = new]
      /\ tag' = [u \in Thread |-> tag[u] /\ b[u] # n]
      /\ ctag' = [u \in Thread |-> ctag[u] /\ Source(u) # n]
  BY Zenon DEF Written
<1>3. new \in State /\ new # None /\ new # Forwarded
  BY NoEntriesState, Constants, Zenon DEF IsState
<1>4. /\ bucket'[n] = new /\ \A m \in Node \ {n} : bucket'[m] = bucket[m]
      /\ bucket' \in [Node -> State \cup {None}]
  BY <1>1, <1>2, <1>3, Zenon
<1>5. SameMarkers
  BY <1>3, <1>4, Zenon DEF SameMarkers
<1>6. tag' \in [Thread -> BOOLEAN] /\ ctag' \in [Thread -> BOOLEAN]
  BY <1>1, <1>2, Zenon
<1>7. \A u \in Thread : tag'[u] => tag[u] /\ (b[u] # None => bucket'[b[u]] = bucket[b[u]])
  BY <1>1, <1>2, <1>4, Zenon
<1> QED BY <1>1, <1>4, <1>5, <1>6, <1>7, Zenon

(* What a thread knows that copies.                                        *)
LEMMA CopierOf ==
  ASSUME Inv, NEW t \in Thread, pc[t] \in {"copyll", "copysc"}
  PROVE  /\ ht[t] = current /\ i[t] \in CurrentIndex /\ Source(t) = <<current, i[t]>>
         /\ Source(t) \in Node /\ bucket[Source(t)] # Forwarded /\ bucket[Source(t)] # None
         /\ bucket[Source(t)] \in State
         /\ current < versions /\ current < MaxVersion /\ current \in Version
         /\ current + 1 \in Version /\ current \in Nat
         /\ Status(InBlock(i[t])) = "Working" /\ InBlock(i[t]) \in CurrentBlock
         /\ \A m \in Children(Source(t)) :
              m \in Node /\ m[1] = current + 1 /\ Parent(m) = Source(t) /\ ~Live(m)
<1> Types /\ Shape /\ Blocks /\ Copiers /\ Counts /\ Positions
  BY Zenon DEF Inv
<1>1. Copies(t) /\ Spot(t) = i[t]
  BY Zenon DEF Copies, Spot
<1>2. /\ ht[t] = current /\ current < versions /\ i[t] \in CurrentIndex
      /\ Status(InBlock(i[t])) = "Working"
      /\ \A j \in CurrentIndex : InBlock(j) = InBlock(i[t]) =>
           (bucket[<<current, j>>] = Forwarded <=> j < i[t])
  BY <1>1, Zenon DEF Copiers
<1>3. current \in Version /\ current + 1 \in Version /\ current < MaxVersion /\ current \in Nat
  BY <1>2, TypeFacts, Zenon
<1>4. Source(t) = <<current, i[t]>>
  BY <1>2, Zenon DEF Source
<1>5. Source(t) \in Node /\ i[t] \in Nat
  BY <1>2, <1>3, <1>4, NodeOf, Constants DEF CurrentIndex
<1>6. bucket[Source(t)] # Forwarded
  BY <1>2, <1>4, <1>5
<1>7. bucket[Source(t)] # None
  BY <1>3, <1>4, <1>5 DEF Shape
<1>8. InBlock(i[t]) \in CurrentBlock
  BY <1>2, <1>3, BlockOfBucket, Zenon DEF InBlock, CurrentBlock, CurrentIndex
<1>9. ASSUME NEW m \in Children(Source(t))
      PROVE  m \in Node /\ m[1] = current + 1 /\ Parent(m) = Source(t) /\ ~Live(m)
  <2>1. m \in Node /\ m[1] = current + 1 /\ Parent(m) = Source(t)
    BY <1>3, <1>4, <1>5, FamilyOf
  <2> QED BY <1>3, <1>6, <2>1 DEF Live
<1>10. bucket[Source(t)] \in State
  BY <1>5, <1>7, Zenon DEF Types
<1> QED BY <1>2, <1>3, <1>4, <1>5, <1>6, <1>7, <1>8, <1>9, <1>10, Zenon
=============================================================================
