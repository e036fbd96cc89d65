-------------------------- MODULE BucketStateProofs -------------------------
(***************************************************************************)
(* What the operations on the state of a bucket do to its entries, for     *)
(* states of any size.  Split is a loop over the entries: what it computes *)
(* is shown by induction over the number of entries, for which the first   *)
(* lemmas are.                                                             *)
(***************************************************************************)
EXTENDS BucketState, Integers, WellFoundedInduction, TLAPS

-----------------------------------------------------------------------------
(***************************************************************************)
(* Induction over the natural numbers, in a form that has sets and         *)
(* functions in place of operators.                                        *)
(***************************************************************************)

(* A set of natural numbers has a least element. *)
LEMMA Least ==
  ASSUME NEW S, S \subseteq Nat, S # {}
  PROVE  \E m \in S : \A n \in S : m <= n
<1>1. IsWellFoundedOn(OpToRel(<, Nat), Nat)
  BY NatLessThanWellFounded, Zenon
<1>2. PICK m \in S : \A n \in S : ~(<<n, m>> \in OpToRel(<, Nat))
  BY <1>1, WFMin, Zenon
<1>3. \A n \in S : ~(n < m)
  BY <1>2, Zenon DEF OpToRel
<1> QED BY <1>3

(* Induction: a set with 0 and the successors of its elements is all of Nat. *)
LEMMA Induction ==
  ASSUME NEW S, 0 \in S, \A n \in Nat : n \in S => n + 1 \in S
  PROVE  Nat \subseteq S
<1>1. SUFFICES ASSUME Nat \ S # {} PROVE FALSE
  BY Zenon
<1>2. PICK m \in Nat \ S : \A n \in Nat \ S : m <= n
  BY <1>1, Least, Nat \ S \subseteq Nat, Zenon
<1>3. m - 1 \in Nat /\ m - 1 \in S
  BY <1>2
<1> QED BY <1>2, <1>3

(* f starts with a and goes on with g.                                     *)
Follows(f, S, a, g) ==
  f \in [Nat -> S] /\ f[0] = a /\ \A n \in Nat : f[n + 1] = g[<<n + 1, f[n]>>]

(* There is a function that starts with a and goes on with g. *)
LEMMA Recursion ==
  ASSUME NEW S, NEW a \in S, NEW g \in [Nat \X S -> S]
  PROVE  \E f : Follows(f, S, a, g)
<1> DEFINE Upto(n, h) == h[0] = a /\ \A m \in 0..(n - 1) : h[m + 1] = g[<<m + 1, h[m]>>]
           T == {n \in Nat : \E h \in [0..n -> S] : Upto(n, h)}
<1>1. 0 \in T
  <2> DEFINE h0 == [m \in 0..0 |-> a]
  <2>1. h0 \in [0..0 -> S] /\ Upto(0, h0)
    OBVIOUS
  <2>2. \E x \in [0..0 -> S] : Upto(0, x)
    BY <2>1, Zenon
  <2> QED BY <2>2, Zenon
<1>2. ASSUME NEW n \in Nat, n \in T PROVE n + 1 \in T
  <2>1. PICK h \in [0..n -> S] : Upto(n, h)
    BY <1>2, Zenon
  <2> DEFINE h1 == [m \in 0..(n + 1) |-> IF m = n + 1 THEN g[<<n + 1, h[n]>>] ELSE h[m]]
  <2>2. h1 \in [0..(n + 1) -> S]
    OBVIOUS
  <2>3. Upto(n + 1, h1)
    <3>0. 0 \in 0..(n + 1) /\ n \in 0..(n + 1) /\ n + 1 \in 0..(n + 1) /\ 0 # n + 1 /\ n # n + 1
      OBVIOUS
    <3>1. h1[0] = h[0] /\ h1[n] = h[n] /\ h1[n + 1] = g[<<n + 1, h[n]>>]
      BY <3>0, Zenon
    <3>2. ASSUME NEW m \in 0..n PROVE h1[m + 1] = g[<<m + 1, h1[m]>>]
      <4>1. CASE m = n
        BY <3>1, <4>1, Zenon
      <4>2. CASE m # n
        <5>1. m \in 0..(n - 1) /\ m + 1 \in 0..(n + 1) /\ m \in 0..(n + 1) /\ m + 1 # n + 1
          BY <4>2
        <5>2. h1[m + 1] = h[m + 1] /\ h1[m] = h[m]
          BY <5>1, <4>2
        <5> QED BY <5>1, <5>2, <2>1, Zenon
      <4> QED BY <4>1, <4>2, Zenon
    <3>3. (n + 1) - 1 = n
      OBVIOUS
    <3> HIDE DEF h1
    <3> QED BY <3>1, <3>2, <3>3, <2>1, Zenon
  <2>4. \E x \in [0..(n + 1) -> S] : Upto(n + 1, x)
    BY <2>2, <2>3, Zenon
  <2> QED BY <2>4
<1>3. Nat \subseteq T
  <2> HIDE DEF T
  <2> QED BY <1>1, <1>2, Induction, Zenon
<1>4. ASSUME NEW n \in Nat, NEW x \in [0..n -> S], NEW m \in Nat, m >= n, NEW y \in [0..m -> S],
             Upto(n, x), Upto(m, y)
      PROVE  \A l \in 0..n : x[l] = y[l]
  <2> DEFINE U == {l \in Nat : l \in 0..n => x[l] = y[l]}
  <2>1. 0 \in U
    BY <1>4, Zenon
  <2>2. ASSUME NEW l \in Nat, l \in U PROVE l + 1 \in U
    <3>1. ASSUME l + 1 \in 0..n PROVE x[l + 1] = y[l + 1]
      <4>1. l \in 0..(n - 1) /\ l \in 0..(m - 1) /\ x[l] = y[l]
        BY <2>2, <3>1, <1>4
      <4> QED BY <4>1, <1>4, Zenon
    <3> QED BY <3>1
  <2>3. Nat \subseteq U
    <3> HIDE DEF U
    <3> QED BY <2>1, <2>2, Induction, Zenon
  <2> QED BY <2>3
<1> DEFINE H(n) == CHOOSE h \in [0..n -> S] : Upto(n, h)
           f == [n \in Nat |-> H(n)[n]]
<1>5. ASSUME NEW n \in Nat PROVE H(n) \in [0..n -> S] /\ Upto(n, H(n))
  <2>1. \E h \in [0..n -> S] : Upto(n, h)
    BY <1>3, Zenon
  <2> HIDE DEF Upto
  <2> QED BY <2>1, Zenon
<1>6. f \in [Nat -> S]
  <2> HIDE DEF H
  <2> QED BY <1>5
<1>7. f[0] = a
  <2> HIDE DEF H
  <2> QED BY <1>5, Zenon
<1>8. ASSUME NEW n \in Nat PROVE f[n + 1] = g[<<n + 1, f[n]>>]
  <2> HIDE DEF H, Upto
  <2>1. H(n + 1)[n] = H(n)[n]
    <3>1. n + 1 \in Nat /\ n + 1 >= n /\ n \in 0..n
      OBVIOUS
    <3>2. H(n) \in [0..n -> S] /\ Upto(n, H(n))
      BY <1>5, Zenon
    <3>3. H(n + 1) \in [0..(n + 1) -> S] /\ Upto(n + 1, H(n + 1))
      BY <3>1, <1>5, Zenon
    <3>4. \A l \in 0..n : H(n)[l] = H(n + 1)[l]
      BY <3>1, <3>2, <3>3, <1>4, Zenon
    <3> QED BY <3>1, <3>4, Zenon
  <2>2. H(n + 1)[n + 1] = g[<<n + 1, H(n + 1)[n]>>]
    <3>1. n + 1 \in Nat /\ n \in 0..((n + 1) - 1)
      OBVIOUS
    <3>2. Upto(n + 1, H(n + 1))
      BY <3>1, <1>5, Zenon
    <3> QED BY <3>1, <3>2, Zenon DEF Upto
  <2> QED BY <2>1, <2>2
<1> HIDE DEF f
<1> QED BY <1>6, <1>7, <1>8, Zenon DEF Follows

-----------------------------------------------------------------------------
(***************************************************************************)
(* The entries of a state.                                                 *)
(***************************************************************************)

(* Concatenation.                                                          *)
LEMMA ConcatOf ==
  ASSUME NEW E, NEW p \in Seq(E), NEW q \in Seq(E)
  PROVE  /\ p \o q \in Seq(E) /\ Len(p \o q) = Len(p) + Len(q)
         /\ DOMAIN (p \o q) = 1..(Len(p) + Len(q))
         /\ \A j \in 1..Len(p) : (p \o q)[j] = p[j]
         /\ \A j \in 1..Len(q) : (p \o q)[Len(p) + j] = q[j]
         /\ \A j \in 1..(Len(p) + Len(q)) : j > Len(p) =>
              j - Len(p) \in 1..Len(q) /\ (p \o q)[j] = q[j - Len(p)]
<1>1. Len(p) \in Nat /\ Len(q) \in Nat
  OBVIOUS
<1>2. p \o q \in Seq(E) /\ Len(p \o q) = Len(p) + Len(q) /\ DOMAIN (p \o q) = 1..(Len(p) + Len(q))
  OBVIOUS
<1>3. ASSUME NEW j \in 1..Len(p) PROVE (p \o q)[j] = p[j]
  OBVIOUS
<1>4. ASSUME NEW j \in 1..Len(q) PROVE (p \o q)[Len(p) + j] = q[j]
  OBVIOUS
<1>5. ASSUME NEW j \in 1..(Len(p) + Len(q)), j > Len(p)
      PROVE  j - Len(p) \in 1..Len(q) /\ (p \o q)[j] = q[j - Len(p)]
  BY <1>1, <1>5
<1> QED BY <1>2, <1>3, <1>4, <1>5, Zenon

(* for_each_in_state goes through the buffer and then through the list.    *)
LEMMA EntriesOf ==
  ASSUME NEW E, NEW s \in States(E)
  PROVE  /\ Entries(s) \in Seq(E)
         /\ Len(Entries(s)) = Len(s.buf) + Len(s.list)
         /\ DOMAIN Entries(s) = 1..(Len(s.buf) + Len(s.list))
         /\ \A j \in 1..Len(s.buf) : Entries(s)[j] = s.buf[j]
         /\ \A j \in 1..Len(s.list) : Entries(s)[Len(s.buf) + j] = s.list[j]
         /\ \A j \in 1..(Len(s.buf) + Len(s.list)) : j > Len(s.buf) =>
              j - Len(s.buf) \in 1..Len(s.list) /\ Entries(s)[j] = s.list[j - Len(s.buf)]
<1>1. s.buf \in Seq(E) /\ s.list \in Seq(E)
  BY Zenon DEF States
<1>2. Entries(s) = s.buf \o s.list
  BY Zenon DEF Entries
<1> DEFINE Joins(p, q, c) ==
             /\ c \in Seq(E) /\ Len(c) = Len(p) + Len(q)
             /\ DOMAIN c = 1..(Len(p) + Len(q))
             /\ \A j \in 1..Len(p) : c[j] = p[j]
             /\ \A j \in 1..Len(q) : c[Len(p) + j] = q[j]
             /\ \A j \in 1..(Len(p) + Len(q)) : j > Len(p) =>
                  j - Len(p) \in 1..Len(q) /\ c[j] = q[j - Len(p)]
<1>3. ASSUME NEW p \in Seq(E), NEW q \in Seq(E) PROVE Joins(p, q, p \o q)
  BY ConcatOf, Zenon
<1>4. Joins(s.buf, s.list, Entries(s))
  <2> HIDE DEF Joins
  <2> QED BY <1>1, <1>2, <1>3, Zenon
<1> QED BY <1>4, Zenon

(* An empty state, and a forwarded one, has no entry.                      *)
LEMMA NoEntries ==
  ASSUME NEW E
  PROVE  /\ Empty \in States(E) /\ WellFormed(Empty) /\ EntrySet(Empty) = {} /\ ~Empty.fwd
         /\ Forwarded \in States(E) /\ WellFormed(Forwarded) /\ EntrySet(Forwarded) = {}
         /\ Forwarded.fwd /\ Distinct(Empty) /\ Distinct(Forwarded)
<1>1. Empty \in States(E) /\ Forwarded \in States(E)
  <2>1. <<>> \in Seq(E)
    OBVIOUS
  <2> QED BY <2>1, Zenon DEF States, Empty, Forwarded
<1>2. /\ Empty.fwd = FALSE /\ Empty.buf = <<>> /\ Empty.list = <<>>
      /\ Forwarded.fwd = TRUE /\ Forwarded.buf = <<>> /\ Forwarded.list = <<>>
  BY Zenon DEF Empty, Forwarded
<1>3. DOMAIN Entries(Empty) = {} /\ DOMAIN Entries(Forwarded) = {}
  BY <1>2 DEF Entries
<1>4. WellFormed(Empty) /\ WellFormed(Forwarded)
  BY <1>2, BufferSizeAssumption DEF WellFormed, Overfull
<1> QED BY <1>1, <1>2, <1>3, <1>4, Zenon DEF EntrySet, Distinct

(* At finds a key that is there.                                           *)
LEMMA AtOf ==
  ASSUME NEW E, NEW q \in Seq(E), NEW k
  PROVE  /\ (\A j \in 1..Len(q) : q[j].key # k) => At(q, k) = 0
         /\ (\E j \in 1..Len(q) : q[j].key = k) => At(q, k) \in 1..Len(q) /\ q[At(q, k)].key = k
<1> DEFINE I == {j \in 1..Len(q) : q[j].key = k}
           Place(n) == /\ \A j \in 1..Len(q) : q[j].key = k => n > 0 /\ n <= j
                       /\ n > 0 => q[n].key = k
<1>1. Len(q) \in Nat
  OBVIOUS
<1>2. \E n \in 0..Len(q) : Place(n)
  <2>1. CASE I = {}
    BY <1>1, <2>1
  <2>2. CASE I # {}
    <3>1. PICK m \in I : \A n \in I : m <= n
      BY <1>1, <2>2, Least, I \subseteq Nat, Zenon
    <3> QED BY <1>1, <3>1
  <2> QED BY <2>1, <2>2, Zenon
<1>3. At(q, k) \in 0..Len(q) /\ Place(At(q, k))
  <2>1. At(q, k) = CHOOSE n \in 0..Len(q) : Place(n)
    BY Zenon DEF At
  <2> HIDE DEF Place
  <2> QED BY <1>2, <2>1, Zenon
<1> QED BY <1>1, <1>3

(* Lookup returns the value of the entry of a key, None without one.       *)
LEMMA LookupOf ==
  ASSUME NEW E, NEW s \in States(E), NEW k
  PROVE  /\ ~Has(s, k) => Lookup(s, k) = None
         /\ Has(s, k) => \E e \in EntrySet(s) : e.key = k /\ Lookup(s, k) = e.val
         /\ Distinct(s) => \A e \in EntrySet(s) : e.key = k => Lookup(s, k) = e.val
<1> DEFINE q == Entries(s)
<1>1. q \in Seq(E) /\ DOMAIN q = 1..Len(q)
  BY EntriesOf, Zenon
<1>2. Has(s, k) <=> \E j \in 1..Len(q) : q[j].key = k
  BY <1>1, Zenon DEF Has, EntrySet
<1>3. ASSUME ~Has(s, k) PROVE Lookup(s, k) = None
  BY <1>1, <1>2, <1>3, AtOf, Zenon DEF Lookup
<1>4. ASSUME Has(s, k)
      PROVE  At(q, k) \in 1..Len(q) /\ q[At(q, k)].key = k /\ Lookup(s, k) = q[At(q, k)].val
  <2>1. At(q, k) \in 1..Len(q) /\ q[At(q, k)].key = k
    BY <1>1, <1>2, <1>4, AtOf, Zenon
  <2> QED BY <2>1 DEF Lookup
<1>5. ASSUME Has(s, k) PROVE \E e \in EntrySet(s) : e.key = k /\ Lookup(s, k) = e.val
  BY <1>1, <1>4, <1>5, Zenon DEF EntrySet
<1>6. ASSUME Distinct(s), NEW e \in EntrySet(s), e.key = k PROVE Lookup(s, k) = e.val
  <2>1. PICK j \in 1..Len(q) : q[j] = e
    BY <1>1, Zenon DEF EntrySet
  <2>2. Has(s, k)
    BY <2>1, <1>2, <1>6, Zenon
  <2>3. At(q, k) = j
    BY <1>1, <1>4, <1>6, <2>1, <2>2, Zenon DEF Distinct
  <2> QED BY <1>4, <2>1, <2>2, <2>3, Zenon
<1> QED BY <1>3, <1>5, <1>6, Zenon

-----------------------------------------------------------------------------
(***************************************************************************)
(* One operation after the other.                                          *)
(***************************************************************************)

(* AddEntry makes room for the new entry behind the buffer.                *)
LEMMA AddedAt ==
  ASSUME NEW E, NEW s \in States(E), WellFormed(s), NEW e \in E
  PROVE  LET r == AddEntry(s, e) IN
         /\ r \in States(E) /\ WellFormed(r) /\ r.fwd = s.fwd
         /\ Len(Entries(r)) = Len(Entries(s)) + 1
         /\ Len(s.buf) + 1 \in 1..Len(Entries(r))
         /\ \A j \in 1..Len(Entries(r)) :
              /\ j < Len(s.buf) + 1 => j \in 1..Len(Entries(s)) /\ Entries(r)[j] = Entries(s)[j]
              /\ j = Len(s.buf) + 1 => Entries(r)[j] = e
              /\ j > Len(s.buf) + 1 => /\ j - 1 \in 1..Len(Entries(s))
                                       /\ Entries(r)[j] = Entries(s)[j - 1]
<1> DEFINE r == AddEntry(s, e)
           nb == Len(s.buf)
           nl == Len(s.list)
           q == Entries(s)
           q1 == Entries(r)
<1>1. /\ s.buf \in Seq(E) /\ s.list \in Seq(E) /\ s.fwd \in BOOLEAN /\ nb \in Nat /\ nl \in Nat
  BY DEF States
<1>2. /\ Len(q) = nb + nl
      /\ \A j \in 1..nb : q[j] = s.buf[j]
      /\ \A j \in 1..nl : q[nb + j] = s.list[j]
  BY EntriesOf, Zenon
<1>3. CASE nb < BufferSize
  <2>1. s.list = <<>> /\ nl = 0
    BY <1>1, <1>3 DEF WellFormed, Overfull
  <2> DEFINE a == Append(s.buf, e)
  <2>2. r = [s EXCEPT !.buf = a]
    BY <1>3, Zenon DEF AddEntry
  <2>3. /\ r \in States(E) /\ r.buf = a /\ r.list = s.list /\ r.fwd = s.fwd
        /\ Len(r.buf) = nb + 1
    <3>1. a \in Seq(E) /\ Len(a) = nb + 1
      BY <1>1
    <3> HIDE DEF a
    <3> QED BY <1>1, <2>2, <3>1, Zenon DEF States
  <2>4. WellFormed(r)
    BY <1>1, <1>3, <2>1, <2>3, BufferSizeAssumption DEF WellFormed, Overfull
  <2>5. Len(q1) = (nb + 1) + nl /\ \A j \in 1..(nb + 1) : q1[j] = r.buf[j]
    BY <2>3, EntriesOf, Zenon
  <2>6. r.buf[nb + 1] = e /\ \A j \in 1..nb : r.buf[j] = s.buf[j]
    BY <1>1, <2>3
  <2> HIDE DEF nb, nl, q, q1, r
  <2>7. /\ Len(q1) = Len(q) + 1 /\ nb + 1 \in 1..Len(q1)
        /\ \A j \in 1..Len(q1) :
             /\ j < nb + 1 => j \in 1..Len(q) /\ q1[j] = q[j]
             /\ j = nb + 1 => q1[j] = e
             /\ j > nb + 1 => j - 1 \in 1..Len(q) /\ q1[j] = q[j - 1]
    BY <1>1, <1>2, <2>1, <2>5, <2>6
  <2> QED BY <2>3, <2>4, <2>7, Zenon DEF nb, q, q1, r
<1>4. CASE ~(nb < BufferSize)
  <2> DEFINE l == <<e>> \o s.list
  <2>1. nb = BufferSize
    BY <1>1, <1>4, BufferSizeAssumption DEF WellFormed
  <2>2. /\ l \in Seq(E) /\ Len(l) = nl + 1 /\ l[1] = e
        /\ \A j \in 1..nl : l[1 + j] = s.list[j]
    BY <1>1
  <2>3. r = [s EXCEPT !.list = l]
    BY <1>4, Zenon DEF AddEntry
  <2> HIDE DEF l
  <2>4. r \in States(E) /\ r.buf = s.buf /\ r.list = l /\ r.fwd = s.fwd
    BY <1>1, <2>2, <2>3, Zenon DEF States
  <2>5. WellFormed(r)
    BY <1>1, <2>1, <2>4, BufferSizeAssumption, Zenon DEF WellFormed
  <2>6. /\ Len(q1) = nb + Len(l)
        /\ \A j \in 1..nb : q1[j] = s.buf[j]
        /\ \A j \in 1..Len(l) : q1[nb + j] = l[j]
    <3>1. /\ Len(q1) = Len(r.buf) + Len(r.list)
          /\ \A j \in 1..Len(r.buf) : q1[j] = r.buf[j]
          /\ \A j \in 1..Len(r.list) : q1[Len(r.buf) + j] = r.list[j]
      <4> HIDE DEF r
      <4> QED BY <2>4, EntriesOf, Zenon
    <3> QED BY <2>4, <3>1, Zenon
  <2> HIDE DEF nb, nl, q, q1, r
  <2>7. Len(q) \in Nat /\ Len(q1) = Len(q) + 1 /\ nb + 1 \in 1..Len(q1)
    BY <1>1, <1>2, <2>2, <2>6
  <2>8. ASSUME NEW j \in 1..Len(q1), j < nb + 1 PROVE j \in 1..Len(q) /\ q1[j] = q[j]
    <3>1. j \in 1..nb /\ j \in 1..Len(q)
      BY <1>1, <1>2, <2>7, <2>8
    <3> QED BY <1>2, <2>6, <3>1, Zenon
  <2>9. q1[nb + 1] = e
    BY <1>1, <2>2, <2>6
  <2>10. ASSUME NEW j \in 1..Len(q1), j > nb + 1
         PROVE  j - 1 \in 1..Len(q) /\ q1[j] = q[j - 1]
    <3>1. PICK m \in 1..nl : j - 1 = nb + m /\ j = nb + (1 + m)
      <4>1. (j - 1) - nb \in 1..nl /\ j - 1 = nb + ((j - 1) - nb) /\ j = nb + (1 + ((j - 1) - nb))
        BY <1>1, <1>2, <2>7, <2>10
      <4> QED BY <4>1, Zenon
    <3>2. q1[nb + (1 + m)] = l[1 + m] /\ l[1 + m] = s.list[m]
      BY <1>1, <2>2, <2>6, 1 + m \in 1..Len(l), Zenon
    <3>3. q[nb + m] = s.list[m] /\ nb + m \in 1..Len(q)
      BY <1>1, <1>2
    <3> QED BY <3>1, <3>2, <3>3, Zenon
  <2> QED BY <2>4, <2>5, <2>7, <2>8, <2>9, <2>10, Zenon DEF nb, q, q1, r
<1> QED BY <1>3, <1>4, Zenon

(* AddEntry adds the entry, and no key has two if the key is new.          *)
LEMMA AddEntryAdds ==
  ASSUME NEW E, NEW s \in States(E), WellFormed(s), NEW e \in E
  PROVE  LET r == AddEntry(s, e) IN
         /\ r \in States(E) /\ WellFormed(r) /\ r.fwd = s.fwd
         /\ EntrySet(r) = EntrySet(s) \cup {e}
         /\ Distinct(s) /\ ~Has(s, e.key) => Distinct(r)
<1> DEFINE r == AddEntry(s, e)
           p == Len(s.buf) + 1
           q == Entries(s)
           q1 == Entries(r)
<1>1. /\ r \in States(E) /\ WellFormed(r) /\ r.fwd = s.fwd
      /\ Len(q1) = Len(q) + 1 /\ p \in 1..Len(q1)
      /\ \A j \in 1..Len(q1) :
           /\ j < p => j \in 1..Len(q) /\ q1[j] = q[j]
           /\ j = p => q1[j] = e
           /\ j > p => j - 1 \in 1..Len(q) /\ q1[j] = q[j - 1]
  BY AddedAt
<1>2. /\ Len(q) \in Nat /\ DOMAIN q = 1..Len(q) /\ DOMAIN q1 = 1..Len(q1)
  <2>1. q \in Seq(E) /\ q1 \in Seq(E)
    BY <1>1, EntriesOf, Zenon
  <2> QED BY <2>1
<1>3. p \in Nat
  BY <1>1, <1>2
<1> HIDE DEF r, p, q, q1
<1>4. {q1[j] : j \in DOMAIN q1} = {q[j] : j \in DOMAIN q} \cup {e}
  <2>1. ASSUME NEW j \in DOMAIN q1 PROVE q1[j] \in {q[m] : m \in DOMAIN q} \cup {e}
    BY <1>1, <1>2, <1>3
  <2>2. e \in {q1[j] : j \in DOMAIN q1}
    BY <1>1, <1>2, Zenon
  <2>3. ASSUME NEW j \in DOMAIN q PROVE q[j] \in {q1[m] : m \in DOMAIN q1}
    <3>1. CASE j < p
      BY <1>1, <1>2, <1>3, <3>1
    <3>2. CASE ~(j < p)
      <4>1. j + 1 \in 1..Len(q1) /\ j + 1 > p /\ (j + 1) - 1 = j
        BY <1>1, <1>2, <1>3, <3>2
      <4> QED BY <1>1, <1>2, <4>1, Zenon
    <3> QED BY <3>1, <3>2, Zenon
  <2> QED BY <2>1, <2>2, <2>3, Zenon
<1>5. EntrySet(r) = EntrySet(s) \cup {e}
  BY <1>4, Zenon DEF EntrySet, q, q1
<1>6. ASSUME Distinct(s), ~Has(s, e.key), NEW j \in DOMAIN q1, NEW m \in DOMAIN q1,
             q1[j].key = q1[m].key
      PROVE  j = m
  <2>1. \A x, y \in DOMAIN q : q[x].key = q[y].key => x = y
    BY <1>6, Zenon DEF Distinct, q
  <2>2. \A x \in DOMAIN q : q[x].key # e.key
    BY <1>6, Zenon DEF Has, EntrySet, q
  <2>3. CASE j = p
    <3>1. q1[j].key = e.key
      BY <1>1, <1>2, <2>3, Zenon
    <3>2. ASSUME m # p PROVE \E x \in DOMAIN q : q1[m] = q[x]
      <4>1. m < p \/ m > p
        BY <1>2, <1>3, <3>2
      <4> QED BY <1>1, <1>2, <4>1, Zenon
    <3> QED BY <1>6, <2>2, <2>3, <3>1, <3>2, Zenon
  <2>4. CASE m = p
    <3>1. q1[m].key = e.key
      BY <1>1, <1>2, <2>4, Zenon
    <3>2. ASSUME j # p PROVE \E x \in DOMAIN q : q1[j] = q[x]
      <4>1. j < p \/ j > p
        BY <1>2, <1>3, <3>2
      <4> QED BY <1>1, <1>2, <4>1, Zenon
    <3> QED BY <1>6, <2>2, <2>4, <3>1, <3>2, Zenon
  <2>5. CASE j < p /\ m < p
    BY <1>1, <1>2, <1>3, <1>6, <2>1, <2>5
  <2>6. CASE j < p /\ m > p
    BY <1>1, <1>2, <1>3, <1>6, <2>1, <2>6
  <2>7. CASE j > p /\ m < p
    BY <1>1, <1>2, <1>3, <1>6, <2>1, <2>7
  <2>8. CASE j > p /\ m > p
    <3>1. j - 1 \in DOMAIN q /\ m - 1 \in DOMAIN q /\ q[j - 1].key = q[m - 1].key
      BY <1>1, <1>2, <1>6, <2>8, Zenon
    <3>2. j - 1 = m - 1 /\ j \in Int /\ m \in Int
      BY <1>2, <2>1, <3>1
    <3> QED BY <3>2
  <2> QED BY <1>2, <1>3, <2>3, <2>4, <2>5, <2>6, <2>7, <2>8
<1>7. Distinct(s) /\ ~Has(s, e.key) => Distinct(r)
  BY <1>6, Zenon DEF Distinct, q1
<1> QED BY <1>1, <1>5, <1>7, Zenon DEF r

(* ReplaceEntry puts the new entry where the old one is.                   *)
LEMMA ReplaceEntryReplaces ==
  ASSUME NEW E, NEW s \in States(E), WellFormed(s), NEW e \in E, Has(s, e.key)
  PROVE  LET r == ReplaceEntry(s, e) IN
         /\ r \in States(E) /\ WellFormed(r) /\ r.fwd = s.fwd
         /\ Distinct(s) => /\ EntrySet(r) = {x \in EntrySet(s) : x.key # e.key} \cup {e}
                           /\ Distinct(r)
<1> DEFINE r == ReplaceEntry(s, e)
           nb == Len(s.buf)
           nl == Len(s.list)
           q == Entries(s)
           q1 == Entries(r)
<1>1. /\ s.buf \in Seq(E) /\ s.list \in Seq(E) /\ s.fwd \in BOOLEAN /\ nb \in Nat /\ nl \in Nat
  BY DEF States
<1>2. /\ Len(q) = nb + nl /\ DOMAIN q = 1..(nb + nl)
      /\ \A j \in 1..nb : q[j] = s.buf[j]
      /\ \A j \in 1..nl : q[nb + j] = s.list[j]
      /\ \A j \in 1..(nb + nl) : j > nb => j - nb \in 1..nl /\ q[j] = s.list[j - nb]
  BY EntriesOf, Zenon
<1> DEFINE Replaced(p) ==
             /\ r \in States(E) /\ WellFormed(r) /\ r.fwd = s.fwd
             /\ p \in DOMAIN q /\ q[p].key = e.key /\ DOMAIN q1 = DOMAIN q
             /\ q1[p] = e /\ \A j \in DOMAIN q : j # p => q1[j] = q[j]
<1>3. ASSUME InBuffer(s, e.key) PROVE \E p : Replaced(p)
  <2> DEFINE p == At(s.buf, e.key)
             c == [s.buf EXCEPT ![p] = e]
  <2>1. p \in 1..nb /\ s.buf[p].key = e.key
    BY <1>1, <1>3, AtOf DEF InBuffer
  <2> HIDE DEF p
  <2>2. c \in Seq(E) /\ Len(c) = nb /\ c[p] = e /\ \A j \in 1..nb : j # p => c[j] = s.buf[j]
    BY <1>1, <2>1
  <2>3. r = [s EXCEPT !.buf = c]
    BY <1>3, Zenon DEF ReplaceEntry, p
  <2> HIDE DEF c
  <2>4. r \in States(E) /\ r.buf = c /\ r.list = s.list /\ r.fwd = s.fwd
    BY <1>1, <2>2, <2>3, Zenon DEF States
  <2>5. WellFormed(r)
    BY <2>2, <2>4, Zenon DEF WellFormed, Overfull
  <2>6. /\ DOMAIN q1 = 1..(Len(r.buf) + Len(r.list))
        /\ \A j \in 1..Len(r.buf) : q1[j] = r.buf[j]
        /\ \A j \in 1..(Len(r.buf) + Len(r.list)) : j > Len(r.buf) => q1[j] = r.list[j - Len(r.buf)]
    <3> HIDE DEF r
    <3> QED BY <2>4, EntriesOf, Zenon
  <2>7. /\ DOMAIN q1 = 1..(nb + nl) /\ \A j \in 1..nb : q1[j] = c[j]
        /\ \A j \in 1..(nb + nl) : j > nb => q1[j] = s.list[j - nb]
    BY <2>2, <2>4, <2>6, Zenon
  <2> HIDE DEF q, q1, r, nb, nl
  <2>8. ASSUME NEW j \in DOMAIN q, j # p PROVE q1[j] = q[j]
    <3>1. CASE j \in 1..nb
      BY <1>2, <2>2, <2>7, <2>8, <3>1, Zenon
    <3>2. CASE j > nb
      BY <1>2, <2>7, <2>8, <3>2, Zenon
    <3> QED BY <1>1, <1>2, <3>1, <3>2
  <2>9. p \in DOMAIN q /\ q[p].key = e.key /\ q1[p] = e
    BY <1>1, <1>2, <2>1, <2>2, <2>7
  <2>10. Replaced(p)
    BY <1>2, <2>4, <2>5, <2>7, <2>8, <2>9, Zenon
  <2> QED BY <2>10, Zenon
<1>4. ASSUME ~InBuffer(s, e.key) PROVE \E p : Replaced(p)
  <2> DEFINE o == At(s.list, e.key)
             c == [s.list EXCEPT ![o] = e]
  <2>1. o \in 1..nl /\ s.list[o].key = e.key
    <3>1. PICK j \in DOMAIN q : q[j].key = e.key
      BY Zenon DEF Has, EntrySet
    <3>2. ASSUME j \in 1..nb PROVE FALSE
      <4>1. DOMAIN s.buf = 1..nb
        BY <1>1
      <4>2. q[j] = s.buf[j]
        BY <1>2, <3>2, Zenon
      <4> QED BY <1>4, <3>1, <3>2, <4>1, <4>2, Zenon DEF InBuffer
    <3>3. j - nb \in 1..nl /\ s.list[j - nb].key = e.key
      <4> HIDE DEF nb, nl, q
      <4> QED BY <1>1, <1>2, <3>1, <3>2
    <3> QED BY <1>1, <3>3, AtOf, Zenon
  <2> HIDE DEF o
  <2>2. c \in Seq(E) /\ Len(c) = nl /\ c[o] = e /\ \A j \in 1..nl : j # o => c[j] = s.list[j]
    BY <1>1, <2>1
  <2>3. r = [s EXCEPT !.list = c]
    BY <1>4, Zenon DEF ReplaceEntry, o
  <2> HIDE DEF c
  <2>4. r \in States(E) /\ r.buf = s.buf /\ r.list = c /\ r.fwd = s.fwd
    BY <1>1, <2>2, <2>3, Zenon DEF States
  <2>5. WellFormed(r)
    <3>1. s.list # <<>>
      BY <1>1, <2>1
    <3> QED BY <2>4, <3>1, Zenon DEF WellFormed, Overfull
  <2>6. /\ DOMAIN q1 = 1..(Len(r.buf) + Len(r.list))
        /\ \A j \in 1..Len(r.buf) : q1[j] = r.buf[j]
        /\ \A j \in 1..(Len(r.buf) + Len(r.list)) : j > Len(r.buf) => q1[j] = r.list[j - Len(r.buf)]
    <3> HIDE DEF r
    <3> QED BY <2>4, EntriesOf, Zenon
  <2>7. /\ DOMAIN q1 = 1..(nb + nl) /\ \A j \in 1..nb : q1[j] = s.buf[j]
        /\ \A j \in 1..(nb + nl) : j > nb => q1[j] = c[j - nb]
    BY <2>2, <2>4, <2>6, Zenon
  <2> HIDE DEF q, q1, r, nb, nl
  <2>8. ASSUME NEW j \in DOMAIN q, j # nb + o PROVE q1[j] = q[j]
    <3>1. CASE j \in 1..nb
      BY <1>2, <2>7, <3>1, Zenon
    <3>2. CASE j > nb
      <4>1. j \in 1..(nb + nl)
        BY <1>2, <2>8, Zenon
      <4>2. nb \in Nat /\ nl \in Nat /\ o \in 1..nl
        BY <1>1, <2>1, Zenon
      <4>3. j - nb \in 1..nl /\ j - nb # o
        BY <2>8, <3>2, <4>1, <4>2
      <4> QED BY <1>2, <2>2, <2>7, <3>2, <4>1, <4>3, ZenonT(60)
    <3> QED BY <1>1, <1>2, <3>1, <3>2
  <2>9. nb + o \in DOMAIN q /\ q[nb + o].key = e.key /\ q1[nb + o] = e
    <3>1. nb + o \in 1..(nb + nl) /\ nb + o > nb /\ (nb + o) - nb = o
      BY <1>1, <2>1
    <3> QED BY <1>2, <2>1, <2>2, <2>7, <3>1, Zenon
  <2>10. Replaced(nb + o)
    BY <1>2, <2>4, <2>5, <2>7, <2>8, <2>9, Zenon
  <2> QED BY <2>10, Zenon
<1>5. PICK p : Replaced(p)
  BY <1>3, <1>4, Zenon
<1> HIDE DEF q, q1, r, nb, nl
<1>6. ASSUME Distinct(s) PROVE EntrySet(r) = {x \in EntrySet(s) : x.key # e.key} \cup {e}
  <2>1. \A x, y \in DOMAIN q : q[x].key = q[y].key => x = y
    BY <1>6, Zenon DEF Distinct, q
  <2>2. {q1[j] : j \in DOMAIN q1} = {x \in {q[j] : j \in DOMAIN q} : x.key # e.key} \cup {e}
    BY <1>5, <2>1
  <2> QED BY <2>2, Zenon DEF EntrySet, q, q1
<1>7. ASSUME Distinct(s) PROVE Distinct(r)
  <2>1. \A x, y \in DOMAIN q : q[x].key = q[y].key => x = y
    BY <1>7, Zenon DEF Distinct, q
  <2>2. \A x, y \in DOMAIN q1 : q1[x].key = q1[y].key => x = y
    BY <1>5, <2>1
  <2> QED BY <2>2, Zenon DEF Distinct, q1
<1> QED BY <1>5, <1>6, <1>7, Zenon DEF r

(* A sequence without its n-th element.                                    *)
LEMMA WithoutOf ==
  ASSUME NEW E, NEW q \in Seq(E), NEW n \in 1..Len(q)
  PROVE  /\ Without(q, n) \in Seq(E) /\ Len(Without(q, n)) = Len(q) - 1
         /\ \A j \in 1..(Len(q) - 1) : Without(q, n)[j] = IF j < n THEN q[j] ELSE q[j + 1]
<1> DEFINE p1 == SubSeq(q, 1, n - 1)
           p2 == SubSeq(q, n + 1, Len(q))
           N == Len(q)
<1>1. N \in Nat /\ n \in 1..N
  OBVIOUS
<1>2. p1 \in Seq(E) /\ Len(p1) = n - 1 /\ \A j \in 1..(n - 1) : p1[j] = q[j]
  <2>1. 1..(n - 1) \subseteq 1..Len(q)
    BY <1>1
  <2> QED BY <1>1, <2>1
<1>3. p2 \in Seq(E) /\ Len(p2) = N - n /\ \A j \in 1..(N - n) : p2[j] = q[n + j]
  <2>1. \A j \in (n + 1)..N : q[j] \in E
    BY <1>1
  <2>2. p2 \in Seq(E)
    BY <1>1, <2>1
  <2>3. Len(p2) = N - n
    BY <1>1
  <2>4. ASSUME NEW j \in 1..(N - n) PROVE p2[j] = q[n + j]
    <3>1. p2[j] = q[(n + 1) + j - 1] /\ (n + 1) + j - 1 = n + j
      BY <1>1
    <3> QED BY <3>1, Zenon
  <2> QED BY <2>2, <2>3, <2>4, Zenon
<1>4. Without(q, n) = p1 \o p2
  BY Zenon DEF Without
<1> HIDE DEF p1, p2
<1>5. /\ p1 \o p2 \in Seq(E) /\ Len(p1 \o p2) = Len(p1) + Len(p2)
      /\ \A j \in 1..Len(p1) : (p1 \o p2)[j] = p1[j]
      /\ \A j \in 1..(Len(p1) + Len(p2)) : j > Len(p1) =>
           j - Len(p1) \in 1..Len(p2) /\ (p1 \o p2)[j] = p2[j - Len(p1)]
  <2>1. p1 \in Seq(E) /\ p2 \in Seq(E)
    BY <1>2, <1>3, Zenon
  <2> QED BY <2>1, ConcatOf
<1> DEFINE c == p1 \o p2
<1>6. /\ c \in Seq(E) /\ Len(c) = N - 1
      /\ \A j \in 1..(n - 1) : c[j] = q[j]
      /\ \A j \in 1..(N - 1) : j > n - 1 => c[j] = p2[j - (n - 1)]
  <2>1. Len(p1) + Len(p2) = N - 1 /\ Len(p1) = n - 1
    BY <1>1, <1>2, <1>3
  <2> QED BY <1>2, <1>5, <2>1, Zenon
<1> HIDE DEF c, N
<1>7. ASSUME NEW j \in 1..(N - 1) PROVE c[j] = IF j < n THEN q[j] ELSE q[j + 1]
  <2>1. CASE j < n
    BY <1>1, <1>6, <2>1
  <2>2. CASE ~(j < n)
    <3>1. j > n - 1 /\ j - (n - 1) \in 1..(N - n) /\ n + (j - (n - 1)) = j + 1
      BY <1>1, <2>2
    <3> QED BY <1>3, <1>6, <2>2, <3>1, Zenon
  <2> QED BY <2>1, <2>2, Zenon
<1> QED BY <1>4, <1>6, <1>7, Zenon DEF c, N

(* A sequence whose last element takes the place of the n-th.              *)
LEMMA LastToOf ==
  ASSUME NEW E, NEW q \in Seq(E), NEW n \in 1..Len(q)
  PROVE  /\ LastTo(q, n) \in Seq(E) /\ Len(LastTo(q, n)) = Len(q) - 1
         /\ \A j \in 1..(Len(q) - 1) : LastTo(q, n)[j] = IF j = n THEN q[Len(q)] ELSE q[j]
<1> DEFINE N == Len(q)
           c == [q EXCEPT ![n] = q[Len(q)]]
<1>1. N \in Nat /\ N >= 1
  OBVIOUS
<1>2. c \in Seq(E) /\ Len(c) = N /\ \A j \in 1..N : c[j] = IF j = n THEN q[N] ELSE q[j]
  BY <1>1
<1>3. LastTo(q, n) = SubSeq(c, 1, N - 1)
  BY Zenon DEF LastTo
<1> HIDE DEF c, N
<1>4. SubSeq(c, 1, N - 1) \in Seq(E)
  <2>1. \A j \in 1..(N - 1) : c[j] \in E
    BY <1>1, <1>2
  <2> QED BY <1>1, <1>2, <2>1
<1>5. Len(SubSeq(c, 1, N - 1)) = N - 1
  BY <1>1, <1>2
<1>6. ASSUME NEW j \in 1..(N - 1) PROVE SubSeq(c, 1, N - 1)[j] = c[j]
  BY <1>1, <1>2
<1> QED BY <1>1, <1>2, <1>3, <1>4, <1>5, <1>6 DEF N

(* RemoveKey takes the entry of the key away and keeps the others.         *)
LEMMA RemoveKeyRemoves ==
  ASSUME NEW E, NEW s \in States(E), WellFormed(s), NEW k, Has(s, k)
  PROVE  LET r == RemoveKey(s, k) IN
         /\ r \in States(E) /\ WellFormed(r) /\ r.fwd = s.fwd
         /\ Distinct(s) => /\ EntrySet(r) = {x \in EntrySet(s) : x.key # k}
                           /\ Distinct(r)
<1> DEFINE r == RemoveKey(s, k)
           nb == Len(s.buf)
           nl == Len(s.list)
           q == Entries(s)
           q1 == Entries(r)
<1>1. /\ s.buf \in Seq(E) /\ s.list \in Seq(E) /\ s.fwd \in BOOLEAN /\ nb \in Nat /\ nl \in Nat
  BY DEF States
<1>2. /\ DOMAIN q = 1..(nb + nl)
      /\ \A j \in 1..nb : q[j] = s.buf[j]
      /\ \A j \in 1..nl : q[nb + j] = s.list[j]
      /\ \A j \in 1..(nb + nl) : j > nb => j - nb \in 1..nl /\ q[j] = s.list[j - nb]
  BY EntriesOf, Zenon
<1> DEFINE Moves(F, p) ==
             /\ DOMAIN q1 = 1..((nb + nl) - 1)
             /\ p \in DOMAIN q /\ q[p].key = k
             /\ \A j \in DOMAIN q1 : F[j] \in DOMAIN q /\ F[j] # p /\ q1[j] = q[F[j]]
             /\ \A j, m \in DOMAIN q1 : F[j] = F[m] => j = m
             /\ \A n \in DOMAIN q : n # p => \E j \in DOMAIN q1 : F[j] = n
           Removed(p) == /\ r \in States(E) /\ WellFormed(r) /\ r.fwd = s.fwd
                         /\ \E F : Moves(F, p)
<1>3. ASSUME ~InBuffer(s, k) PROVE \E p : Removed(p)
  <2> DEFINE o == At(s.list, k)
             c == Without(s.list, o)
  <2>1. o \in 1..nl /\ s.list[o].key = k
    <3>1. PICK j \in DOMAIN q : q[j].key = k
      BY Zenon DEF Has, EntrySet
    <3>2. ASSUME j \in 1..nb PROVE FALSE
      <4>1. DOMAIN s.buf = 1..nb
        BY <1>1
      <4>2. q[j] = s.buf[j]
        BY <1>2, <3>2, Zenon
      <4> QED BY <1>3, <3>1, <3>2, <4>1, <4>2, Zenon DEF InBuffer
    <3>3. j - nb \in 1..nl /\ s.list[j - nb].key = k
      <4> HIDE DEF nb, nl, q
      <4> QED BY <1>1, <1>2, <3>1, <3>2
    <3> QED BY <1>1, <3>3, AtOf, Zenon
  <2> HIDE DEF o
  <2>2. /\ c \in Seq(E) /\ Len(c) = nl - 1
        /\ \A j \in 1..(nl - 1) : c[j] = IF j < o THEN s.list[j] ELSE s.list[j + 1]
    BY <1>1, <2>1, WithoutOf, Zenon
  <2>3. r = [s EXCEPT !.list = c]
    BY <1>3, Zenon DEF RemoveKey, o
  <2> HIDE DEF c
  <2>4. r \in States(E) /\ r.buf = s.buf /\ r.list = c /\ r.fwd = s.fwd
    BY <1>1, <2>2, <2>3, Zenon DEF States
  <2>5. WellFormed(r)
    <3>1. s.list # <<>>
      BY <1>1, <2>1
    <3> QED BY <2>4, <3>1, Zenon DEF WellFormed, Overfull
  <2>6. /\ DOMAIN q1 = 1..(Len(r.buf) + Len(r.list))
        /\ \A j \in 1..Len(r.buf) : q1[j] = r.buf[j]
        /\ \A j \in 1..(Len(r.buf) + Len(r.list)) : j > Len(r.buf) => q1[j] = r.list[j - Len(r.buf)]
    <3> HIDE DEF r
    <3> QED BY <2>4, EntriesOf, Zenon
  <2> DEFINE F == [j \in 1..((nb + nl) - 1) |-> IF j < nb + o THEN j ELSE j + 1]
  <2>7. /\ DOMAIN q1 = 1..((nb + nl) - 1) /\ \A j \in 1..nb : q1[j] = s.buf[j]
        /\ \A j \in 1..((nb + nl) - 1) : j > nb => q1[j] = c[j - nb]
    <3>1. nb + (nl - 1) = (nb + nl) - 1
      BY <1>1
    <3> QED BY <2>2, <2>4, <2>6, <3>1, Zenon
  <2> HIDE DEF q, q1, r, nb, nl
  <2>8. ASSUME NEW j \in DOMAIN q1 PROVE F[j] \in DOMAIN q /\ F[j] # nb + o /\ q1[j] = q[F[j]]
    <3>1. F[j] = IF j < nb + o THEN j ELSE j + 1
      BY <2>7, Zenon
    <3> HIDE DEF F
    <3>2. CASE j \in 1..nb
      BY <1>1, <1>2, <2>1, <2>7, <3>1, <3>2
    <3>3. CASE j > nb
      <4>1. j - nb \in 1..(nl - 1) /\ q1[j] = c[j - nb]
        BY <1>1, <2>7, <3>3
      <4>2. CASE j < nb + o
        <5>1. j - nb < o /\ F[j] = j /\ j \in 1..(nb + nl)
          BY <1>1, <2>1, <2>7, <3>1, <3>3, <4>2
        <5>2. q[j] = s.list[j - nb]
          BY <1>2, <3>3, <5>1, Zenon
        <5>3. c[j - nb] = s.list[j - nb]
          BY <2>2, <4>1, <5>1, Zenon
        <5>4. j # nb + o /\ j \in DOMAIN q
          BY <1>1, <1>2, <2>1, <4>2, <5>1
        <5> QED BY <4>1, <5>1, <5>2, <5>3, <5>4, Zenon
      <4>3. CASE ~(j < nb + o)
        <5>1. /\ ~(j - nb < o) /\ F[j] = j + 1 /\ j + 1 \in 1..(nb + nl) /\ j + 1 > nb
              /\ (j + 1) - nb = (j - nb) + 1 /\ j + 1 # nb + o
          BY <1>1, <2>1, <2>7, <3>1, <3>3, <4>3
        <5> QED BY <1>2, <2>2, <4>1, <5>1, Zenon
      <4> QED BY <4>2, <4>3, Zenon
    <3> QED BY <1>1, <2>7, <3>2, <3>3
  <2>9. \A j, m \in DOMAIN q1 : F[j] = F[m] => j = m
    BY <1>1, <2>1, <2>7
  <2>10. ASSUME NEW n \in DOMAIN q, n # nb + o PROVE \E j \in DOMAIN q1 : F[j] = n
    <3>0. n \in 1..(nb + nl) /\ n # nb + o /\ nb \in Nat /\ nl \in Nat /\ o \in 1..nl
      BY <1>1, <1>2, <2>1, <2>10, Zenon
    <3>1. CASE n < nb + o
      <4>1. n \in DOMAIN q1 /\ F[n] = n
        BY <1>1, <1>2, <2>1, <2>7, <3>1
      <4> QED BY <4>1, Zenon
    <3>2. CASE n > nb + o
      <4>1. n - 1 \in 1..((nb + nl) - 1) /\ ~(n - 1 < nb + o) /\ (n - 1) + 1 = n
        BY <3>0, <3>2
      <4>2. n - 1 \in DOMAIN q1 /\ F[n - 1] = n
        BY <2>7, <4>1, Zenon
      <4> QED BY <4>2, Zenon
    <3>3. n < nb + o \/ n > nb + o
      BY <3>0
    <3> QED BY <3>1, <3>2, <3>3, Zenon
  <2>11. nb + o \in DOMAIN q /\ q[nb + o].key = k
    BY <1>1, <1>2, <2>1
  <2>12. Moves(F, nb + o)
    <3> HIDE DEF F
    <3> QED BY <2>7, <2>8, <2>9, <2>10, <2>11, Zenon
  <2> HIDE DEF Moves
  <2>13. Removed(nb + o)
    BY <2>4, <2>5, <2>12, Zenon
  <2> QED BY <2>13, Zenon
<1>4. ASSUME InBuffer(s, k), Overfull(s) PROVE \E p : Removed(p)
  <2> DEFINE p == At(s.buf, k)
             c == [s.buf EXCEPT ![p] = Head(s.list)]
             l == Tail(s.list)
  <2>1. p \in 1..nb /\ s.buf[p].key = k
    BY <1>1, <1>4, AtOf DEF InBuffer
  <2> HIDE DEF p
  <2>2. nl >= 1 /\ s.list[1] \in E /\ Head(s.list) = s.list[1]
    BY <1>1, <1>4 DEF Overfull
  <2>3. c \in Seq(E) /\ Len(c) = nb /\ c[p] = s.list[1] /\ \A j \in 1..nb : j # p => c[j] = s.buf[j]
    BY <1>1, <2>1, <2>2
  <2>4. l \in Seq(E) /\ Len(l) = nl - 1 /\ \A j \in 1..(nl - 1) : l[j] = s.list[j + 1]
    BY <1>1, <2>2
  <2>5. r = [s EXCEPT !.buf = c, !.list = l]
    BY <1>4, Zenon DEF RemoveKey, p
  <2> HIDE DEF c, l
  <2>6. r \in States(E) /\ r.buf = c /\ r.list = l /\ r.fwd = s.fwd
    BY <1>1, <2>3, <2>4, <2>5, Zenon DEF States
  <2>7. WellFormed(r)
    BY <1>4, <2>3, <2>6, Zenon DEF WellFormed
  <2>8. /\ DOMAIN q1 = 1..(Len(r.buf) + Len(r.list))
        /\ \A j \in 1..Len(r.buf) : q1[j] = r.buf[j]
        /\ \A j \in 1..(Len(r.buf) + Len(r.list)) : j > Len(r.buf) => q1[j] = r.list[j - Len(r.buf)]
    <3> HIDE DEF r
    <3> QED BY <2>6, EntriesOf, Zenon
  <2> DEFINE F == [j \in 1..((nb + nl) - 1) |-> IF j = p THEN nb + 1 ELSE IF j <= nb THEN j ELSE j + 1]
  <2>9. /\ DOMAIN q1 = 1..((nb + nl) - 1) /\ \A j \in 1..nb : q1[j] = c[j]
        /\ \A j \in 1..((nb + nl) - 1) : j > nb => q1[j] = l[j - nb]
    <3>1. nb + (nl - 1) = (nb + nl) - 1
      BY <1>1
    <3> QED BY <2>3, <2>4, <2>6, <2>8, <3>1, Zenon
  <2> HIDE DEF q, q1, r, nb, nl
  <2>10. ASSUME NEW j \in DOMAIN q1 PROVE F[j] \in DOMAIN q /\ F[j] # p /\ q1[j] = q[F[j]]
    <3>1. F[j] = IF j = p THEN nb + 1 ELSE IF j <= nb THEN j ELSE j + 1
      BY <2>9, Zenon
    <3> HIDE DEF F
    <3>2. CASE j = p
      <4>1. nb + 1 \in DOMAIN q /\ nb + 1 # p /\ q[nb + 1] = s.list[1]
        BY <1>1, <1>2, <2>1, <2>2
      <4> QED BY <2>1, <2>3, <2>9, <3>1, <3>2, <4>1, Zenon
    <3>3. CASE j # p /\ j <= nb
      <4>1. j \in 1..nb /\ j \in 1..(nb + nl) /\ F[j] = j
        BY <1>1, <2>9, <3>1, <3>3
      <4> QED BY <1>2, <2>3, <2>9, <3>3, <4>1
    <3>4. CASE j > nb
      <4>1. /\ j - nb \in 1..(nl - 1) /\ j + 1 \in 1..(nb + nl) /\ j + 1 > nb
            /\ (j + 1) - nb = (j - nb) + 1 /\ F[j] = j + 1 /\ j + 1 # p
        BY <1>1, <2>1, <2>9, <3>1, <3>4
      <4> QED BY <1>2, <2>4, <2>9, <3>4, <4>1
    <3> QED BY <1>1, <2>1, <2>9, <3>2, <3>3, <3>4
  <2>11. \A j, m \in DOMAIN q1 : F[j] = F[m] => j = m
    BY <1>1, <2>1, <2>9
  <2>12. ASSUME NEW n \in DOMAIN q, n # p PROVE \E j \in DOMAIN q1 : F[j] = n
    <3>1. CASE n <= nb
      <4>1. n \in DOMAIN q1 /\ F[n] = n
        BY <1>1, <1>2, <2>2, <2>9, <2>12, <3>1
      <4> QED BY <4>1, Zenon
    <3>2. CASE n = nb + 1
      <4>1. p \in DOMAIN q1 /\ F[p] = n
        BY <1>1, <2>1, <2>2, <2>9, <3>2
      <4> QED BY <4>1, Zenon
    <3>3. CASE n > nb + 1
      <4>1. /\ n - 1 \in 1..((nb + nl) - 1) /\ n - 1 # p /\ ~(n - 1 <= nb)
            /\ (n - 1) + 1 = n
        BY <1>1, <1>2, <2>1, <3>3
      <4>2. n - 1 \in DOMAIN q1 /\ F[n - 1] = n
        BY <2>9, <4>1, Zenon
      <4> QED BY <4>2, Zenon
    <3>4. n <= nb \/ n = nb + 1 \/ n > nb + 1
      BY <1>1, <1>2
    <3> QED BY <3>1, <3>2, <3>3, <3>4, Zenon
  <2>13. p \in DOMAIN q /\ q[p].key = k
    BY <1>1, <1>2, <2>1
  <2>14. Moves(F, p)
    <3> HIDE DEF F
    <3> QED BY <2>9, <2>10, <2>11, <2>12, <2>13, Zenon
  <2> HIDE DEF Moves
  <2>15. Removed(p)
    BY <2>6, <2>7, <2>14, Zenon
  <2> QED BY <2>15, Zenon
<1>5. ASSUME InBuffer(s, k), ~Overfull(s) PROVE \E p : Removed(p)
  <2> DEFINE p == At(s.buf, k)
             c == LastTo(s.buf, p)
  <2>1. p \in 1..nb /\ s.buf[p].key = k
    BY <1>1, <1>5, AtOf DEF InBuffer
  <2> HIDE DEF p
  <2>2. s.list = <<>> /\ nl = 0
    BY <1>1, <1>5, Zenon DEF Overfull
  <2>3. /\ c \in Seq(E) /\ Len(c) = nb - 1
        /\ \A j \in 1..(nb - 1) : c[j] = IF j = p THEN s.buf[nb] ELSE s.buf[j]
    BY <1>1, <2>1, LastToOf, Zenon
  <2>4. r = [s EXCEPT !.buf = c]
    BY <1>5, Zenon DEF RemoveKey, p
  <2> HIDE DEF c
  <2>5. r \in States(E) /\ r.buf = c /\ r.list = s.list /\ r.fwd = s.fwd
    BY <1>1, <2>3, <2>4, Zenon DEF States
  <2>6. WellFormed(r)
    BY <1>1, <1>5, <2>1, <2>3, <2>5, BufferSizeAssumption DEF WellFormed, Overfull
  <2>7. /\ DOMAIN q1 = 1..(Len(r.buf) + Len(r.list))
        /\ \A j \in 1..Len(r.buf) : q1[j] = r.buf[j]
    <3> HIDE DEF r
    <3> QED BY <2>5, EntriesOf, Zenon
  <2> DEFINE F == [j \in 1..((nb + nl) - 1) |-> IF j = p THEN nb ELSE j]
  <2>8. DOMAIN q1 = 1..((nb + nl) - 1) /\ \A j \in 1..(nb - 1) : q1[j] = c[j]
    <3>1. (nb - 1) + nl = (nb + nl) - 1
      BY <1>1
    <3> QED BY <2>3, <2>5, <2>7, <3>1, Zenon
  <2> HIDE DEF q, q1, r, nb, nl
  <2>9. ASSUME NEW j \in DOMAIN q1 PROVE F[j] \in DOMAIN q /\ F[j] # p /\ q1[j] = q[F[j]]
    <3>1. F[j] = (IF j = p THEN nb ELSE j) /\ j \in 1..(nb - 1) /\ q1[j] = c[j]
      BY <1>1, <2>2, <2>8
    <3> HIDE DEF F
    <3>2. /\ q[nb] = s.buf[nb] /\ q[j] = s.buf[j] /\ nb \in DOMAIN q /\ j \in DOMAIN q
          /\ j = p => nb # p
      BY <1>1, <1>2, <2>1, <2>2, <3>1
    <3> QED BY <2>3, <3>1, <3>2, Zenon
  <2>10. \A j, m \in DOMAIN q1 : F[j] = F[m] => j = m
    BY <1>1, <2>1, <2>2, <2>8
  <2>11. ASSUME NEW n \in DOMAIN q, n # p PROVE \E j \in DOMAIN q1 : F[j] = n
    <3>1. CASE n = nb
      <4>1. p \in DOMAIN q1 /\ F[p] = n
        BY <1>1, <2>1, <2>2, <2>8, <2>11, <3>1
      <4> QED BY <4>1, Zenon
    <3>2. CASE n # nb
      <4>1. n \in DOMAIN q1 /\ F[n] = n
        BY <1>1, <1>2, <2>1, <2>2, <2>8, <2>11, <3>2
      <4> QED BY <4>1, Zenon
    <3> QED BY <3>1, <3>2, Zenon
  <2>12. p \in DOMAIN q /\ q[p].key = k
    BY <1>1, <1>2, <2>1
  <2>13. Moves(F, p)
    <3> HIDE DEF F
    <3> QED BY <2>8, <2>9, <2>10, <2>11, <2>12, Zenon
  <2> HIDE DEF Moves
  <2>14. Removed(p)
    BY <2>5, <2>6, <2>13, Zenon
  <2> QED BY <2>14, Zenon
<1>6. PICK p : Removed(p)
  BY <1>3, <1>4, <1>5, Zenon
<1>7. PICK F : Moves(F, p)
  BY <1>6, Zenon
<1> HIDE DEF q, q1, r, nb, nl
<1>8. ASSUME Distinct(s) PROVE EntrySet(r) = {x \in EntrySet(s) : x.key # k}
  <2>1. \A x, y \in DOMAIN q : q[x].key = q[y].key => x = y
    BY <1>8, Zenon DEF Distinct, q
  <2>2. {q1[j] : j \in DOMAIN q1} = {x \in {q[j] : j \in DOMAIN q} : x.key # k}
    <3>1. ASSUME NEW j \in DOMAIN q1 PROVE q1[j] \in {x \in {q[n] : n \in DOMAIN q} : x.key # k}
      BY <1>7, <2>1
    <3>2. ASSUME NEW n \in DOMAIN q, q[n].key # k PROVE q[n] \in {q1[j] : j \in DOMAIN q1}
      <4>1. PICK j \in DOMAIN q1 : F[j] = n
        BY <1>7, <3>2, Zenon
      <4> QED BY <1>7, <4>1
    <3> QED BY <3>1, <3>2, Zenon
  <2> QED BY <2>2, Zenon DEF EntrySet, q, q1
<1>9. ASSUME Distinct(s) PROVE Distinct(r)
  <2>1. \A x, y \in DOMAIN q : q[x].key = q[y].key => x = y
    BY <1>9, Zenon DEF Distinct, q
  <2>2. \A x, y \in DOMAIN q1 : q1[x].key = q1[y].key => x = y
    BY <1>7, <2>1
  <2> QED BY <2>2, Zenon DEF Distinct, q1
<1> QED BY <1>6, <1>8, <1>9, Zenon DEF r

-----------------------------------------------------------------------------
(***************************************************************************)
(* The loop of copy_bucket.                                                *)
(***************************************************************************)

(* The loop has a state after each entry, and Split is the last of them.   *)
LEMMA SplitLoop ==
  ASSUME NEW E, NEW s \in States(E), NEW keys
  PROVE  \E f : /\ f = [j \in 0..Len(Entries(s)) |->
                          IF j = 0 THEN Empty
                          ELSE IF Entries(s)[j].key \in keys
                                 THEN AddEntry(f[j - 1], Entries(s)[j])
                          ELSE f[j - 1]]
                /\ Split(s, keys) = f[Len(Entries(s))]
<1> DEFINE Loop(f) == f = [j \in 0..Len(Entries(s)) |->
                             IF j = 0 THEN Empty
                             ELSE IF Entries(s)[j].key \in keys
                                    THEN AddEntry(f[j - 1], Entries(s)[j])
                             ELSE f[j - 1]]
<1>1. \E f : Loop(f)
  <2> DEFINE S == {x \in States(E) : WellFormed(x)}
             N == Len(Entries(s))
             q == Entries(s)
             g == [p \in Nat \X S |->
                     IF p[1] \in 1..N /\ q[p[1]].key \in keys
                       THEN AddEntry(p[2], q[p[1]]) ELSE p[2]]
  <2>1. N \in Nat /\ \A j \in 1..N : q[j] \in E
    <3>1. q \in Seq(E)
      BY EntriesOf, Zenon
    <3> QED BY <3>1
  <2>2. Empty \in S
    BY NoEntries, Zenon
  <2>3. ASSUME NEW n \in Nat, NEW x \in S
        PROVE  g[<<n, x>>] = (IF n \in 1..N /\ q[n].key \in keys THEN AddEntry(x, q[n]) ELSE x)
    BY Zenon
  <2>4. g \in [Nat \X S -> S]
    <3>1. ASSUME NEW n \in Nat, NEW x \in S, n \in 1..N PROVE AddEntry(x, q[n]) \in S
      BY <2>1, <3>1, AddEntryAdds, Zenon
    <3> HIDE DEF S, N, q
    <3> QED BY <3>1, Zenon
  <2> HIDE DEF S, N, q, g
  <2>5. PICK f : Follows(f, S, Empty, g)
    BY <2>2, <2>4, Recursion, Zenon
  <2> DEFINE f1 == [j \in 0..N |-> f[j]]
  <2>6. ASSUME NEW j \in 0..N
        PROVE  f1[j] = IF j = 0 THEN Empty
                       ELSE IF q[j].key \in keys THEN AddEntry(f1[j - 1], q[j])
                       ELSE f1[j - 1]
    <3>1. CASE j = 0
      BY <2>1, <2>5, <3>1, Zenon DEF Follows
    <3>2. CASE j # 0
      <4>1. j - 1 \in Nat /\ (j - 1) + 1 = j /\ j - 1 \in 0..N /\ j \in 1..N /\ j \in Nat
        BY <2>1, <3>2
      <4>2. f[j] = g[<<j, f[j - 1]>>] /\ f[j - 1] \in S
        BY <2>5, <4>1, Zenon DEF Follows
      <4>3. f1[j] = f[j] /\ f1[j - 1] = f[j - 1]
        BY <4>1, Zenon
      <4> QED BY <2>3, <3>2, <4>1, <4>2, <4>3, Zenon
    <3> QED BY <3>1, <3>2, Zenon
  <2>7. Loop(f1)
    <3>1. f1 = [j \in 0..N |-> f1[j]]
      BY Zenon
    <3> HIDE DEF f1
    <3> QED BY <2>6, <3>1, Zenon DEF N, q
  <2> HIDE DEF Loop
  <2> QED BY <2>7, Zenon
<1>2. Split(s, keys) = (CHOOSE f : Loop(f))[Len(Entries(s))]
  BY Zenon DEF Split
<1> QED BY <1>1, <1>2, Zenon

(* Split copies the entries with these keys, and nothing else.             *)
LEMMA SplitSplits ==
  ASSUME NEW E, NEW s \in States(E), NEW keys
  PROVE  /\ Split(s, keys) \in States(E) /\ WellFormed(Split(s, keys)) /\ ~Split(s, keys).fwd
         /\ EntrySet(Split(s, keys)) = {e \in EntrySet(s) : e.key \in keys}
         /\ Distinct(s) => Distinct(Split(s, keys))
<1> DEFINE q == Entries(s)
           N == Len(Entries(s))
<1>1. N \in Nat /\ DOMAIN q = 1..N /\ \A j \in 1..N : q[j] \in E
  <2>1. q \in Seq(E)
    BY EntriesOf, Zenon
  <2> QED BY <2>1
<1>2. PICK f : /\ f = [j \in 0..N |-> IF j = 0 THEN Empty
                                      ELSE IF q[j].key \in keys THEN AddEntry(f[j - 1], q[j])
                                      ELSE f[j - 1]]
               /\ Split(s, keys) = f[N]
  BY SplitLoop, Zenon
<1> DEFINE Part(n) == {q[j] : j \in {m \in 1..n : q[m].key \in keys}}
           Good(n) == /\ f[n] \in States(E) /\ WellFormed(f[n]) /\ ~f[n].fwd
                      /\ EntrySet(f[n]) = Part(n)
                      /\ Distinct(s) => Distinct(f[n])
           T == {n \in Nat : n <= N => Good(n)}
<1>3. f[0] = Empty
  BY <1>1, <1>2
<1>4. ASSUME NEW n \in Nat, n + 1 <= N
      PROVE  f[n + 1] = IF q[n + 1].key \in keys THEN AddEntry(f[n], q[n + 1]) ELSE f[n]
  <2>1. n + 1 \in 0..N /\ n + 1 # 0 /\ (n + 1) - 1 = n
    BY <1>1, <1>4
  <2> HIDE DEF q, N
  <2> QED BY <1>2, <2>1, Zenon
<1>5. 0 \in T
  <2>1. Part(0) = {}
    OBVIOUS
  <2>2. Good(0)
    BY <1>3, <2>1, NoEntries, Zenon
  <2> QED BY <2>2, Zenon
<1>6. ASSUME NEW n \in Nat, n \in T PROVE n + 1 \in T
  <2> SUFFICES ASSUME n + 1 <= N PROVE Good(n + 1)
    OBVIOUS
  <2> HIDE DEF q, N
  <2>1. n <= N /\ n + 1 \in 1..N
    BY <1>1
  <2>2. Good(n)
    BY <1>6, <2>1, Zenon
  <2>3. CASE q[n + 1].key \in keys
    <3>1. Part(n + 1) = Part(n) \cup {q[n + 1]}
      <4>1. {m \in 1..(n + 1) : q[m].key \in keys} = {m \in 1..n : q[m].key \in keys} \cup {n + 1}
        BY <2>3
      <4> QED BY <4>1, Zenon
    <3>2. ASSUME Distinct(s) PROVE ~Has(f[n], q[n + 1].key)
      <4>1. ASSUME NEW m \in 1..n PROVE q[m].key # q[n + 1].key
        <5>1. m \in 1..N /\ m # n + 1
          BY <1>1, <2>1
        <5> QED BY <1>1, <2>1, <3>2, <5>1, Zenon DEF Distinct, q
      <4> QED BY <2>2, <4>1, Zenon DEF Has
    <3>3. q[n + 1] \in E
      BY <1>1, <2>1, Zenon
    <3>4. f[n + 1] = AddEntry(f[n], q[n + 1])
      BY <1>4, <2>3, Zenon
    <3> HIDE DEF Part
    <3> DEFINE r == AddEntry(f[n], q[n + 1])
    <3>5. /\ r \in States(E) /\ WellFormed(r) /\ r.fwd = f[n].fwd
          /\ EntrySet(r) = EntrySet(f[n]) \cup {q[n + 1]}
          /\ Distinct(f[n]) /\ ~Has(f[n], q[n + 1].key) => Distinct(r)
      BY <2>2, <3>3, AddEntryAdds, Zenon
    <3> QED BY <2>2, <3>1, <3>2, <3>4, <3>5, Zenon
  <2>4. CASE ~(q[n + 1].key \in keys)
    <3>1. Part(n + 1) = Part(n)
      <4>1. {m \in 1..(n + 1) : q[m].key \in keys} = {m \in 1..n : q[m].key \in keys}
        BY <2>4
      <4> QED BY <4>1, Zenon
    <3>2. f[n + 1] = f[n]
      BY <1>4, <2>4, Zenon
    <3> HIDE DEF Part
    <3> QED BY <2>2, <3>1, <3>2, Zenon
  <2> QED BY <2>3, <2>4, Zenon
<1>7. Good(N)
  <2>1. Nat \subseteq T
    <3> HIDE DEF T
    <3> QED BY <1>5, <1>6, Induction, Zenon
  <2> HIDE DEF Good
  <2> QED BY <1>1, <2>1
<1>8. Part(N) = {e \in EntrySet(s) : e.key \in keys}
  BY <1>1, Zenon DEF EntrySet
<1> QED BY <1>2, <1>7, <1>8, Zenon
=============================================================================
