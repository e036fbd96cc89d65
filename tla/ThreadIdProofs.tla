--------------------------- MODULE ThreadIdProofs ---------------------------
(***************************************************************************)
(* Proofs about ThreadIdPool, for any number of threads and ids.           *)
(*                                                                         *)
(* The stack is popped with a compare-and-swap of a bare index.  What      *)
(* makes it right is that only one thread pops at a time: the id it is     *)
(* about to take stays in the stack, with the same id below it, even when  *)
(* others have been pushed on top meanwhile (PopInv).                      *)
(***************************************************************************)
EXTENDS ThreadSpecific, FiniteSetTheorems, TLAPS

(* Only the holder of the mutex is between Load and Pop.                   *)
MutexInv ==
  /\ \A t \in Thread : pc[t] \in {"load", "pop"} => mutex
  /\ \A t, u \in Thread : pc[t] \in {"load", "pop"} /\ pc[u] \in {"load", "pop"} => t = u

(* A live thread has an id.                                                *)
OwnersInv == \A t \in Thread : pc[t] \in {"owns", "push"} => node[t] # Null

(* The id about to be taken is nobody's, and what is below it is known.    *)
PopInv ==
  \A t \in Thread : pc[t] = "pop" =>
    /\ node[t] # Null
    /\ below[t] = next[node[t]]
    /\ \A u \in Thread : node[t] \notin Owned(u)

IdInv == TypeOK /\ MutexInv /\ OwnersInv /\ PopInv /\ UniqueIds /\ NoneLost

-----------------------------------------------------------------------------
(* The top of the stack is a free id, and without one there is none.       *)
LEMMA TopIsFree ==
  ASSUME TypeOK, NoneLost
  PROVE  /\ available_ids # Null => \A u \in Thread : available_ids \notin Owned(u)
         /\ available_ids = Null =>
              \A x \in 0..(num_thread_ids - 1) : \E u \in Thread : x \in Owned(u)
<1>0. PICK n \in 0..MaxIds : \E s \in [1..n -> Id] : IsStack(s, n)
  BY Zenon DEF NoneLost
<1>1. PICK s \in [1..n -> Id] : IsStack(s, n)
  BY <1>0, Zenon
<1>2. CASE n = 0
  <2>1. available_ids = Null
    BY <1>1, <1>2, Zenon DEF IsStack
  <2>2. ~\E i \in 1..n : TRUE
    BY <1>2
  <2>3. ASSUME NEW x \in 0..(num_thread_ids - 1) PROVE \E u \in Thread : x \in Owned(u)
    <3>1. x \in Id /\ x < num_thread_ids
      BY ConstantsAssumption DEF TypeOK, Id
    <3>. QED BY <1>1, <2>2, <3>1, Zenon DEF IsStack
  <2>. QED BY <2>1, <2>3, Zenon
<1>3. CASE n # 0
  <2>1. 1 \in 1..n /\ s[1] \in Id /\ available_ids = s[1]
    BY <1>1, <1>3 DEF IsStack
  <2>2. available_ids # Null
    BY <2>1, ConstantsAssumption DEF Id, Null
  <2>3. \A u \in Thread : available_ids \notin Owned(u)
    BY <1>1, <2>1 DEF IsStack
  <2>. QED BY <2>2, <2>3, Zenon
<1>. QED BY <1>2, <1>3, Zenon

(* Steps that touch neither the stack nor what threads own.                *)
LEMMA StackUntouched ==
  ASSUME NoneLost, UNCHANGED <<available_ids, next, num_thread_ids>>,
         \A t \in Thread : Owned(t)' = Owned(t)
  PROVE  NoneLost'
<1>0. PICK n \in 0..MaxIds : \E s \in [1..n -> Id] : IsStack(s, n)
  BY Zenon DEF NoneLost
<1>1. PICK s \in [1..n -> Id] : IsStack(s, n)
  BY <1>0, Zenon
<1>2. IsStack(s, n)'
  BY <1>1 DEF IsStack
<1>. QED BY <1>2, Zenon DEF NoneLost

(* Pop takes the top off.                                                  *)
LEMMA StackPopped ==
  ASSUME IdInv, NEW t \in Thread, Pop(t)
  PROVE  NoneLost'
<1>0. PICK n \in 0..MaxIds : \E s \in [1..n -> Id] : IsStack(s, n)
  BY Zenon DEF NoneLost, IdInv
<1>1. PICK s \in [1..n -> Id] : IsStack(s, n)
  BY <1>0, Zenon
<1>2. n # 0 /\ s[1] = node[t] /\ s[1] \in Id /\ n \in Nat
  <2>1. available_ids = node[t] /\ node[t] # Null
    BY Zenon DEF IdInv, PopInv, Pop
  <2>2. available_ids = IF n = 0 THEN Null ELSE s[1]
    BY <1>1, Zenon DEF IsStack
  <2>3. n # 0 /\ n \in Nat
    BY <2>1, <2>2, ConstantsAssumption
  <2>. QED BY <2>1, <2>2, <2>3
<1>. DEFINE r == [i \in 1..(n - 1) |-> s[i + 1]]
<1>3. r \in [1..(n - 1) -> Id] /\ n - 1 \in 0..MaxIds
  BY <1>2, ConstantsAssumption
<1>4. /\ Owned(t) = {} /\ Owned(t)' = {node[t]}
      /\ \A u \in Thread \ {t} : Owned(u)' = Owned(u)
  BY Zenon DEF Pop, Goto, Owned, IdInv, TypeOK
<1>5. available_ids' = IF n - 1 = 0 THEN Null ELSE r[1]
  <2>1. available_ids' = next[s[1]]
    BY <1>2, Zenon DEF Pop, IdInv, PopInv
  <2>2. next[s[1]] = IF 1 = n THEN Null ELSE s[2]
    BY <1>1, <1>2 DEF IsStack
  <2>. QED BY <1>2, <2>1, <2>2
<1>6. \A i \in 1..(n - 1) : next'[r[i]] = IF i = n - 1 THEN Null ELSE r[i + 1]
  BY <1>1, <1>2 DEF Pop, IsStack
<1>7. \A i, j \in 1..(n - 1) : r[i] = r[j] => i = j
  BY <1>1, <1>2 DEF IsStack
<1>8. ASSUME NEW x \in Id
      PROVE  (\E i \in 1..(n - 1) : r[i] = x) <=>
               x < num_thread_ids' /\ \A u \in Thread : x \notin Owned(u)'
  <2>1. (\E i \in 1..(n - 1) : r[i] = x) <=> x # s[1] /\ \E i \in 1..n : s[i] = x
    <3>1. ASSUME NEW i \in 1..(n - 1), r[i] = x
          PROVE  x # s[1] /\ \E j \in 1..n : s[j] = x
      BY <1>1, <1>2, <3>1 DEF IsStack
    <3>2. ASSUME NEW j \in 1..n, s[j] = x, x # s[1]
          PROVE  \E i \in 1..(n - 1) : r[i] = x
      <4>1. j - 1 \in 1..(n - 1) /\ r[j - 1] = x
        BY <1>2, <3>2
      <4>. QED BY <4>1, Zenon
    <3>. QED BY <3>1, <3>2, Zenon
  <2>2. (\E i \in 1..n : s[i] = x) <=>
          x < num_thread_ids /\ \A u \in Thread : x \notin Owned(u)
    BY <1>1, Zenon DEF IsStack
  <2>3. num_thread_ids' = num_thread_ids
    BY Zenon DEF Pop
  <2>4. (\A u \in Thread : x \notin Owned(u)') <=>
          x # s[1] /\ \A u \in Thread : x \notin Owned(u)
    BY <1>2, <1>4, Zenon
  <2>. QED BY <2>1, <2>2, <2>3, <2>4, Zenon
<1>9. IsStack(r, n - 1)'
  BY <1>5, <1>6, <1>7, <1>8, Zenon DEF IsStack
<1>. QED BY <1>3, <1>9, Zenon DEF NoneLost

(* The pointer below an id that a thread still owns is its own affair.     *)
LEMMA StackPrepared ==
  ASSUME IdInv, NEW t \in Thread, Die(t) \/ PushFails(t)
  PROVE  NoneLost'
<1>0. PICK n \in 0..MaxIds : \E s \in [1..n -> Id] : IsStack(s, n)
  BY Zenon DEF NoneLost, IdInv
<1>1. PICK s \in [1..n -> Id] : IsStack(s, n)
  BY <1>0, Zenon
<1>2. \A u \in Thread : Owned(u)' = Owned(u)
  BY Zenon DEF Die, PushFails, Goto, Owned, IdInv, TypeOK
<1>3. Owned(t) = {node[t]}
  BY Zenon DEF Die, PushFails, Owned
<1>4. \A i \in 1..n : s[i] \in Id /\ s[i] # node[t]
  BY <1>1, <1>3, Zenon DEF IsStack
<1>5. \A i \in 1..n : next'[s[i]] = next[s[i]]
  BY <1>4, Zenon DEF Die, PushFails, IdInv, TypeOK
<1>6. available_ids' = available_ids /\ num_thread_ids' = num_thread_ids
  BY Zenon DEF Die, PushFails
<1>7. IsStack(s, n)'
  BY <1>1, <1>2, <1>5, <1>6 DEF IsStack
<1>. QED BY <1>7, Zenon DEF NoneLost

(* A new id is not in the stack.                                           *)
LEMMA StackSpared ==
  ASSUME IdInv, NEW t \in Thread, New(t)
  PROVE  NoneLost'
<1>0. PICK n \in 0..MaxIds : \E s \in [1..n -> Id] : IsStack(s, n)
  BY Zenon DEF NoneLost, IdInv
<1>1. PICK s \in [1..n -> Id] : IsStack(s, n)
  BY <1>0, Zenon
<1>2. /\ Owned(t) = {} /\ Owned(t)' = {num_thread_ids}
      /\ \A u \in Thread \ {t} : Owned(u)' = Owned(u)
  BY Zenon DEF New, Goto, Owned, IdInv, TypeOK
<1>3. ASSUME NEW x \in Id
      PROVE  x < num_thread_ids /\ (\A u \in Thread : x \notin Owned(u)) <=>
             x < num_thread_ids' /\ (\A u \in Thread : x \notin Owned(u)')
  <2>1. x \in Int /\ num_thread_ids \in Int /\ num_thread_ids' = num_thread_ids + 1
    BY ConstantsAssumption DEF New, IdInv, TypeOK, Id
  <2>2. (\A u \in Thread : x \notin Owned(u)') <=>
          x # num_thread_ids /\ \A u \in Thread : x \notin Owned(u)
    BY <1>2, Zenon
  <2>3. x < num_thread_ids <=> x < num_thread_ids + 1 /\ x # num_thread_ids
    BY <2>1
  <2>. QED BY <2>1, <2>2, <2>3, Zenon
<1>4. available_ids' = available_ids /\ next' = next
  BY Zenon DEF New
<1>5. IsStack(s, n)'
  BY <1>1, <1>3, <1>4, Zenon DEF IsStack
<1>. QED BY <1>5, Zenon DEF NoneLost

(* Push puts the id on top.                                                *)
LEMMA StackPushed ==
  ASSUME IdInv, NEW t \in Thread, Push(t)
  PROVE  NoneLost'
<1>0. PICK n \in 0..MaxIds : \E s \in [1..n -> Id] : IsStack(s, n)
  BY Zenon DEF NoneLost, IdInv
<1>1. PICK s \in [1..n -> Id] : IsStack(s, n)
  BY <1>0, Zenon
<1>a. PICK top : top = node[t]
  BY Zenon
<1>. DEFINE r == [i \in 1..(n + 1) |-> IF i = 1 THEN top ELSE s[i - 1]]
<1>2. /\ top = node[t]
      /\ node[t] \in 0..(num_thread_ids - 1) /\ node[t] \in Id
      /\ n \in Nat /\ num_thread_ids' = num_thread_ids
  BY <1>a, ConstantsAssumption DEF Push, IdInv, TypeOK, OwnersInv, Id, Null
<1>3. r \in [1..(n + 1) -> Id]
  BY <1>2
<1>4. /\ Owned(t) = {node[t]} /\ Owned(t)' = {}
      /\ \A u \in Thread \ {t} : Owned(u)' = Owned(u) /\ node[t] \notin Owned(u)
  <2>1. Owned(t) = {node[t]} /\ Owned(t)' = {} /\ \A u \in Thread \ {t} : Owned(u)' = Owned(u)
    BY Zenon DEF Push, Goto, Owned, IdInv, TypeOK
  <2>. QED BY <2>1, Zenon DEF IdInv, UniqueIds
<1>5. \A i \in 1..n : s[i] # node[t]
  BY <1>1, <1>2, <1>4, Zenon DEF IsStack
<1>6. available_ids' = IF n + 1 = 0 THEN Null ELSE r[1]
  BY <1>2 DEF Push
<1>7. ASSUME NEW i \in 1..(n + 1)
      PROVE  next'[r[i]] = IF i = n + 1 THEN Null ELSE r[i + 1]
  <2>1. next' = next /\ available_ids = next[node[t]]
    BY Zenon DEF Push
  <2>2. available_ids = IF n = 0 THEN Null ELSE s[1]
    BY <1>1, Zenon DEF IsStack
  <2>3. CASE i = 1
    <3>1. r[i] = node[t]
      BY <1>2, <2>3, Zenon
    <3>2. n # 0 => r[i + 1] = s[1]
      BY <1>2, <2>3
    <3>3. i = n + 1 <=> n = 0
      BY <1>2, <2>3
    <3>. HIDE DEF r
    <3>. QED BY <2>1, <2>2, <3>1, <3>2, <3>3, Zenon
  <2>4. CASE i # 1
    <3>1. i - 1 \in 1..n /\ r[i] = s[i - 1]
      BY <1>2, <2>4
    <3>2. next[s[i - 1]] = IF i - 1 = n THEN Null ELSE s[i - 1 + 1]
      BY <1>1, <3>1, Zenon DEF IsStack
    <3>. QED BY <1>2, <2>1, <2>4, <3>1, <3>2
  <2>. QED BY <2>3, <2>4, Zenon
<1>8. ASSUME NEW i \in 1..(n + 1), NEW j \in 1..(n + 1), r[i] = r[j]
      PROVE  i = j
  <2>1. \A k \in 1..(n + 1) : k # 1 => k - 1 \in 1..n /\ r[k] = s[k - 1] /\ r[k] # r[1]
    BY <1>2, <1>5
  <2>2. CASE i # 1 /\ j # 1
    <3>1. s[i - 1] = s[j - 1] => i - 1 = j - 1
      BY <1>1, <2>1, <2>2, Zenon DEF IsStack
    <3>. QED BY <1>2, <1>8, <2>1, <2>2, <3>1
  <2>. QED BY <1>8, <2>1, <2>2, Zenon
<1>9. ASSUME NEW x \in Id
      PROVE  (\E i \in 1..(n + 1) : r[i] = x) <=>
               x < num_thread_ids' /\ \A u \in Thread : x \notin Owned(u)'
  <2>1. (\E i \in 1..(n + 1) : r[i] = x) <=> x = node[t] \/ \E i \in 1..n : s[i] = x
    <3>1. ASSUME NEW i \in 1..n, s[i] = x PROVE \E j \in 1..(n + 1) : r[j] = x
      <4>1. i + 1 \in 1..(n + 1) /\ r[i + 1] = x
        BY <1>2, <3>1
      <4>. QED BY <4>1, Zenon
    <3>2. 1 \in 1..(n + 1) /\ r[1] = node[t]
      BY <1>2
    <3>3. ASSUME NEW j \in 1..(n + 1), r[j] = x, x # node[t]
          PROVE  \E i \in 1..n : s[i] = x
      <4>1. j - 1 \in 1..n /\ s[j - 1] = x
        BY <1>2, <3>3
      <4>. QED BY <4>1, Zenon
    <3>. QED BY <3>1, <3>2, <3>3, Zenon
  <2>2. (\E i \in 1..n : s[i] = x) <=>
          x < num_thread_ids /\ \A u \in Thread : x \notin Owned(u)
    BY <1>1, Zenon DEF IsStack
  <2>3. x = node[t] => x < num_thread_ids
    BY <1>2 DEF IdInv, TypeOK
  <2>4. (\A u \in Thread : x \notin Owned(u)') <=>
          x = node[t] \/ \A u \in Thread : x \notin Owned(u)
    BY <1>4, Zenon
  <2>. QED BY <1>2, <2>1, <2>2, <2>3, <2>4, Zenon
<1>10. IsStack(r, n + 1)'
  BY <1>6, <1>7, <1>8, <1>9, Zenon DEF IsStack
<1>11. n + 1 \in 0..MaxIds
  <2>1. r \in Injection(1..(n + 1), Id)
    BY <1>3, <1>8, Zenon DEF Injection, IsInjective
  <2>2. IsFiniteSet(Id) /\ Cardinality(Id) = MaxIds
    BY ConstantsAssumption, FS_Interval DEF Id
  <2>3. Cardinality(1..(n + 1)) = n + 1
    BY <1>2, FS_Interval
  <2>. QED BY <1>2, <2>1, <2>2, <2>3, FS_Injection, ConstantsAssumption
<1>. QED BY <1>3, <1>10, <1>11, Zenon DEF NoneLost

-----------------------------------------------------------------------------
(* The invariant holds at the start.                                       *)
LEMMA IdInit == Init => IdInv
<1>. SUFFICES ASSUME Init PROVE IdInv
  BY Zenon
<1>1. TypeOK
  <2>1. Null \in -1..(0 - 1) /\ 0 \in 0..MaxIds
    BY ConstantsAssumption DEF Null
  <2>. QED BY <2>1, Zenon DEF Init, TypeOK
<1>2. MutexInv /\ OwnersInv /\ PopInv /\ UniqueIds
  BY Zenon DEF Init, MutexInv, OwnersInv, PopInv, UniqueIds, Owned
<1>3. NoneLost
  <2>. DEFINE s == [i \in 1..0 |-> 0]
  <2>1. s \in [1..0 -> Id] /\ 0 \in 0..MaxIds
    BY ConstantsAssumption
  <2>2. IsStack(s, 0)
    BY ConstantsAssumption DEF IsStack, Init, Id, Null
  <2>. QED BY <2>1, <2>2, Zenon DEF NoneLost
<1>. QED BY <1>1, <1>2, <1>3, Zenon DEF IdInv

(* Every step of a thread keeps the types...                               *)
LEMMA IdTypes ==
  ASSUME IdInv, NEW t \in Thread,
         \/ Look(t) \/ Lock(t) \/ Load(t) \/ PopFails(t) \/ Pop(t) \/ New(t)
         \/ Die(t) \/ PushFails(t) \/ Push(t)
  PROVE  TypeOK'
<1>0. Null \in -1..(num_thread_ids - 1)
  BY ConstantsAssumption DEF IdInv, TypeOK, Null
<1>1. CASE Look(t) \/ Lock(t)
  BY <1>1, Zenon DEF IdInv, TypeOK, Look, Lock, Goto
<1>2. CASE Load(t) \/ PopFails(t)
  <2>1. available_ids # Null => available_ids \in Id
    BY ConstantsAssumption DEF IdInv, TypeOK, Id, Null
  <2>2. Current(t)
    BY <1>2, Zenon DEF Load, PopFails
  <2>3. below' \in [Thread -> -1..(num_thread_ids - 1)]
    BY <2>1, <2>2, Zenon DEF IdInv, TypeOK, Current
  <2>4. mutex' \in BOOLEAN
    BY <2>2, Zenon DEF IdInv, TypeOK, Current
  <2>5. pc' \in [Thread -> {"none", "lock", "load", "pop", "new", "owns", "push"}]
    BY <2>2, Zenon DEF IdInv, TypeOK, Current, Goto
  <2>. QED BY <2>2, <2>3, <2>4, <2>5, Zenon DEF IdInv, TypeOK, Current
<1>3. CASE Pop(t)
  BY <1>0, <1>3, Zenon DEF IdInv, TypeOK, Pop, Goto
<1>4. CASE New(t)
  BY <1>4, ConstantsAssumption DEF IdInv, TypeOK, New, Goto
<1>5. CASE Die(t) \/ PushFails(t)
  BY <1>5, Zenon DEF IdInv, TypeOK, Die, PushFails, Goto
<1>6. CASE Push(t)
  BY <1>0, <1>6, Zenon DEF IdInv, TypeOK, Push, Goto
<1>. QED BY <1>1, <1>2, <1>3, <1>4, <1>5, <1>6, Zenon

(* ... and the invariant...                                                *)
LEMMA IdStep ==
  ASSUME IdInv, NEW t \in Thread,
         \/ Look(t) \/ Lock(t) \/ Load(t) \/ PopFails(t) \/ Pop(t) \/ New(t)
         \/ Die(t) \/ PushFails(t) \/ Push(t)
  PROVE  IdInv'
<1>0. TypeOK'
  BY IdTypes, Zenon
<1>1. CASE Look(t)
  <2>1. \A u \in Thread : Owned(u)' = Owned(u)
    BY <1>1, Zenon DEF Look, Goto, Owned, IdInv, TypeOK
  <2>2. NoneLost'
    BY <1>1, <2>1, StackUntouched, Zenon DEF Look, IdInv
  <2>3. MutexInv' /\ OwnersInv'
    BY <1>1, Zenon DEF Look, Goto, MutexInv, OwnersInv, IdInv, TypeOK
  <2>4. PopInv' /\ UniqueIds'
    BY <1>1, <2>1 DEF Look, Goto, PopInv, UniqueIds, IdInv, TypeOK
  <2>. QED BY <1>0, <2>2, <2>3, <2>4, Zenon DEF IdInv
<1>2. CASE Lock(t)
  <2>1. \A u \in Thread : Owned(u)' = Owned(u)
    BY <1>2, Zenon DEF Lock, Goto, Owned, IdInv, TypeOK
  <2>2. NoneLost'
    BY <1>2, <2>1, StackUntouched, Zenon DEF Lock, IdInv
  <2>3. MutexInv' /\ OwnersInv'
    BY <1>2, Zenon DEF Lock, Goto, MutexInv, OwnersInv, IdInv, TypeOK
  <2>4. PopInv' /\ UniqueIds'
    BY <1>2, <2>1 DEF Lock, Goto, PopInv, UniqueIds, IdInv, TypeOK
  <2>. QED BY <1>0, <2>2, <2>3, <2>4, Zenon DEF IdInv
<1>3. CASE Load(t) \/ PopFails(t)
  <2>0. pc[t] \in {"load", "pop"} /\ Current(t)
    BY <1>3, Zenon DEF Load, PopFails
  <2>1. \A u \in Thread : Owned(u)' = Owned(u)
    BY <2>0, Zenon DEF Current, Goto, Owned, IdInv, TypeOK
  <2>2. NoneLost'
    BY <2>0, <2>1, StackUntouched, Zenon DEF Current, IdInv
  <2>3. MutexInv' /\ OwnersInv'
    BY <2>0, Zenon DEF Current, Goto, MutexInv, OwnersInv, IdInv, TypeOK
  <2>4. UniqueIds'
    BY <2>1, Zenon DEF UniqueIds, IdInv
  <2>5. PopInv'
    <3>1. available_ids # Null => \A u \in Thread : available_ids \notin Owned(u)
      BY TopIsFree, Zenon DEF IdInv
    <3>2. \A u \in Thread : pc[u]' = "pop" => u = t
      BY <2>0, Zenon DEF Current, Goto, MutexInv, IdInv, TypeOK
    <3>3. pc[t]' = "pop" =>
            /\ available_ids # Null /\ node[t]' = available_ids
            /\ below[t]' = next[available_ids] /\ next' = next
      BY <2>0, Zenon DEF Current, Goto, IdInv, TypeOK
    <3>. QED BY <2>1, <3>1, <3>2, <3>3, Zenon DEF PopInv
  <2>. QED BY <1>0, <2>2, <2>3, <2>4, <2>5, Zenon DEF IdInv
<1>4. CASE Pop(t)
  <2>1. /\ Owned(t)' = {node[t]} /\ \A u \in Thread \ {t} : Owned(u)' = Owned(u)
        /\ \A u \in Thread : node[t] \notin Owned(u)
    BY <1>4, Zenon DEF Pop, Goto, Owned, IdInv, TypeOK, PopInv
  <2>2. NoneLost'
    BY <1>4, StackPopped, Zenon
  <2>3. MutexInv' /\ OwnersInv'
    BY <1>4, Zenon DEF Pop, Goto, MutexInv, OwnersInv, PopInv, IdInv, TypeOK
  <2>4. UniqueIds'
    BY <2>1 DEF UniqueIds, IdInv
  <2>5. PopInv'
    <3>1. \A u \in Thread : pc[u]' # "pop"
      BY <1>4, Zenon DEF Pop, Goto, MutexInv, IdInv, TypeOK
    <3>. QED BY <3>1, Zenon DEF PopInv
  <2>. QED BY <1>0, <2>2, <2>3, <2>4, <2>5, Zenon DEF IdInv
<1>5. CASE New(t)
  <2>1. /\ Owned(t)' = {num_thread_ids} /\ \A u \in Thread \ {t} : Owned(u)' = Owned(u)
        /\ \A u \in Thread : num_thread_ids \notin Owned(u)
    <3>1. \A u \in Thread : node[u] # num_thread_ids
      BY ConstantsAssumption DEF IdInv, TypeOK
    <3>. QED BY <1>5, <3>1, Zenon DEF New, Goto, Owned, IdInv, TypeOK
  <2>2. NoneLost'
    BY <1>5, StackSpared, Zenon
  <2>3. MutexInv' /\ OwnersInv'
    <3>1. num_thread_ids # Null
      BY ConstantsAssumption DEF IdInv, TypeOK, Null
    <3>. QED BY <1>5, <3>1, Zenon DEF New, Goto, MutexInv, OwnersInv, IdInv, TypeOK
  <2>4. UniqueIds'
    BY <2>1 DEF UniqueIds, IdInv
  <2>5. PopInv'
    <3>1. \A u \in Thread : node[u] # num_thread_ids
      BY ConstantsAssumption DEF IdInv, TypeOK
    <3>2. \A u \in Thread : pc[u]' = "pop" =>
            pc[u] = "pop" /\ node[u]' = node[u] /\ below[u]' = below[u] /\ next' = next
      BY <1>5, Zenon DEF New, Goto, IdInv, TypeOK
    <3>. QED BY <2>1, <3>1, <3>2 DEF PopInv, IdInv
  <2>. QED BY <1>0, <2>2, <2>3, <2>4, <2>5, Zenon DEF IdInv
<1>6. CASE Die(t) \/ PushFails(t)
  <2>1. Owned(t) = {node[t]} /\ \A u \in Thread : Owned(u)' = Owned(u)
    BY <1>6, Zenon DEF Die, PushFails, Goto, Owned, IdInv, TypeOK
  <2>2. NoneLost'
    BY <1>6, StackPrepared, Zenon
  <2>3. MutexInv' /\ OwnersInv'
    BY <1>6, Zenon DEF Die, PushFails, Goto, MutexInv, OwnersInv, IdInv, TypeOK
  <2>4. UniqueIds'
    BY <2>1, Zenon DEF UniqueIds, IdInv
  <2>5. PopInv'
    <3>1. SUFFICES ASSUME NEW u \in Thread, pc'[u] = "pop"
                   PROVE  /\ node'[u] # Null /\ below'[u] = next'[node'[u]]
                          /\ \A v \in Thread : node'[u] \notin Owned(v)'
      BY Zenon DEF PopInv
    <3>2. pc[u] = "pop" /\ node' = node /\ below' = below
      BY <1>6, <3>1, Zenon DEF Die, PushFails, Goto, IdInv, TypeOK
    <3>3. /\ node[u] # Null /\ below[u] = next[node[u]]
          /\ \A v \in Thread : node[u] \notin Owned(v)
      BY <3>2, Zenon DEF PopInv, IdInv
    <3>4. node[u] # node[t]
      BY <2>1, <3>3, Zenon
    <3>5. node[u] \in Id
      BY <3>3, ConstantsAssumption DEF IdInv, TypeOK, Id, Null
    <3>6. next'[node[u]] = next[node[u]]
      BY <1>6, <3>4, <3>5, Zenon DEF Die, PushFails, IdInv, TypeOK
    <3>. QED BY <2>1, <3>2, <3>3, <3>6, Zenon
  <2>. QED BY <1>0, <2>2, <2>3, <2>4, <2>5, Zenon DEF IdInv
<1>7. CASE Push(t)
  <2>1. Owned(t)' = {} /\ \A u \in Thread \ {t} : Owned(u)' = Owned(u)
    BY <1>7, Zenon DEF Push, Goto, Owned, IdInv, TypeOK
  <2>2. NoneLost'
    BY <1>7, StackPushed, Zenon
  <2>3. MutexInv' /\ OwnersInv'
    BY <1>7, Zenon DEF Push, Goto, MutexInv, OwnersInv, IdInv, TypeOK
  <2>4. UniqueIds'
    BY <2>1, Zenon DEF UniqueIds, IdInv
  <2>5. PopInv'
    <3>1. \A u \in Thread : pc[u]' = "pop" =>
            /\ pc[u] = "pop" /\ node[u]' = node[u] /\ below[u]' = below[u] /\ next' = next
      BY <1>7, Zenon DEF Push, Goto, IdInv, TypeOK
    <3>. QED BY <2>1, <3>1 DEF PopInv, IdInv
  <2>. QED BY <1>0, <2>2, <2>3, <2>4, <2>5, Zenon DEF IdInv
<1>. QED BY <1>1, <1>2, <1>3, <1>4, <1>5, <1>6, <1>7, Zenon

(* ... as does a step that changes nothing.                                *)
LEMMA IdStutter == IdInv /\ UNCHANGED vars => IdInv'
<1>. SUFFICES ASSUME IdInv, UNCHANGED vars PROVE IdInv'
  BY Zenon
<1>1. \A u \in Thread : Owned(u)' = Owned(u)
  BY Zenon DEF vars, Owned
<1>2. NoneLost'
  BY <1>1, StackUntouched, Zenon DEF vars, IdInv
<1>. QED BY <1>1, <1>2 DEF IdInv, vars, TypeOK, MutexInv, OwnersInv, PopInv, UniqueIds

(* Types, and unique ids, for any number of threads: the announcement      *)
(* slots and the elements of a ThreadSpecific are never shared.            *)
THEOREM IdsAreUnique == Spec => [](TypeOK /\ UniqueIds)
<1>1. IdInv /\ [Next]_vars => IdInv'
  BY IdStep, IdStutter, Zenon DEF Next
<1>2. IdInv => TypeOK /\ UniqueIds
  BY Zenon DEF IdInv
<1>. QED BY <1>1, <1>2, IdInit, PTL DEF Spec

(* The stack of ids stays a list, and no id is ever lost.                  *)
THEOREM IdsAreKept == Spec => []NoneLost
<1>1. IdInv /\ [Next]_vars => IdInv'
  BY IdStep, IdStutter, Zenon DEF Next
<1>2. IdInv => NoneLost
  BY Zenon DEF IdInv
<1>. QED BY <1>1, <1>2, IdInit, PTL DEF Spec

-----------------------------------------------------------------------------
(* Dense.  A thread makes a new id only after it has seen the stack empty; *)
(* at that moment all ids are owned, by threads that make none.            *)
Making == {t \in Thread : pc[t] = "new"}
Owners == {t \in Thread : pc[t] \in {"owns", "push"}}

(* Who sees the stack empty finds every id in use.                         *)
LEMMA AllInUse ==
  ASSUME IdInv, available_ids = Null, NEW M \in SUBSET Thread, M \cap Owners = {}
  PROVE  num_thread_ids + Cardinality(M) <= Cardinality(Thread)
<1>1. IsFiniteSet(Thread) /\ IsFiniteSet(M) /\ IsFiniteSet(Owners)
  BY ConstantsAssumption, FS_Subset, Zenon DEF Owners
<1>2. Cardinality(M \cup Owners) <= Cardinality(Thread) /\ IsFiniteSet(M \cup Owners)
  BY <1>1, FS_Subset, Zenon DEF Owners
<1>3. Cardinality(M \cup Owners) = Cardinality(M) + Cardinality(Owners)
  <2>1. Cardinality(M \cap Owners) = 0
    BY FS_EmptySet, Zenon
  <2>2. Cardinality(M) \in Nat /\ Cardinality(Owners) \in Nat
    BY <1>1, FS_CardinalityType, Zenon
  <2>3. Cardinality(M \cup Owners) =
          Cardinality(M) + Cardinality(Owners) - Cardinality(M \cap Owners)
    BY <1>1, FS_Union, Zenon
  <2>. QED BY <2>1, <2>2, <2>3
<1>4. num_thread_ids <= Cardinality(Owners)
  <2>. DEFINE own == [t \in Owners |-> node[t]]
  <2>1. \A t \in Owners : node[t] \in 0..(num_thread_ids - 1)
    BY ConstantsAssumption DEF Owners, IdInv, OwnersInv, TypeOK, Null
  <2>2. \A x \in 0..(num_thread_ids - 1) : \E t \in Owners : node[t] = x
    BY TopIsFree, Zenon DEF IdInv, Owners, Owned
  <2>3. own \in Surjection(Owners, 0..(num_thread_ids - 1))
    BY <2>1, <2>2, Zenon DEF Surjection
  <2>4. Cardinality(0..(num_thread_ids - 1)) <= Cardinality(Owners)
    BY <1>1, <2>3, FS_Surjection
  <2>5. Cardinality(0..(num_thread_ids - 1)) = num_thread_ids
    BY FS_Interval, ConstantsAssumption DEF IdInv, TypeOK
  <2>. QED BY <2>4, <2>5, Zenon
<1>5. /\ Cardinality(M) \in Nat /\ Cardinality(Owners) \in Nat /\ Cardinality(Thread) \in Nat
      /\ num_thread_ids \in Int
  BY <1>1, FS_CardinalityType DEF IdInv, TypeOK
<1>. QED BY <1>2, <1>3, <1>4, <1>5

(* There are never more ids than threads.                                  *)
LEMMA DenseStep ==
  ASSUME IdInv, Dense, [Next]_vars
  PROVE  Dense'
<1>. Dense <=> num_thread_ids + Cardinality(Making) <= Cardinality(Thread)
  BY Zenon DEF Dense, Making
<1>. Dense' <=> num_thread_ids' + Cardinality(Making') <= Cardinality(Thread)
  BY Zenon DEF Dense, Making
<1>1. CASE UNCHANGED <<num_thread_ids, Making>>
  BY <1>1, Zenon
<1>2. ASSUME NEW t \in Thread, available_ids = Null, Making' = Making \cup {t},
             pc[t] \notin {"owns", "push"}, num_thread_ids' = num_thread_ids
      PROVE  Dense'
  <2>1. Making \cup {t} \in SUBSET Thread /\ (Making \cup {t}) \cap Owners = {}
    BY <1>2, Zenon DEF Making, Owners
  <2>. QED BY <1>2, <2>1, AllInUse, Zenon
<1>3. ASSUME NEW t \in Thread, Look(t) \/ Load(t) \/ PopFails(t)
      PROVE  Dense'
  <2>1. num_thread_ids' = num_thread_ids /\ pc[t] \in {"none", "load", "pop"}
    BY <1>3, Zenon DEF Look, Load, PopFails, Current
  <2>2. CASE available_ids = Null
    <3>1. pc' = [pc EXCEPT ![t] = "new"]
      BY <1>3, <2>2, Zenon DEF Look, Load, PopFails, Current, Goto
    <3>2. Making' = Making \cup {t}
      BY <3>1, Zenon DEF Making, IdInv, TypeOK
    <3>. QED BY <1>2, <2>1, <2>2, <3>2, Zenon
  <2>3. CASE available_ids # Null
    <3>1. Making' = Making
      BY <1>3, <2>3, <2>1, Zenon DEF Look, Load, PopFails, Current, Goto, Making, IdInv, TypeOK
    <3>. QED BY <1>1, <2>1, <3>1, Zenon
  <2>. QED BY <2>2, <2>3, Zenon
<1>4. ASSUME NEW t \in Thread, New(t)
      PROVE  Dense'
  <2>1. t \in Making /\ Making' = Making \ {t} /\ num_thread_ids' = num_thread_ids + 1
    BY <1>4, Zenon DEF New, Goto, Making, IdInv, TypeOK
  <2>2. IsFiniteSet(Making)
    BY ConstantsAssumption, FS_Subset, Zenon DEF Making
  <2>3. Cardinality(Making') = Cardinality(Making) - 1 /\ Cardinality(Making) \in Nat
    BY <2>1, <2>2, FS_RemoveElement, FS_CardinalityType, Zenon
  <2>4. num_thread_ids \in Int
    BY DEF IdInv, TypeOK
  <2>. QED BY <2>1, <2>3, <2>4
<1>5. ASSUME NEW t \in Thread, Lock(t) \/ Pop(t) \/ Die(t) \/ PushFails(t) \/ Push(t)
      PROVE  Dense'
  <2>1. UNCHANGED <<num_thread_ids, Making>>
    BY <1>5, Zenon DEF Lock, Pop, Die, PushFails, Push, Goto, Making, IdInv, TypeOK
  <2>. QED BY <1>1, <2>1, Zenon
<1>6. CASE UNCHANGED vars
  BY <1>1, <1>6, Zenon DEF vars, Making
<1>. QED BY <1>3, <1>4, <1>5, <1>6, Zenon DEF Next

(* Ids are dense: there are never more of them than there are threads at   *)
(* a time, however many have come and gone.                                *)
THEOREM IdsAreDense == Spec => []Dense
<1>1. Init => Dense
  <2>1. ASSUME Init PROVE Making = {} /\ num_thread_ids = 0
    BY <2>1, Zenon DEF Init, Making
  <2>2. Cardinality({}) = 0 /\ Cardinality(Thread) \in Nat
    BY FS_EmptySet, FS_CardinalityType, ConstantsAssumption, Zenon
  <2>. QED BY <2>1, <2>2 DEF Dense, Making
<1>2. IdInv /\ [Next]_vars => IdInv'
  BY IdStep, IdStutter, Zenon DEF Next
<1>. QED BY <1>1, <1>2, IdInit, DenseStep, PTL DEF Spec

(* Threads that use ThreadSpecific get their ids as the pool hands them    *)
(* out: everything proved of the pool holds of it there.                   *)
THEOREM UsersKeepPool == TSSpec => Spec
<1>1. TSInit => Init
  BY Zenon DEF TSInit
<1>2. [TSNext]_allVars => [Next]_vars
  BY Zenon DEF TSNext, Ids, allVars, Get, ForEach, LookAtChunk, GrowLock, GrowCheck, Grow,
     GrowUnlock, Got, Visit, ForEachReturns, Finish
<1>. QED BY <1>1, <1>2, PTL DEF Spec, TSSpec
=============================================================================
