-------------------------- MODULE BigAtomicProofs ---------------------------
(***************************************************************************)
(* Proofs about BigAtomic, for any number of threads, cells, words and     *)
(* locks: the lock set excludes, a reader returns what an sc has left, and *)
(* the cells are those of LLSC.                                            *)
(***************************************************************************)
EXTENDS BigAtomic, TLAPS

-----------------------------------------------------------------------------
(***************************************************************************)
(* First proofs about BigAtomic, for any number of threads, cells, words   *)
(* and locks and for any assignment of cells to locks: the variables keep  *)
(* their types, and the lock set excludes.                                 *)
(***************************************************************************)

(* Parity, which is all the arithmetic the argument needs: the successor   *)
(* of an even version is odd and the one after it is even.                 *)
LEMMA Parity ==
  ASSUME NEW n \in Nat
  PROVE  /\ Even(n) => ~Even(n + 1)
         /\ Even(n) => Even(n + 2)
         /\ ~Even(n) => Even(n + 1)
BY DEF Even

(* Zero is even.                                                           *)
LEMMA EvenZero == Even(0)
BY DEF Even

(* An answer is a record of a Boolean, a value and a tag.                  *)
LEMMA AnswerType ==
  ASSUME NEW b \in BOOLEAN, NEW v \in Value, NEW n \in Nat
  PROVE  Answer(b, v, n) \in [ok : BOOLEAN, val : Value, tag : Nat]
BY Zenon DEF Answer

(* So is a yes or no.                                                      *)
LEMMA YesNoType ==
  \A b \in BOOLEAN : YesNo(b) \in [ok : BOOLEAN, val : Value, tag : Nat]
BY AnswerType, ConstantsAssumption, Zenon DEF YesNo

(* The types hold at the start...                                          *)
LEMMA TypeInit == Init => TypeOK
<1> SUFFICES ASSUME Init PROVE TypeOK
  BY Zenon
<1>1. YesNo(TRUE) \in [ok : BOOLEAN, val : Value, tag : Nat]
  BY YesNoType, Zenon
<1> QED
  BY <1>1, ConstantsAssumption, Zenon DEF Init, TypeOK, Labels

(* ... and every step keeps them.                                          *)
LEMMA TypeStep == TypeOK /\ [Next]_vars => TypeOK'
<1> SUFFICES ASSUME TypeOK, [Next]_vars PROVE TypeOK'
  BY Zenon
<1> USE ConstantsAssumption DEF TypeOK, Labels, Goto, shared, call
<1>1. ASSUME NEW t \in Thread, CallLL(t) PROVE TypeOK'
  BY <1>1 DEF CallLL, Call
<1>2. ASSUME NEW t \in Thread, CallLV(t) PROVE TypeOK'
  BY <1>2 DEF CallLV, Call, Tags
<1>3. ASSUME NEW t \in Thread, CallSC(t) PROVE TypeOK'
  BY <1>3 DEF CallSC, Call, Tags
<1>4. ASSUME NEW t \in Thread, CallExpand(t) PROVE TypeOK'
  BY <1>4 DEF CallExpand
<1>5. ASSUME NEW t \in Thread, LLVersion(t) PROVE TypeOK'
  BY <1>5, Zenon DEF LLVersion
<1>6. ASSUME NEW t \in Thread, LLWord(t) PROVE TypeOK'
  BY <1>6 DEF LLWord, Value
<1>7. ASSUME NEW t \in Thread, LLCheck(t) PROVE TypeOK'
  <2>1. Answer(TRUE, got[t], ver[t]) \in [ok : BOOLEAN, val : Value, tag : Nat]
    BY AnswerType, Zenon
  <2>2. res' \in [Thread -> [ok : BOOLEAN, val : Value, tag : Nat]]
    BY <1>7, <2>1, ZenonT(60) DEF LLCheck
  <2>3. pc' \in [Thread -> Labels]
    <3>1. \/ pc' = [pc EXCEPT ![t] = "done"]
          \/ pc' = [pc EXCEPT ![t] = "ll_version"]
      BY <1>7, Zenon DEF LLCheck
    <3> QED
      BY <3>1, Zenon
  <2> QED
    BY <1>7, <2>2, <2>3, Zenon DEF LLCheck
<1>8. ASSUME NEW t \in Thread, LVVersion(t) PROVE TypeOK'
  BY <1>8, YesNoType, Zenon DEF LVVersion
<1>9. ASSUME NEW t \in Thread, SCVersion(t) PROVE TypeOK'
  BY <1>9, YesNoType, ZenonT(60) DEF SCVersion
<1>10. ASSUME NEW t \in Thread, SCLock(t) PROVE TypeOK'
  BY <1>10, Zenon DEF SCLock, TryLock
<1>11. ASSUME NEW t \in Thread, SCRecheck(t) PROVE TypeOK'
  BY <1>11, YesNoType, ZenonT(60) DEF SCRecheck
<1>12. ASSUME NEW t \in Thread, SCOdd(t) PROVE TypeOK'
  <2>1. YesNo(TRUE) \in [ok : BOOLEAN, val : Value, tag : Nat]
    BY YesNoType, Zenon
  <2>2. res' \in [Thread -> [ok : BOOLEAN, val : Value, tag : Nat]]
    BY <1>12, <2>1, Zenon DEF SCOdd
  <2>3. version' \in [Cell -> Nat] /\ lval' \in [Cell -> Value]
    BY <1>12 DEF SCOdd
  <2> QED
    BY <1>12, <2>2, <2>3, Zenon DEF SCOdd
<1>13. ASSUME NEW t \in Thread, SCWord(t) PROVE TypeOK'
  BY <1>13 DEF SCWord, Value
<1>14. ASSUME NEW t \in Thread, SCEven(t) PROVE TypeOK'
  BY <1>14 DEF SCEven
<1>15. ASSUME NEW t \in Thread, SCUnlock(t) PROVE TypeOK'
  BY <1>15, Zenon DEF SCUnlock, Unlock
<1>16. ASSUME NEW t \in Thread, Return(t) PROVE TypeOK'
  BY <1>16, YesNoType, Zenon DEF Return
<1>17. ASSUME NEW t \in Thread, ExpandLock(t) PROVE TypeOK'
  BY <1>17, Zenon DEF ExpandLock, TryLock
<1>18. ASSUME NEW t \in Thread, ExpandUnlock(t) PROVE TypeOK'
  BY <1>18, Zenon DEF ExpandUnlock, Unlock
<1>19. CASE UNCHANGED vars
  BY <1>19, Zenon DEF vars
<1> QED
  BY <1>1, <1>2, <1>3, <1>4, <1>5, <1>6, <1>7, <1>8, <1>9, <1>10, <1>11,
     <1>12, <1>13, <1>14, <1>15, <1>16, <1>17, <1>18, <1>19, Zenon
  DEF Next, Step

(* Every variable of a big_atomic keeps its type.                          *)
THEOREM TypeCorrect == Spec => []TypeOK
BY TypeInit, TypeStep, PTL DEF Spec

-----------------------------------------------------------------------------
(* The lock set.  Three kinds of step: no lock changes hands, one is       *)
(* taken by a thread that found it free, one is given back.                *)
KeepLocks ==
  /\ locks' = locks
  /\ \A s \in Thread : /\ pc'[s] \in Holding <=> pc[s] \in Holding
                       /\ pc[s] \in Holding => want'[s] = want[s]

TakeLock(t) ==
  /\ ~locks[want[t]]
  /\ locks' = [locks EXCEPT ![want[t]] = TRUE]
  /\ want' = want
  /\ pc[t] \notin Holding /\ pc'[t] \in Holding
  /\ \A s \in Thread \ {t} : pc'[s] = pc[s]

GiveLock(t) ==
  /\ locks' = [locks EXCEPT ![want[t]] = FALSE]
  /\ want' = want
  /\ pc[t] \in Holding /\ pc'[t] \notin Holding
  /\ \A s \in Thread \ {t} : pc'[s] = pc[s]

(* A step that leaves the locks and their holders alone.                   *)
LEMMA KeepLocksStep == LockExclusion /\ KeepLocks => LockExclusion'
BY DEF LockExclusion, KeepLocks

(* A step that takes a free lock.                                          *)
LEMMA TakeLockStep ==
  ASSUME TypeOK, LockExclusion, NEW t \in Thread, TakeLock(t)
  PROVE  LockExclusion'
<1>1. \A s \in Thread : pc[s] \in Holding => want[s] # want[t]
  BY Zenon DEF LockExclusion, TakeLock, TypeOK
<1>2. \A l \in Lock : locks'[l] <=> (locks[l] \/ l = want[t])
  BY Zenon DEF TakeLock, TypeOK
<1>3. \A l \in Lock : locks'[l] => \E s \in Thread : pc'[s] \in Holding /\ want'[s] = l
  BY <1>1, <1>2, Zenon DEF LockExclusion, TakeLock, TypeOK
<1>4. \A s \in Thread : pc'[s] \in Holding => locks'[want'[s]]
  BY <1>1, <1>2, Zenon DEF LockExclusion, TakeLock, TypeOK
<1>5. \A r, s \in Thread :
        pc'[r] \in Holding /\ pc'[s] \in Holding /\ want'[r] = want'[s] => r = s
  BY <1>1 DEF LockExclusion, TakeLock
<1> QED
  BY <1>3, <1>4, <1>5 DEF LockExclusion

(* A step of the holder that gives its lock back.                          *)
LEMMA GiveLockStep ==
  ASSUME TypeOK, LockExclusion, NEW t \in Thread, GiveLock(t)
  PROVE  LockExclusion'
<1>1. \A l \in Lock : locks'[l] <=> (locks[l] /\ l # want[t])
  BY Zenon DEF GiveLock, TypeOK
<1>2. \A s \in Thread : pc'[s] \in Holding <=> pc[s] \in Holding /\ s # t
  BY Zenon DEF GiveLock
<1>3. \A l \in Lock : locks'[l] => \E s \in Thread : pc'[s] \in Holding /\ want'[s] = l
  BY <1>1, <1>2 DEF LockExclusion, GiveLock, TypeOK
<1>4. \A s \in Thread : pc'[s] \in Holding => locks'[want'[s]]
  BY <1>1, <1>2, Zenon DEF LockExclusion, GiveLock, TypeOK
<1> QED
  BY <1>2, <1>3, <1>4 DEF LockExclusion, GiveLock, TypeOK

(* In every step, a lock that is taken has one holder.                     *)
LEMMA LockStep ==
  ASSUME TypeOK, LockExclusion, [Next]_vars
  PROVE  LockExclusion'
<1> USE DEF TypeOK, Goto, shared, call
<1>1. ASSUME NEW t \in Thread,
             CallLL(t) \/ CallLV(t) \/ CallSC(t) \/ CallExpand(t)
      PROVE  KeepLocks
  BY <1>1 DEF CallLL, CallLV, CallSC, Call, CallExpand, KeepLocks, Holding
<1>2. ASSUME NEW t \in Thread,
             LLVersion(t) \/ LLWord(t) \/ LVVersion(t) \/ Return(t)
      PROVE  KeepLocks
  BY <1>2, Zenon DEF LLVersion, LLWord, LVVersion, Return, KeepLocks, Holding
<1>3. ASSUME NEW t \in Thread, LLCheck(t)
      PROVE  KeepLocks
  <2>1. \/ pc' = [pc EXCEPT ![t] = "done"]
        \/ pc' = [pc EXCEPT ![t] = "ll_version"]
    BY <1>3, Zenon DEF LLCheck
  <2> QED
    BY <1>3, <2>1, Zenon DEF LLCheck, KeepLocks, Holding
<1>4. ASSUME NEW t \in Thread,
             SCVersion(t) \/ SCRecheck(t) \/ SCOdd(t) \/ SCWord(t) \/ SCEven(t)
      PROVE  KeepLocks
  BY <1>4, Zenon DEF SCVersion, SCRecheck, SCOdd, SCWord, SCEven, KeepLocks, Holding
<1>5. ASSUME NEW t \in Thread, SCLock(t) \/ ExpandLock(t)
      PROVE  KeepLocks \/ TakeLock(t)
  BY <1>5 DEF SCLock, ExpandLock, TryLock, KeepLocks, TakeLock, Holding
<1>6. ASSUME NEW t \in Thread, SCUnlock(t) \/ ExpandUnlock(t)
      PROVE  GiveLock(t)
  BY <1>6, Zenon DEF SCUnlock, ExpandUnlock, Unlock, GiveLock, Holding
<1>7. CASE UNCHANGED vars
  BY <1>7, Zenon DEF vars, LockExclusion
<1> QED
  BY <1>1, <1>2, <1>3, <1>4, <1>5, <1>6, <1>7,
     KeepLocksStep, TakeLockStep, GiveLockStep, Zenon DEF Next, Step

-----------------------------------------------------------------------------
(***************************************************************************)
(* The sequence lock: what a reader returns is the value of the last sc    *)
(* that took effect, and versions only grow.                               *)
(***************************************************************************)

(* The cells.                                                              *)
ThreadInv(t) ==
  /\ pc[t] = "sc_odd" => version[cell[t]] = tag[t]
  /\ pc[t] = "sc_val" => version[cell[t]] = tag[t] + 1
  /\ CallInv(t)
  /\ WriterInv(t)
  /\ ReaderInv(t)

(* The steps that leave the cells alone: all but the three stores of sc.   *)
Quiet(t) ==
  \/ CallLL(t) \/ CallLV(t) \/ CallSC(t) \/ CallExpand(t)
  \/ LLVersion(t) \/ LLWord(t) \/ LLCheck(t) \/ LVVersion(t)
  \/ SCVersion(t) \/ SCLock(t) \/ SCRecheck(t) \/ SCUnlock(t)
  \/ Return(t) \/ ExpandLock(t) \/ ExpandUnlock(t)

(* A step writes a version or a word of a cell, or neither.                *)
LEMMA NextCases ==
  ASSUME Next
  PROVE  \E t \in Thread : Quiet(t) \/ SCOdd(t) \/ SCWord(t) \/ SCEven(t)
BY Zenon DEF Next, Step, Quiet

(* The other steps leave versions and values alone...                      *)
LEMMA QuietCells ==
  ASSUME NEW t \in Thread, Quiet(t)
  PROVE  UNCHANGED <<version, val, lval>>
BY Zenon DEF Quiet, CallLL, CallLV, CallSC, Call, CallExpand, LLVersion, LLWord, LLCheck,
       LVVersion, SCVersion, SCLock, SCRecheck, SCUnlock, Return, ExpandLock,
       ExpandUnlock, TryLock, Unlock, shared

(* ... and keep the invariant.                                             *)
LEMMA QuietStep ==
  ASSUME TypeOK, TypeOK', SeqLockInv, NEW t \in Thread, Quiet(t)
  PROVE  EvenIsComplete' /\ \A s \in Thread : ThreadInv(s)'
<1> USE DEF Goto, shared, call
<1>1. UNCHANGED <<version, val, lval>>
  BY QuietCells, Zenon
<1>2. EvenIsComplete'
  BY <1>1, Zenon DEF EvenIsComplete, SeqLockInv
<1>3. ASSUME NEW s \in Thread, s # t PROVE ThreadInv(s)'
  <2>1. /\ pc'[s] = pc[s] /\ op'[s] = op[s] /\ cell'[s] = cell[s]
        /\ tag'[s] = tag[s] /\ arg'[s] = arg[s] /\ ver'[s] = ver[s]
        /\ todo'[s] = todo[s] /\ got'[s] = got[s] /\ want'[s] = want[s]
    <3> USE <1>3 DEF TypeOK
    <3>1. CASE CallLL(t) \/ CallLV(t) \/ CallSC(t) \/ CallExpand(t)
      BY <3>1 DEF CallLL, CallLV, CallSC, Call, CallExpand
    <3>2. CASE LLVersion(t) \/ LLWord(t)
      BY <3>2 DEF LLVersion, LLWord
    <3>6. CASE LVVersion(t) \/ Return(t)
      BY <3>6, ZenonT(60) DEF LVVersion, Return
    <3>3. CASE LLCheck(t)
      <4>1. \/ pc' = [pc EXCEPT ![t] = "done"]
            \/ pc' = [pc EXCEPT ![t] = "ll_version"]
        BY <3>3, Zenon DEF LLCheck
      <4> QED
        BY <3>3, <4>1, Zenon DEF LLCheck
    <3>4. CASE SCVersion(t) \/ SCRecheck(t)
      BY <3>4, ZenonT(60) DEF SCVersion, SCRecheck
    <3>5. CASE SCLock(t) \/ SCUnlock(t) \/ ExpandLock(t) \/ ExpandUnlock(t)
      BY <3>5, Zenon DEF SCLock, SCUnlock, ExpandLock, ExpandUnlock, TryLock, Unlock
    <3> QED
      BY <3>1, <3>2, <3>3, <3>4, <3>5, <3>6, Zenon DEF Quiet
  <2> QED
    BY <1>1, <2>1, SMTT(60) DEF SeqLockInv, ThreadInv, WriterOwnsCell, CallInv, WriterInv, ReaderInv
<1>4. ThreadInv(t)'
  <2> USE <1>1 DEF ThreadInv, CallInv, WriterInv, ReaderInv, SCLabels, TypeOK
  <2>1. ThreadInv(t)
    BY Zenon DEF SeqLockInv, WriterOwnsCell
  <2>2. CASE CallLL(t) \/ CallExpand(t)
    BY <2>2 DEF CallLL, CallExpand, Call
  <2>11. CASE LVVersion(t) \/ Return(t)
    BY <2>11, ZenonT(60) DEF LVVersion, Return
  <2>3. CASE CallLV(t) \/ CallSC(t)
    BY <2>3, ConstantsAssumption, SMTT(60) DEF CallLV, CallSC, Call, Tags
  <2>4. CASE LLVersion(t)
    BY <2>1, <2>4 DEF LLVersion
  <2>5. CASE LLWord(t)
    <3>1. PICK w \in todo[t] :
            /\ got' = [got EXCEPT ![t][w] = val[cell[t]][w]]
            /\ todo' = [todo EXCEPT ![t] = @ \ {w}]
      BY <2>5, Zenon DEF LLWord
    <3>2. Even(version[cell[t]]) => val[cell[t]][w] = lval[cell[t]][w]
      BY Zenon DEF SeqLockInv, EvenIsComplete
    <3>3. \A u \in Word \ todo'[t] : got'[t][u] = IF u = w THEN val[cell[t]][w] ELSE got[t][u]
      BY <3>1, SMTT(60) DEF Value
    <3>4. \A u \in Word \ todo'[t] : u = w \/ u \in Word \ todo[t]
      BY <3>1, Zenon
    <3> QED
      BY <2>1, <2>5, <3>2, <3>3, <3>4 DEF LLWord
  <2>6. CASE LLCheck(t)
    BY <2>1, <2>6, ZenonT(60) DEF LLCheck
  <2>7. CASE SCVersion(t)
    <3>1. CASE version[cell[t]] = tag[t]
      BY <2>1, <2>7, <3>1, SMTT(60) DEF SCVersion
    <3>2. CASE version[cell[t]] # tag[t]
      BY <2>1, <2>7, <3>2, SMTT(60) DEF SCVersion
    <3> QED
      BY <3>1, <3>2, Zenon
  <2>8. CASE SCLock(t) \/ ExpandLock(t)
    BY <2>1, <2>8, SMTT(60) DEF SCLock, ExpandLock, TryLock
  <2>9. CASE SCRecheck(t)
    BY <2>1, <2>9, Zenon DEF SCRecheck
  <2>10. CASE SCUnlock(t) \/ ExpandUnlock(t)
    BY <2>1, <2>10, SMTT(60) DEF SCUnlock, ExpandUnlock, Unlock
  <2> QED
    BY <2>2, <2>3, <2>4, <2>5, <2>6, <2>7, <2>8, <2>9, <2>10, <2>11, Zenon DEF Quiet
<1> QED
  BY <1>2, <1>3, <1>4, Zenon

(* A thread inside the critical section of sc has its cell to itself.      *)
LEMMA AloneInCell ==
  ASSUME TypeOK, SeqLockInv, NEW s \in Thread, NEW t \in Thread, s # t,
         pc[s] \in {"sc_odd", "sc_val"}, pc[t] \in {"sc_odd", "sc_val"}
  PROVE  cell[s] # cell[t]
<1>1. want[s] # want[t]
  BY Zenon DEF SeqLockInv, LockExclusion, Holding
<1>2. want[s] = LockOf[cell[s]] /\ want[t] = LockOf[cell[t]]
  BY Zenon DEF SeqLockInv, CallInv, SCLabels
<1> QED
  BY <1>1, <1>2, Zenon

(* A thread does not notice a store to another cell.                       *)
LEMMA OtherCell ==
  ASSUME NEW s \in Thread, ThreadInv(s), pc'[s] = pc[s], todo'[s] = todo[s],
         UNCHANGED <<op, cell, tag, arg, ver, got, want>>,
         version'[cell[s]] = version[cell[s]],
         val'[cell[s]] = val[cell[s]], lval'[cell[s]] = lval[cell[s]]
  PROVE  ThreadInv(s)'
<1>1. CallInv(s)'
  BY Zenon DEF ThreadInv, CallInv
<1>2. WriterInv(s)'
  BY Zenon DEF ThreadInv, WriterInv
<1>3. ReaderInv(s)'
  BY Zenon DEF ThreadInv, ReaderInv
<1> QED
  BY <1>1, <1>2, <1>3, Zenon DEF ThreadInv

(* A thread that is not inside its cell survives a store of the version:   *)
(* its tag and the version it read are now strictly older.                 *)
LEMMA OlderNow ==
  ASSUME TypeOK, NEW s \in Thread, ThreadInv(s), pc'[s] = pc[s],
         pc[s] \notin {"sc_odd", "sc_val"},
         UNCHANGED <<op, cell, tag, ver, want>>,
         version'[cell[s]] = version[cell[s]] + 1
  PROVE  ThreadInv(s)'
<1>1. tag[s] \in Nat /\ ver[s] \in Nat /\ version[cell[s]] \in Nat
  BY Zenon DEF TypeOK
<1>2. CallInv(s)'
  BY <1>1 DEF ThreadInv, CallInv
<1>3. WriterInv(s)'
  BY Zenon DEF WriterInv
<1>4. ReaderInv(s)'
  BY <1>1 DEF ThreadInv, ReaderInv
<1> QED
  BY <1>2, <1>3, <1>4, Zenon DEF ThreadInv

(* The store of the odd version: no reader's version is good from here on. *)
LEMMA SCOddStep ==
  ASSUME TypeOK, TypeOK', SeqLockInv, NEW t \in Thread, SCOdd(t)
  PROVE  EvenIsComplete' /\ \A s \in Thread : ThreadInv(s)'
<1> USE DEF Goto, shared, call
<1>1. /\ pc[t] = "sc_odd" /\ version[cell[t]] = tag[t] /\ ver[t] = tag[t]
      /\ Even(tag[t]) /\ tag[t] \in Nat /\ cell[t] \in Cell
  BY Zenon DEF SCOdd, SeqLockInv, WriterOwnsCell, CallInv, SCLabels, TypeOK
<1>2. /\ version' = [version EXCEPT ![cell[t]] = tag[t] + 1]
      /\ lval' = [lval EXCEPT ![cell[t]] = arg[t]]
      /\ val' = val /\ UNCHANGED <<op, cell, tag, arg, ver, got, want>>
      /\ pc' = [pc EXCEPT ![t] = "sc_val"]
      /\ todo' = [todo EXCEPT ![t] = Word]
  BY <1>1, Zenon DEF SCOdd
<1>3. ~Even(tag[t] + 1)
  BY <1>1, Parity, Zenon
<1>4. EvenIsComplete'
  <2> SUFFICES ASSUME NEW c \in Cell, Even(version'[c]) PROVE val'[c] = lval'[c]
    BY Zenon DEF EvenIsComplete
  <2>1. c # cell[t] /\ version'[c] = version[c] /\ lval'[c] = lval[c]
    BY <1>2, <1>3, Zenon DEF TypeOK
  <2> QED
    BY <1>2, <2>1, Zenon DEF SeqLockInv, EvenIsComplete
<1>5. ThreadInv(t)'
  BY <1>1, <1>2 DEF ThreadInv, SeqLockInv, CallInv, WriterInv, ReaderInv, SCLabels, TypeOK
<1>6. ASSUME NEW s \in Thread, s # t PROVE ThreadInv(s)'
  <2>1. ThreadInv(s)
    BY Zenon DEF SeqLockInv, ThreadInv, WriterOwnsCell
  <2>2. pc'[s] = pc[s] /\ todo'[s] = todo[s]
    BY <1>2, <1>6, Zenon DEF TypeOK
  <2>3. CASE cell[s] = cell[t]
    <3>1. pc[s] \notin {"sc_odd", "sc_val"}
      BY <1>1, <1>6, <2>3, AloneInCell, Zenon
    <3>2. version'[cell[s]] = version[cell[s]] + 1
      BY <1>1, <1>2, <2>3, Zenon DEF TypeOK
    <3> QED
      BY <1>2, <2>1, <2>2, <3>1, <3>2, OlderNow, Zenon
  <2>4. CASE cell[s] # cell[t]
    <3>1. version'[cell[s]] = version[cell[s]] /\ lval'[cell[s]] = lval[cell[s]]
      BY <1>2, <2>4, Zenon DEF TypeOK
    <3> QED
      BY <1>2, <2>1, <2>2, <3>1, OtherCell, Zenon
  <2> QED
    BY <2>3, <2>4, Zenon
<1> QED
  BY <1>4, <1>5, <1>6, Zenon

(* The store of a word, under an odd version.                              *)
LEMMA SCWordStep ==
  ASSUME TypeOK, TypeOK', SeqLockInv, NEW t \in Thread, SCWord(t)
  PROVE  EvenIsComplete' /\ \A s \in Thread : ThreadInv(s)'
<1> USE DEF shared, call
<1>1. /\ pc[t] = "sc_val" /\ version[cell[t]] = tag[t] + 1
      /\ Even(tag[t]) /\ tag[t] \in Nat /\ cell[t] \in Cell
  BY Zenon DEF SCWord, SeqLockInv, WriterOwnsCell, CallInv, SCLabels, TypeOK
<1>2. PICK w \in todo[t] : /\ val' = [val EXCEPT ![cell[t]][w] = arg[t][w]]
                          /\ todo' = [todo EXCEPT ![t] = @ \ {w}]
  BY Zenon DEF SCWord
<1>3. UNCHANGED <<version, lval, pc, op, cell, tag, arg, ver, got, want>>
  BY Zenon DEF SCWord
<1>4. ~Even(version[cell[t]])
  BY <1>1, Parity, Zenon
<1>5. \A c \in Cell : c # cell[t] => val'[c] = val[c]
  BY <1>2, Zenon DEF TypeOK
<1>6. EvenIsComplete'
  BY <1>3, <1>4, <1>5, Zenon DEF EvenIsComplete, SeqLockInv, TypeOK
<1>7. ThreadInv(t)'
  <2>1. \A u \in Word \ todo'[t] : u = w \/ u \in Word \ todo[t]
    BY <1>2, Zenon DEF TypeOK
  <2>2. \A u \in Word : val'[cell[t]][u] = IF u = w THEN arg[t][w] ELSE val[cell[t]][u]
    BY <1>2, SMTT(60) DEF TypeOK, Value
  <2>3. WriterInv(t)'
    BY <1>1, <1>3, <2>1, <2>2, Zenon DEF SeqLockInv, WriterInv
  <2> QED
    BY <1>1, <1>3, <2>3, Zenon DEF ThreadInv, SeqLockInv, WriterOwnsCell, CallInv, ReaderInv
<1>8. ASSUME NEW s \in Thread, s # t PROVE ThreadInv(s)'
  <2>1. ThreadInv(s)
    BY Zenon DEF SeqLockInv, ThreadInv, WriterOwnsCell
  <2>2. todo'[s] = todo[s]
    BY <1>2, <1>8, Zenon DEF TypeOK
  <2>3. pc[s] = "sc_val" => val'[cell[s]] = val[cell[s]]
    BY <1>1, <1>5, <1>8, AloneInCell, Zenon DEF TypeOK
  <2> QED
    BY <1>3, <2>1, <2>2, <2>3, Zenon DEF ThreadInv, CallInv, WriterInv, ReaderInv
<1> QED
  BY <1>6, <1>7, <1>8, Zenon

(* The store of the even version: the value is complete again.             *)
LEMMA SCEvenStep ==
  ASSUME TypeOK, TypeOK', SeqLockInv, NEW t \in Thread, SCEven(t)
  PROVE  EvenIsComplete' /\ \A s \in Thread : ThreadInv(s)'
<1> USE DEF Goto, shared, call
<1>1. /\ pc[t] = "sc_val" /\ version[cell[t]] = tag[t] + 1 /\ ver[t] = tag[t]
      /\ tag[t] \in Nat /\ cell[t] \in Cell
      /\ op[t] = "sc" /\ want[t] = LockOf[cell[t]] /\ Even(tag[t])
  BY Zenon DEF SCEven, SeqLockInv, WriterOwnsCell, CallInv, SCLabels, TypeOK
<1>2. /\ version' = [version EXCEPT ![cell[t]] = tag[t] + 2]
      /\ UNCHANGED <<val, lval, op, cell, tag, arg, ver, todo, got, want>>
      /\ pc' = [pc EXCEPT ![t] = "sc_unlock"]
  BY <1>1, Zenon DEF SCEven
<1>3. val[cell[t]] = lval[cell[t]]
  <2>1. \A w \in Word : val[cell[t]][w] = lval[cell[t]][w]
    BY <1>1, Zenon DEF SCEven, SeqLockInv, WriterInv
  <2>2. val[cell[t]] \in [Word -> Data] /\ lval[cell[t]] \in [Word -> Data]
    BY <1>1, Zenon DEF TypeOK, Value
  <2> QED
    BY <2>1, <2>2
<1>4. EvenIsComplete'
  <2> SUFFICES ASSUME NEW c \in Cell, Even(version'[c]) PROVE val'[c] = lval'[c]
    BY Zenon DEF EvenIsComplete
  <2>1. c # cell[t] => version'[c] = version[c]
    BY <1>2, Zenon DEF TypeOK
  <2> QED
    BY <1>2, <1>3, <2>1, Zenon DEF SeqLockInv, EvenIsComplete
<1>5. ThreadInv(t)'
  BY <1>1, <1>2, SMTT(60) DEF ThreadInv, CallInv, WriterInv, ReaderInv, SCLabels, TypeOK
<1>6. ASSUME NEW s \in Thread, s # t PROVE ThreadInv(s)'
  <2>1. ThreadInv(s)
    BY Zenon DEF SeqLockInv, ThreadInv, WriterOwnsCell
  <2>2. pc'[s] = pc[s]
    BY <1>2, <1>6, Zenon DEF TypeOK
  <2>3. CASE cell[s] = cell[t]
    <3>1. pc[s] \notin {"sc_odd", "sc_val"}
      BY <1>1, <1>6, <2>3, AloneInCell, Zenon
    <3>2. version'[cell[s]] = version[cell[s]] + 1
      BY <1>1, <1>2, <2>3, SMTT(60) DEF TypeOK
    <3> QED
      BY <1>2, <2>1, <2>2, <3>1, <3>2, OlderNow, Zenon
  <2>4. CASE cell[s] # cell[t]
    <3>1. version'[cell[s]] = version[cell[s]]
      BY <1>2, <2>4, Zenon DEF TypeOK
    <3>2. /\ todo'[s] = todo[s]
          /\ val'[cell[s]] = val[cell[s]] /\ lval'[cell[s]] = lval[cell[s]]
          /\ UNCHANGED <<op, cell, tag, arg, ver, got, want>>
      BY <1>2, Zenon
    <3> QED
      BY <2>1, <2>2, <3>1, <3>2, OtherCell, Zenon
  <2> QED
    BY <2>3, <2>4, Zenon
<1> QED
  BY <1>4, <1>5, <1>6, Zenon

(* Every step keeps the invariant.                                         *)
LEMMA SeqLockStep ==
  ASSUME TypeOK, TypeOK', SeqLockInv, [Next]_vars
  PROVE  SeqLockInv'
<1>1. LockExclusion'
  BY LockStep, Zenon DEF SeqLockInv
<1>2. EvenIsComplete' /\ \A s \in Thread : ThreadInv(s)'
  <2>1. CASE UNCHANGED vars
    <3>1. EvenIsComplete /\ \A s \in Thread : ThreadInv(s)
      BY Zenon DEF SeqLockInv, WriterOwnsCell, ThreadInv
    <3>2. UNCHANGED <<version, val, lval, pc, todo, op, cell, tag, arg, ver, got, want>>
      BY <2>1, Zenon DEF vars, shared, call
    <3>3. EvenIsComplete'
      BY <3>1, <3>2, Zenon DEF EvenIsComplete
    <3>4. \A s \in Thread : ThreadInv(s)'
      BY <3>1, <3>2, OtherCell, Zenon
    <3> QED
      BY <3>3, <3>4, Zenon
  <2>2. CASE Next
    <3>1. PICK t \in Thread : Quiet(t) \/ SCOdd(t) \/ SCWord(t) \/ SCEven(t)
      BY <2>2, NextCases, Zenon
    <3>2. CASE SCOdd(t)
      BY <3>2, SCOddStep, Zenon
    <3>3. CASE SCWord(t)
      BY <3>3, SCWordStep, Zenon
    <3>4. CASE SCEven(t)
      BY <3>4, SCEvenStep, Zenon
    <3> QED
      BY <3>1, <3>2, <3>3, <3>4, QuietStep, Zenon
  <2> QED
    BY <2>1, <2>2, Zenon
<1> QED
  BY <1>1, <1>2, Zenon DEF SeqLockInv, WriterOwnsCell, ThreadInv

(* It holds at the start.                                                  *)
LEMMA SeqLockInit == Init => SeqLockInv
BY EvenZero, Zenon DEF Init, SeqLockInv, LockExclusion, EvenIsComplete, WriterOwnsCell,
     CallInv, WriterInv, ReaderInv, Holding, SCLabels

(* A reader never returns a torn value, a writer is alone in its cell, and *)
(* the hashed lock set excludes writers from each other: the sequence lock *)
(* keeps its invariant whatever cells share a lock.                        *)
THEOREM SeqLockCorrect == Spec => []SeqLockInv
<1>1. Init => TypeOK /\ SeqLockInv
  BY TypeInit, SeqLockInit, Zenon
<1>2. TypeOK /\ SeqLockInv /\ [Next]_vars => TypeOK' /\ SeqLockInv'
  BY TypeStep, SeqLockStep, Zenon
<1> QED
  BY <1>1, <1>2, PTL DEF Spec

(* No version goes down, and words change under odd ones only.             *)
LEMMA VersionStep ==
  ASSUME TypeOK, SeqLockInv, Next, NEW c \in Cell
  PROVE  /\ version'[c] >= version[c]
         /\ val'[c] # val[c] => ~Even(version[c])
<1> USE DEF Goto, shared, call, TypeOK
<1>1. PICK t \in Thread : Quiet(t) \/ SCOdd(t) \/ SCWord(t) \/ SCEven(t)
  BY NextCases, Zenon
<1>2. CASE SCOdd(t)
  <2>1. version[cell[t]] = ver[t]
    BY <1>2, Zenon DEF SCOdd, SeqLockInv, WriterOwnsCell, CallInv
  <2> QED
    BY <1>2, <2>1, SMTT(60) DEF SCOdd
<1>3. CASE SCEven(t)
  <2>1. version[cell[t]] = ver[t] + 1
    BY <1>3, Zenon DEF SCEven, SeqLockInv, WriterOwnsCell, CallInv
  <2> QED
    BY <1>3, <2>1, SMTT(60) DEF SCEven
<1>4. CASE SCWord(t)
  <2>1. version[cell[t]] = tag[t] + 1 /\ Even(tag[t])
    BY <1>4, Zenon DEF SCWord, SeqLockInv, WriterOwnsCell, CallInv, SCLabels
  <2>2. ~Even(version[cell[t]])
    BY <2>1, Parity, Zenon
  <2> QED
    BY <1>4, <2>2, SMTT(60) DEF SCWord
<1>5. CASE Quiet(t)
  BY <1>5, QuietCells
<1> QED
  BY <1>1, <1>2, <1>3, <1>4, <1>5, Zenon

(* Versions only grow, so a tag that went stale stays stale, and the words *)
(* of a cell change only under an odd version.                             *)
THEOREM VersionsOnlyGrow == Spec => VersionDiscipline
<1>1. TypeOK /\ SeqLockInv /\ [Next]_vars => [DisciplinedStep]_vars
  BY VersionStep, Zenon DEF DisciplinedStep
<1> QED
  BY <1>1, TypeCorrect, SeqLockCorrect, PTL DEF Spec, VersionDiscipline

-----------------------------------------------------------------------------
(***************************************************************************)
(* The sequence lock of BigAtomic implements the load-linked and           *)
(* store-conditional cells of LLSC.                                        *)
(***************************************************************************)

(* Refinement: a step of BigAtomic is a step of LLSC or changes nothing    *)
(* that LLSC sees.                                                         *)
LEMMA StatusStep ==
  ASSUME TypeOK, NEW t \in Thread, NEW label, pc' = [pc EXCEPT ![t] = label]
  PROVE  absStatus' = [absStatus EXCEPT ![t] = StatusOf(label)]
BY Zenon DEF TypeOK, absStatus

(* How the labels a thread goes through look to LLSC.                      *)
LEMMA Labelled ==
  /\ \A l \in {"idle", "expand_lock", "expand_unlock"} : StatusOf(l) = "idle"
  /\ \A l \in {"done", "sc_val", "sc_unlock"} : StatusOf(l) = "done"
  /\ \A l \in {"ll_version", "ll_val", "lv_version", "sc_version", "sc_lock",
               "sc_recheck", "sc_odd"} : StatusOf(l) = "pending"
BY Zenon DEF StatusOf, TookEffect

(* What LLSC sees of a move from one label to another.                     *)
LEMMA Moves ==
  ASSUME TypeOK, NEW t \in Thread, NEW label \in Labels, pc' = [pc EXCEPT ![t] = label]
  PROVE  /\ absStatus[t] = StatusOf(pc[t])
         /\ absStatus' = [absStatus EXCEPT ![t] = StatusOf(label)]
         /\ StatusOf(label) = StatusOf(pc[t]) => absStatus' = absStatus
<1>1. absStatus' = [absStatus EXCEPT ![t] = StatusOf(label)]
  BY StatusStep, Zenon
<1>2. absStatus[t] = StatusOf(pc[t])
  BY Zenon DEF absStatus
<1>3. absStatus = [absStatus EXCEPT ![t] = absStatus[t]]
  BY Zenon DEF absStatus
<1> QED
  BY <1>1, <1>2, <1>3, Zenon

(* An even tag is the stamp of its own version and of no later one.        *)
LEMMA StampIsTag ==
  ASSUME NEW n \in Nat, NEW k \in Nat, Even(k), k <= n
  PROVE  StampOf(n) = k <=> n = k
BY DEF StampOf

(* A step that keeps the versions keeps the stamps.                        *)
LEMMA StampSame == version' = version => absStamp' = absStamp
BY Zenon DEF absStamp

(* The store of the odd version is the sc that succeeds.                   *)
LEMMA SCOddRefines ==
  ASSUME TypeOK, SeqLockInv, NEW t \in Thread, SCOdd(t)
  PROVE  A!StoreSucceeds(t)
<1>1. /\ pc[t] = "sc_odd" /\ op[t] = "sc" /\ cell[t] \in Cell /\ tag[t] \in Nat
      /\ ver[t] = tag[t] /\ version[cell[t]] = tag[t] /\ Even(tag[t])
  BY Zenon DEF SCOdd, TypeOK, SeqLockInv, CallInv, WriterOwnsCell, SCLabels
<1>2. absStamp[cell[t]] = tag[t]
  BY <1>1, Zenon DEF absStamp, StampOf
<1>3. absStamp' = [absStamp EXCEPT ![cell[t]] = tag[t] + 2]
  <2>1. StampOf(tag[t] + 1) = tag[t] + 2
    BY <1>1, Parity DEF StampOf
  <2> QED
    BY <1>1, <2>1, Zenon DEF SCOdd, absStamp, TypeOK
<1>4. absStatus[t] = "pending" /\ absStatus' = [absStatus EXCEPT ![t] = "done"]
  <2>1. pc' = [pc EXCEPT ![t] = "sc_val"] /\ "sc_val" \in Labels
    BY Zenon DEF SCOdd, Goto, Labels
  <2> QED
    BY <1>1, <2>1, Moves, Labelled, Zenon
<1>5. absStamp'[cell[t]] = tag[t] + 2
  BY <1>1, <1>3, Zenon DEF absStamp
<1>6. A!TakeEffect(t, "sc", A!YesNo(TRUE))
  BY <1>1, <1>4, Zenon DEF A!TakeEffect, A!YesNo, A!Answer, YesNo, Answer, SCOdd, call
<1>7. absStamp'[cell[t]] > absStamp[cell[t]]
  BY <1>1, <1>2, <1>5
<1>8. absStamp' = [absStamp EXCEPT ![cell[t]] = absStamp'[cell[t]]]
  BY <1>3, <1>5, Zenon
<1>9. lval' = [lval EXCEPT ![cell[t]] = arg[t]]
  BY Zenon DEF SCOdd
<1> QED
  BY <1>2, <1>6, <1>7, <1>8, <1>9, Zenon DEF A!StoreSucceeds

(* An sc that finds another version than its tag is one that fails.        *)
LEMMA StoreFailsRefines ==
  ASSUME TypeOK, SeqLockInv, NEW t \in Thread,
         pc[t] \in {"sc_version", "sc_recheck"}, version[cell[t]] # tag[t],
         NEW label \in {"done", "sc_unlock"},
         Goto(t, label), res' = [res EXCEPT ![t] = YesNo(FALSE)],
         UNCHANGED <<version, lval, op, cell, tag, arg>>
  PROVE  A!StoreFails(t)
<1>1. /\ op[t] = "sc" /\ cell[t] \in Cell /\ tag[t] \in Nat /\ version[cell[t]] \in Nat
      /\ Even(tag[t]) /\ tag[t] <= version[cell[t]]
  BY Zenon DEF TypeOK, SeqLockInv, CallInv, SCLabels
<1>2. absStamp[cell[t]] # tag[t]
  BY <1>1, StampIsTag, Zenon DEF absStamp
<1>3. absStatus[t] = "pending" /\ absStatus' = [absStatus EXCEPT ![t] = "done"]
  <2>1. pc' = [pc EXCEPT ![t] = label] /\ label \in Labels
    BY Zenon DEF Goto, Labels
  <2>2. StatusOf(label) = "done" /\ StatusOf(pc[t]) = "pending"
    BY Labelled, Zenon
  <2> QED
    BY <2>1, <2>2, Moves, Zenon
<1>4. A!TakeEffect(t, "sc", A!YesNo(FALSE))
  BY <1>1, <1>3, Zenon DEF A!TakeEffect, A!YesNo, A!Answer, YesNo, Answer
<1>5. UNCHANGED <<lval, absStamp>>
  BY StampSame, Zenon
<1> QED
  BY <1>2, <1>4, <1>5, Zenon DEF A!StoreFails

(* A call begins.                                                          *)
LEMMA InvokeRefines ==
  ASSUME TypeOK, TypeOK', NEW t \in Thread, CallLL(t) \/ CallLV(t) \/ CallSC(t)
  PROVE  A!Invoke(t)
<1>1. PICK o \in {"ll", "lv", "sc"}, c \in Cell, n \in Nat, v \in Value,
            label \in {"ll_version", "lv_version", "sc_version"} :
        Call(t, o, c, n, v, label)
  BY ConstantsAssumption, SMTT(60) DEF CallLL, CallLV, CallSC, Tags, TypeOK
<1>2. absStatus[t] = "idle" /\ absStatus' = [absStatus EXCEPT ![t] = "pending"]
  <2>1. pc' = [pc EXCEPT ![t] = label] /\ label \in Labels /\ pc[t] = "idle"
    BY <1>1, Zenon DEF Call, Goto, Labels
  <2>2. StatusOf(label) = "pending" /\ StatusOf(pc[t]) = "idle"
    BY <2>1, Labelled, Zenon
  <2> QED
    BY <2>1, <2>2, Moves, Zenon
<1>3. /\ op' = [op EXCEPT ![t] = o]
      /\ cell' = [cell EXCEPT ![t] = c]
      /\ arg' = [arg EXCEPT ![t] = v]
      /\ tag' = [tag EXCEPT ![t] = n]
      /\ UNCHANGED <<version, lval, res>>
  BY <1>1, Zenon DEF Call, shared
<1>4. UNCHANGED <<lval, absStamp, res>>
  BY <1>3, StampSame, Zenon
<1>5. tag'[t] = n
  BY <1>3, Zenon DEF TypeOK
<1> QED
  BY <1>2, <1>3, <1>4, <1>5, Zenon DEF A!Invoke

(* The second look at the version is the ll.                               *)
LEMMA LLCheckRefines ==
  ASSUME TypeOK, SeqLockInv, NEW t \in Thread, LLCheck(t),
         Even(ver[t]), version[cell[t]] = ver[t]
  PROVE  A!LoadLinked(t)
<1>1. /\ pc[t] = "ll_val" /\ op[t] = "ll" /\ cell[t] \in Cell /\ ver[t] \in Nat
      /\ todo[t] = {}
  BY Zenon DEF LLCheck, TypeOK, SeqLockInv, CallInv
<1>2. got[t] = lval[cell[t]]
  <2>1. \A w \in Word : got[t][w] = lval[cell[t]][w]
    BY <1>1, Zenon DEF SeqLockInv, ReaderInv
  <2>2. got[t] \in [Word -> Data] /\ lval[cell[t]] \in [Word -> Data]
    BY <1>1, Zenon DEF TypeOK, Value
  <2> QED
    BY <2>1, <2>2, SMTT(60)
<1>3. absStamp[cell[t]] = ver[t]
  BY <1>1, Zenon DEF absStamp, StampOf
<1>4. /\ pc' = [pc EXCEPT ![t] = "done"] /\ "done" \in Labels
      /\ res' = [res EXCEPT ![t] = Answer(TRUE, got[t], ver[t])]
      /\ UNCHANGED <<version, lval, op, cell, tag, arg>>
  BY Zenon DEF LLCheck, Goto, Labels, shared, call
<1>5. absStatus[t] = "pending" /\ absStatus' = [absStatus EXCEPT ![t] = "done"]
  BY <1>1, <1>4, Moves, Labelled, Zenon
<1>6. A!TakeEffect(t, "ll", A!Answer(TRUE, lval[cell[t]], absStamp[cell[t]]))
  <2>1. A!Answer(TRUE, lval[cell[t]], absStamp[cell[t]]) = Answer(TRUE, got[t], ver[t])
    BY <1>2, <1>3, Zenon DEF A!Answer, Answer
  <2> QED
    BY <1>1, <1>4, <1>5, <2>1, Zenon DEF A!TakeEffect
<1>7. UNCHANGED <<lval, absStamp>>
  BY <1>4, StampSame, Zenon
<1> QED
  BY <1>6, <1>7, Zenon DEF A!LoadLinked

(* The look of lv at the version is the lv.                                *)
LEMMA LVVersionRefines ==
  ASSUME TypeOK, SeqLockInv, NEW t \in Thread, LVVersion(t)
  PROVE  A!LinkValid(t)
<1>1. /\ pc[t] = "lv_version" /\ op[t] = "lv" /\ cell[t] \in Cell
      /\ tag[t] \in Nat /\ version[cell[t]] \in Nat
      /\ Even(tag[t]) /\ tag[t] <= version[cell[t]]
  BY Zenon DEF LVVersion, TypeOK, SeqLockInv, CallInv
<1>2. (absStamp[cell[t]] = tag[t]) = (version[cell[t]] = tag[t])
  <2>1. absStamp[cell[t]] = StampOf(version[cell[t]])
    BY <1>1, Zenon DEF absStamp
  <2>2. StampOf(version[cell[t]]) = tag[t] <=> version[cell[t]] = tag[t]
    BY <1>1, StampIsTag, Zenon
  <2> QED
    BY <2>1, <2>2, Zenon
<1>3. /\ pc' = [pc EXCEPT ![t] = "done"] /\ "done" \in Labels
      /\ res' = [res EXCEPT ![t] = YesNo(version[cell[t]] = tag[t])]
      /\ UNCHANGED <<version, lval, op, cell, tag, arg>>
  BY Zenon DEF LVVersion, Goto, Labels, shared, call
<1>4. absStatus[t] = "pending" /\ absStatus' = [absStatus EXCEPT ![t] = "done"]
  BY <1>1, <1>3, Moves, Labelled, Zenon
<1>5. A!YesNo(absStamp[cell[t]] = tag[t]) = YesNo(version[cell[t]] = tag[t])
  BY <1>2, Zenon DEF A!YesNo, A!Answer, YesNo, Answer
<1>6. A!TakeEffect(t, "lv", A!YesNo(absStamp[cell[t]] = tag[t]))
  BY <1>1, <1>3, <1>4, <1>5, Zenon DEF A!TakeEffect
<1>7. UNCHANGED <<lval, absStamp>>
  BY <1>3, StampSame, Zenon
<1> QED
  BY <1>6, <1>7, Zenon DEF A!LinkValid

(* A call returns.                                                         *)
LEMMA ReturnRefines ==
  ASSUME TypeOK, NEW t \in Thread, Return(t)
  PROVE  A!Return(t)
<1>1. /\ pc[t] = "done" /\ pc' = [pc EXCEPT ![t] = "idle"] /\ "idle" \in Labels
      /\ UNCHANGED <<version, lval, op, cell>>
  BY Zenon DEF Return, Goto, Labels, shared
<1>2. absStatus[t] = "done" /\ absStatus' = [absStatus EXCEPT ![t] = "idle"]
  <2>1. StatusOf("idle") = "idle" /\ StatusOf(pc[t]) = "done"
    BY <1>1, Labelled, Zenon
  <2> QED
    BY <1>1, <2>1, Moves, Zenon
<1>3. UNCHANGED <<lval, absStamp>>
  BY <1>1, StampSame, Zenon
<1> QED
  BY <1>1, <1>2, <1>3, Zenon DEF Return, A!Return, A!YesNo, A!Answer, YesNo, Answer

(* The steps LLSC does not see.                                            *)
LEMMA Unseen ==
  ASSUME TypeOK, NEW t \in Thread, NEW label \in Labels, Goto(t, label),
         StatusOf(label) = StatusOf(pc[t]),
         UNCHANGED <<version, lval, op, cell, tag, arg, res>>
  PROVE  UNCHANGED A!vars
<1>1. UNCHANGED absStatus
  BY Moves, Zenon DEF Goto
<1> QED
  BY <1>1, StampSame, Zenon DEF A!vars

(* Copying a word, in or out, is not seen.                                 *)
LEMMA UnseenWork ==
  ASSUME TypeOK, NEW t \in Thread, LLWord(t) \/ SCWord(t)
  PROVE  UNCHANGED A!vars
<1>1. UNCHANGED <<version, lval, pc, op, cell, tag, arg, res>>
  BY Zenon DEF LLWord, SCWord, shared, call
<1> QED
  BY <1>1, StampSame, Zenon DEF A!vars, absStatus

(* Neither are these steps.                                                *)
LEMMA UnseenMove ==
  ASSUME TypeOK, NEW t \in Thread,
         \/ LLVersion(t) \/ SCLock(t) \/ SCUnlock(t)
         \/ CallExpand(t) \/ ExpandLock(t) \/ ExpandUnlock(t)
  PROVE  UNCHANGED A!vars
<1>1. UNCHANGED <<version, lval, op, cell, tag, arg, res>>
  BY Zenon DEF LLVersion, SCLock, SCUnlock, CallExpand, ExpandLock, ExpandUnlock,
         TryLock, Unlock, shared, call
<1>2. CASE LLVersion(t)
  BY <1>1, <1>2, Unseen, Labelled, Zenon DEF LLVersion, Labels
<1>3. CASE SCUnlock(t)
  BY <1>1, <1>3, Unseen, Labelled, Zenon DEF SCUnlock, Unlock, Labels
<1>4. CASE CallExpand(t) \/ ExpandUnlock(t)
  BY <1>1, <1>4, Unseen, Labelled, Zenon DEF CallExpand, ExpandUnlock, Unlock, Labels
<1>5. CASE SCLock(t)
  <2>1. \E l \in {"sc_recheck", "sc_version"} : Goto(t, l) /\ pc[t] = "sc_lock"
    BY <1>5, Zenon DEF SCLock, TryLock
  <2> QED
    BY <1>1, <2>1, Unseen, Labelled, Zenon DEF Labels
<1>6. CASE ExpandLock(t)
  <2>1. \E l \in {"expand_unlock", "idle"} : Goto(t, l) /\ pc[t] = "expand_lock"
    BY <1>6, Zenon DEF ExpandLock, TryLock
  <2> QED
    BY <1>1, <2>1, Unseen, Labelled, Zenon DEF Labels
<1> QED
  BY <1>2, <1>3, <1>4, <1>5, <1>6, Zenon

(* Closing the cell leaves the version LLSC sees where SCOdd put it.       *)
LEMMA SCEvenUnseen ==
  ASSUME TypeOK, SeqLockInv, NEW t \in Thread, SCEven(t)
  PROVE  UNCHANGED A!vars
<1>1. /\ pc[t] = "sc_val" /\ cell[t] \in Cell /\ tag[t] \in Nat /\ Even(tag[t])
      /\ ver[t] = tag[t] /\ version[cell[t]] = tag[t] + 1
  BY Zenon DEF SCEven, TypeOK, SeqLockInv, WriterOwnsCell, CallInv, SCLabels
<1>2. /\ version' = [version EXCEPT ![cell[t]] = tag[t] + 2]
      /\ pc' = [pc EXCEPT ![t] = "sc_unlock"] /\ "sc_unlock" \in Labels
      /\ UNCHANGED <<lval, op, cell, tag, arg, res>>
  BY <1>1, Zenon DEF SCEven, Goto, Labels, call
<1>3. StampOf(tag[t] + 1) = StampOf(tag[t] + 2)
  <2>1. ~Even(tag[t] + 1) /\ Even(tag[t] + 2)
    BY <1>1, Parity, Zenon
  <2>2. (tag[t] + 1) + 1 = tag[t] + 2
    BY <1>1, SMTT(60)
  <2> QED
    BY <2>1, <2>2, Zenon DEF StampOf
<1>4. \A c \in Cell : StampOf(version'[c]) = StampOf(version[c])
  BY <1>1, <1>2, <1>3, Zenon DEF TypeOK
<1>5. UNCHANGED absStamp
  BY <1>4, Zenon DEF absStamp
<1>6. StatusOf("sc_unlock") = StatusOf(pc[t])
  BY <1>1, Labelled, Zenon
<1>7. UNCHANGED absStatus
  BY <1>2, <1>6, Moves, Zenon
<1> QED
  BY <1>2, <1>5, <1>7, Zenon DEF A!vars

(* A look at the version ends an ll, ends an sc that fails, or is not      *)
(* seen.                                                                   *)
LEMMA CheckRefines ==
  ASSUME TypeOK, SeqLockInv, NEW t \in Thread,
         LLCheck(t) \/ SCVersion(t) \/ SCRecheck(t)
  PROVE  A!LoadLinked(t) \/ A!StoreFails(t) \/ UNCHANGED A!vars
<1>1. CASE LLCheck(t) /\ Even(ver[t]) /\ version[cell[t]] = ver[t]
  BY <1>1, LLCheckRefines, Zenon
<1>2. CASE LLCheck(t) /\ ~(Even(ver[t]) /\ version[cell[t]] = ver[t])
  <2>1. /\ Goto(t, "ll_version") /\ pc[t] = "ll_val"
        /\ UNCHANGED <<version, lval, op, cell, tag, arg, res>>
    BY <1>2, Zenon DEF LLCheck, shared, call
  <2> QED
    BY <2>1, Unseen, Labelled, Zenon DEF Labels
<1>3. CASE (SCVersion(t) \/ SCRecheck(t)) /\ version[cell[t]] # tag[t]
  <2>1. /\ pc[t] \in {"sc_version", "sc_recheck"}
        /\ res' = [res EXCEPT ![t] = YesNo(FALSE)]
        /\ UNCHANGED <<version, lval, op, cell, tag, arg>>
    BY <1>3, Zenon DEF SCVersion, SCRecheck, shared, call
  <2>2. Goto(t, "done") \/ Goto(t, "sc_unlock")
    BY <1>3, Zenon DEF SCVersion, SCRecheck
  <2> QED
    BY <1>3, <2>1, <2>2, StoreFailsRefines, Zenon
<1>4. CASE (SCVersion(t) \/ SCRecheck(t)) /\ version[cell[t]] = tag[t]
  <2>1. /\ pc[t] \in {"sc_version", "sc_recheck"}
        /\ UNCHANGED <<version, lval, op, cell, tag, arg, res>>
    BY <1>4, Zenon DEF SCVersion, SCRecheck, shared, call
  <2>2. Goto(t, "sc_lock") \/ Goto(t, "sc_odd")
    BY <1>4, Zenon DEF SCVersion, SCRecheck
  <2> QED
    BY <2>1, <2>2, Unseen, Labelled, Zenon DEF Labels
<1> QED
  BY <1>1, <1>2, <1>3, <1>4, Zenon

(* Every step is a step of LLSC, or none.                                  *)
LEMMA StepRefines ==
  ASSUME TypeOK, TypeOK', SeqLockInv, [Next]_vars
  PROVE  [A!Next]_(A!vars)
<1>1. CASE UNCHANGED vars
  BY <1>1, Zenon DEF vars, shared, call, A!vars, absStamp, absStatus
<1>2. ASSUME NEW t \in Thread,
             CallLL(t) \/ CallLV(t) \/ CallSC(t) \/ CallExpand(t) \/ Step(t)
      PROVE  [A!Next]_(A!vars)
  <2>1. CASE CallLL(t) \/ CallLV(t) \/ CallSC(t)
    BY <2>1, InvokeRefines, Zenon DEF A!Next
  <2>2. CASE LLCheck(t) \/ SCVersion(t) \/ SCRecheck(t)
    BY <2>2, CheckRefines, Zenon DEF A!Next
  <2>3. CASE LVVersion(t)
    BY <2>3, LVVersionRefines, Zenon DEF A!Next
  <2>4. CASE SCOdd(t)
    BY <2>4, SCOddRefines, Zenon DEF A!Next
  <2>5. CASE Return(t)
    BY <2>5, ReturnRefines, Zenon DEF A!Next
  <2>6. CASE SCEven(t)
    BY <2>6, SCEvenUnseen, Zenon
  <2>7. CASE LLWord(t) \/ SCWord(t)
    BY <2>7, UnseenWork, Zenon
  <2>8. CASE \/ LLVersion(t) \/ SCLock(t) \/ SCUnlock(t)
             \/ CallExpand(t) \/ ExpandLock(t) \/ ExpandUnlock(t)
    BY <2>8, UnseenMove, Zenon
  <2> QED
    BY <1>2, <2>1, <2>2, <2>3, <2>4, <2>5, <2>6, <2>7, <2>8, Zenon DEF Step
<1> QED
  BY <1>1, <1>2, Zenon DEF Next

(* The sequence lock implements load-linked/store-conditional cells: every *)
(* behaviour of ll, lv and sc as coded in bigatomic.h is one in which each *)
(* call takes effect in a single step.                                     *)
THEOREM Refinement == Spec => ImplementsLLSC
<1>1. Init => A!Init
  BY EvenZero DEF Init, A!Init, A!YesNo, A!Answer, YesNo, Answer, absStamp,
                  absStatus, StampOf, StatusOf
<1>2. TypeOK /\ TypeOK' /\ SeqLockInv /\ [Next]_vars => [A!Next]_(A!vars)
  BY StepRefines, Zenon
<1> QED
  BY <1>1, <1>2, TypeCorrect, SeqLockCorrect, PTL DEF Spec, ImplementsLLSC, A!Spec
=============================================================================
