----------------------------- MODULE BigAtomic ------------------------------
(***************************************************************************)
(* big_atomic<V> (bigatomic.h): a value of several machine words, made     *)
(* atomic by a sequence lock.  A version that is odd while the words are   *)
(* being written lets a reader notice that what it copied is torn; writers *)
(* exclude each other with a lock found by hashing the address of the cell *)
(* (lock.h), so that different cells, and expand_table, may share a lock.  *)
(*                                                                         *)
(* One action per access to shared memory.  The words of a value are       *)
(* copied one at a time and in any order: val is not atomic, and a copy    *)
(* that races with a write sees any mixture of old and new words.          *)
(***************************************************************************)
EXTENDS Integers

CONSTANTS Thread,      \* the threads
          Cell,        \* the big_atomic objects
          Word,        \* the machine words of a value
          Data,        \* what a word may hold
          InitValue,   \* the value the cells are constructed with
          Lock,        \* the entries of the lock set
          LockOf,      \* the hash of a cell's address: [Cell -> Lock]
          MaxVersion   \* bound: no sc is called on a cell that reached it

Value == [Word -> Data]

ASSUME ConstantsAssumption ==
  /\ InitValue \in Value
  /\ LockOf \in [Cell -> Lock]
  /\ MaxVersion \in Nat

VARIABLES version,  \* version[c]: odd while a writer is inside the cell
          val,      \* val[c]: the words in memory
          locks,    \* locks[l]: whether entry l of the lock set is taken
          pc,       \* pc[t]: the next access of thread t
          op, cell, tag, arg,  \* the call of t and its parameters
          ver,      \* ver[t]: the version t loaded first
          todo,     \* todo[t]: the words t has still to copy
          got,      \* got[t]: the words t copied out so far
          want,     \* want[t]: the lock t is after
          res,      \* res[t]: the answer of t's last call
          lval      \* lval[c]: the value of the last sc that took effect

shared == <<version, val, locks, lval>>
call == <<op, cell, tag, arg>>
vars == <<shared, pc, call, ver, todo, got, want, res>>

Even(n) == n % 2 = 0

Answer(ok, v, n) == [ok |-> ok, val |-> v, tag |-> n]

YesNo(b) == Answer(b, InitValue, 0)

Goto(t, label) == pc' = [pc EXCEPT ![t] = label]

-----------------------------------------------------------------------------
(* A constructed cell: version 0 and a complete value.                     *)
Init ==
  /\ version = [c \in Cell |-> 0]
  /\ val = [c \in Cell |-> InitValue]
  /\ lval = val
  /\ locks = [l \in Lock |-> FALSE]
  /\ pc = [t \in Thread |-> "idle"]
  /\ op = [t \in Thread |-> "ll"]
  /\ cell \in [Thread -> Cell]
  /\ tag = [t \in Thread |-> 0]
  /\ arg = [t \in Thread |-> InitValue]
  /\ ver = [t \in Thread |-> 0]
  /\ todo = [t \in Thread |-> {}]
  /\ got = [t \in Thread |-> InitValue]
  /\ want = [t \in Thread |-> LockOf[cell[t]]]
  /\ res = [t \in Thread |-> YesNo(TRUE)]

Call(t, o, c, n, v, label) ==
  /\ pc[t] = "idle"
  /\ Goto(t, label)
  /\ op' = [op EXCEPT ![t] = o]
  /\ cell' = [cell EXCEPT ![t] = c]
  /\ tag' = [tag EXCEPT ![t] = n]
  /\ arg' = [arg EXCEPT ![t] = v]
  /\ want' = [want EXCEPT ![t] = LockOf[c]]
  /\ UNCHANGED <<shared, ver, todo, got, res>>

(* The tags ll may have returned for cell c so far.                        *)
Tags(c) == {n \in 0..version[c] : Even(n)}

CallLL(t) == \E c \in Cell : Call(t, "ll", c, 0, InitValue, "ll_version")

CallLV(t) ==
  \E c \in Cell : \E n \in Tags(c) : Call(t, "lv", c, n, InitValue, "lv_version")

CallSC(t) ==
  \E c \in Cell : \E n \in Tags(c), v \in Value :
    /\ version[c] < MaxVersion
    /\ Call(t, "sc", c, n, v, "sc_version")

-----------------------------------------------------------------------------
(* ll, and load, which is ll with the tag dropped.                         *)
LLVersion(t) ==
  /\ pc[t] = "ll_version"
  /\ ver' = [ver EXCEPT ![t] = version[cell[t]]]
  /\ todo' = [todo EXCEPT ![t] = Word]
  /\ Goto(t, "ll_val")
  /\ UNCHANGED <<shared, call, got, want, res>>

LLWord(t) ==
  /\ pc[t] = "ll_val"
  /\ \E w \in todo[t] :
       /\ got' = [got EXCEPT ![t][w] = val[cell[t]][w]]
       /\ todo' = [todo EXCEPT ![t] = @ \ {w}]
  /\ UNCHANGED <<shared, pc, call, ver, want, res>>

(* Mutant: the copy counts although a writer was inside.                   *)
LLCheckIgnoringParity(t) ==
  /\ pc[t] = "ll_val"
  /\ todo[t] = {}
  /\ IF version[cell[t]] = ver[t]
       THEN /\ res' = [res EXCEPT ![t] = Answer(TRUE, got[t], ver[t])]
            /\ Goto(t, "done")
       ELSE /\ Goto(t, "ll_version")
            /\ UNCHANGED res
  /\ UNCHANGED <<shared, call, ver, todo, got, want>>

(* The copy counts only if the version was even and has not moved.         *)
LLCheck(t) ==
  /\ pc[t] = "ll_val"
  /\ todo[t] = {}
  /\ IF Even(ver[t]) /\ version[cell[t]] = ver[t]
       THEN /\ res' = [res EXCEPT ![t] = Answer(TRUE, got[t], ver[t])]
            /\ Goto(t, "done")
       ELSE /\ Goto(t, "ll_version")
            /\ UNCHANGED res
  /\ UNCHANGED <<shared, call, ver, todo, got, want>>

LVVersion(t) ==
  /\ pc[t] = "lv_version"
  /\ res' = [res EXCEPT ![t] = YesNo(version[cell[t]] = tag[t])]
  /\ Goto(t, "done")
  /\ UNCHANGED <<shared, call, ver, todo, got, want>>

-----------------------------------------------------------------------------
(* sc                                                                      *)
SCVersion(t) ==
  /\ pc[t] = "sc_version"
  /\ IF version[cell[t]] = tag[t]
       THEN /\ ver' = [ver EXCEPT ![t] = version[cell[t]]]
            /\ Goto(t, "sc_lock")
            /\ UNCHANGED res
       ELSE /\ res' = [res EXCEPT ![t] = YesNo(FALSE)]
            /\ Goto(t, "done")
            /\ UNCHANGED ver
  /\ UNCHANGED <<shared, call, todo, got, want>>

(* lock_set::try_lock: one compare-and-swap.                               *)
TryLock(t, taken, failed) ==
  /\ IF locks[want[t]]
       THEN Goto(t, failed) /\ UNCHANGED locks
       ELSE Goto(t, taken) /\ locks' = [locks EXCEPT ![want[t]] = TRUE]
  /\ UNCHANGED <<version, val, lval, call, ver, todo, got, want, res>>

SCLock(t) == pc[t] = "sc_lock" /\ TryLock(t, "sc_recheck", "sc_version")
(* Mutant: the version is not looked at again under the lock.              *)
SCNoRecheck(t) ==
  /\ pc[t] = "sc_recheck"
  /\ Goto(t, "sc_odd")
  /\ UNCHANGED <<shared, call, ver, todo, got, want, res>>

(* Mutant: a failed sc returns with the lock still taken.                  *)
SCRecheckKeepingLock(t) ==
  /\ pc[t] = "sc_recheck"
  /\ IF version[cell[t]] # tag[t]
       THEN /\ res' = [res EXCEPT ![t] = YesNo(FALSE)]
            /\ Goto(t, "done")
       ELSE /\ Goto(t, "sc_odd")
            /\ UNCHANGED res
  /\ UNCHANGED <<shared, call, ver, todo, got, want>>

SCRecheck(t) ==
  /\ pc[t] = "sc_recheck"
  /\ IF version[cell[t]] # tag[t]
       THEN /\ res' = [res EXCEPT ![t] = YesNo(FALSE)]
            /\ Goto(t, "sc_unlock")
       ELSE /\ Goto(t, "sc_odd")
            /\ UNCHANGED res
  /\ UNCHANGED <<shared, call, ver, todo, got, want>>

(* Mutant: the version is taken down instead of up.                        *)
SCOddDown(t) ==
  /\ pc[t] = "sc_odd"
  /\ version' = [version EXCEPT ![cell[t]] = ver[t] - 1]
  /\ lval' = [lval EXCEPT ![cell[t]] = arg[t]]
  /\ res' = [res EXCEPT ![t] = YesNo(TRUE)]
  /\ todo' = [todo EXCEPT ![t] = Word]
  /\ Goto(t, "sc_val")
  /\ UNCHANGED <<val, locks, call, ver, got, want>>

(* The first store of the version is where a successful sc takes effect:   *)
(* from here on no ll can return the old value.                            *)
SCOdd(t) ==
  /\ pc[t] = "sc_odd"
  /\ version' = [version EXCEPT ![cell[t]] = ver[t] + 1]
  /\ lval' = [lval EXCEPT ![cell[t]] = arg[t]]
  /\ res' = [res EXCEPT ![t] = YesNo(TRUE)]
  /\ todo' = [todo EXCEPT ![t] = Word]
  /\ Goto(t, "sc_val")
  /\ UNCHANGED <<val, locks, call, ver, got, want>>

SCWord(t) ==
  /\ pc[t] = "sc_val"
  /\ \E w \in todo[t] :
       /\ val' = [val EXCEPT ![cell[t]][w] = arg[t][w]]
       /\ todo' = [todo EXCEPT ![t] = @ \ {w}]
  /\ UNCHANGED <<version, locks, lval, pc, call, ver, got, want, res>>
(* Mutant: the version goes back to what it was before the sc.             *)
SCEvenRestoring(t) ==
  /\ pc[t] = "sc_val"
  /\ todo[t] = {}
  /\ version' = [version EXCEPT ![cell[t]] = ver[t]]
  /\ Goto(t, "sc_unlock")
  /\ UNCHANGED <<val, locks, lval, call, ver, todo, got, want, res>>

SCEven(t) ==
  /\ pc[t] = "sc_val"
  /\ todo[t] = {}
  /\ version' = [version EXCEPT ![cell[t]] = ver[t] + 2]
  /\ Goto(t, "sc_unlock")
  /\ UNCHANGED <<val, locks, lval, call, ver, todo, got, want, res>>
(* Mutant: the lock is not given back.                                     *)
UnlockForgotten(t, after) ==
  /\ Goto(t, after)
  /\ UNCHANGED <<version, val, lval, locks, call, ver, todo, got, want, res>>

Unlock(t, after) ==
  /\ locks' = [locks EXCEPT ![want[t]] = FALSE]
  /\ Goto(t, after)
  /\ UNCHANGED <<version, val, lval, call, ver, todo, got, want, res>>

SCUnlock(t) == pc[t] = "sc_unlock" /\ Unlock(t, "done")

(* The caller has the answer; parameters and locals go out of scope.       *)
Return(t) ==
  /\ pc[t] = "done"
  /\ Goto(t, "idle")
  /\ tag' = [tag EXCEPT ![t] = 0]
  /\ arg' = [arg EXCEPT ![t] = InitValue]
  /\ ver' = [ver EXCEPT ![t] = 0]
  /\ got' = [got EXCEPT ![t] = InitValue]
  /\ res' = [res EXCEPT ![t] = YesNo(TRUE)]
  /\ UNCHANGED <<shared, op, cell, todo, want>>

-----------------------------------------------------------------------------
(* expand_table takes a lock of the same set, found by hashing the address *)
(* of a table version, and gives up at once if it is taken.                *)
CallExpand(t) ==
  /\ pc[t] = "idle"
  /\ \E l \in Lock : want' = [want EXCEPT ![t] = l]
  /\ Goto(t, "expand_lock")
  /\ UNCHANGED <<shared, call, ver, todo, got, res>>

ExpandLock(t) == pc[t] = "expand_lock" /\ TryLock(t, "expand_unlock", "idle")

ExpandUnlock(t) == pc[t] = "expand_unlock" /\ Unlock(t, "idle")

-----------------------------------------------------------------------------
(* What a thread does once it is called.                                   *)
Step(t) ==
  \/ LLVersion(t)
  \/ LLWord(t)
  \/ LLCheck(t)
  \/ LVVersion(t)
  \/ SCVersion(t)
  \/ SCLock(t)
  \/ SCRecheck(t)
  \/ SCOdd(t)
  \/ SCWord(t)
  \/ SCEven(t)
  \/ SCUnlock(t)
  \/ Return(t)
  \/ ExpandLock(t)
  \/ ExpandUnlock(t)

Next ==
  \E t \in Thread :
    \/ CallLL(t)
    \/ CallLV(t)
    \/ CallSC(t)
    \/ CallExpand(t)
    \/ Step(t)

Spec == Init /\ [][Next]_vars

(* The operating system runs every thread now and then.                    *)
FairSpec == Spec /\ \A t \in Thread : WF_vars(Step(t))

-----------------------------------------------------------------------------
Labels ==
  {"idle", "done", "ll_version", "ll_val", "lv_version", "sc_version",
   "sc_lock", "sc_recheck", "sc_odd", "sc_val", "sc_unlock",
   "expand_lock", "expand_unlock"}

(* Every variable has the type of the C++ field it stands for.             *)
TypeOK ==
  /\ version \in [Cell -> Nat]
  /\ val \in [Cell -> Value]
  /\ lval \in [Cell -> Value]
  /\ locks \in [Lock -> BOOLEAN]
  /\ pc \in [Thread -> Labels]
  /\ op \in [Thread -> {"ll", "lv", "sc"}]
  /\ cell \in [Thread -> Cell]
  /\ tag \in [Thread -> Nat]
  /\ arg \in [Thread -> Value]
  /\ ver \in [Thread -> Nat]
  /\ todo \in [Thread -> SUBSET Word]
  /\ got \in [Thread -> Value]
  /\ want \in [Thread -> Lock]
  /\ res \in [Thread -> [ok : BOOLEAN, val : Value, tag : Nat]]

Holding == {"sc_recheck", "sc_odd", "sc_val", "sc_unlock", "expand_unlock"}

(* The lock set works: a lock is marked taken exactly while one thread is  *)
(* between try_lock's compare-and-swap and its store of false, and no two  *)
(* threads hold the same lock, whatever cells hash to it.                  *)
LockExclusion ==
  /\ \A s, t \in Thread :
       pc[s] \in Holding /\ pc[t] \in Holding /\ want[s] = want[t] => s = t
  /\ \A l \in Lock : locks[l] <=> \E t \in Thread : pc[t] \in Holding /\ want[t] = l

(* A cell whose version is even holds, complete, the value of the last sc  *)
(* that took effect on it; only an odd version hides a half-written value. *)
EvenIsComplete == \A c \in Cell : Even(version[c]) => val[c] = lval[c]

(* A writer between its two stores of the version is alone in its cell:    *)
(* the version is the one it stored, one above its tag, until it leaves.   *)
WriterOwnsCell ==
  \A t \in Thread :
    /\ pc[t] = "sc_odd" => version[cell[t]] = tag[t]
    /\ pc[t] = "sc_val" => version[cell[t]] = tag[t] + 1

SCLabels ==
  {"sc_version", "sc_lock", "sc_recheck", "sc_odd", "sc_val", "sc_unlock"}

(* What a thread knows of its own call.                                    *)
CallInv(t) ==
  /\ pc[t] \in {"ll_version", "ll_val"} => op[t] = "ll"
  /\ pc[t] = "lv_version" => op[t] = "lv"
  /\ pc[t] \in SCLabels => op[t] = "sc" /\ want[t] = LockOf[cell[t]]
  /\ pc[t] \in SCLabels \cup {"lv_version"} =>
       Even(tag[t]) /\ tag[t] <= version[cell[t]]
  /\ pc[t] \in {"sc_lock", "sc_recheck", "sc_odd", "sc_val"} => ver[t] = tag[t]

(* A writer has put the words it is done with in place.                    *)
WriterInv(t) ==
  pc[t] = "sc_val" =>
    /\ lval[cell[t]] = arg[t]
    /\ \A w \in Word \ todo[t] : val[cell[t]][w] = arg[t][w]

(* A reader whose version still stands has copied the current value.       *)
ReaderInv(t) ==
  pc[t] = "ll_val" =>
    /\ ver[t] <= version[cell[t]]
    /\ Even(ver[t]) /\ version[cell[t]] = ver[t] =>
         \A w \in Word \ todo[t] : got[t][w] = lval[cell[t]][w]

(* The copy a reader is about to return is the value of the last sc that   *)
(* took effect, and every writer finishes what it started: the inductive   *)
(* invariant of the sequence lock.                                         *)
SeqLockInv ==
  /\ LockExclusion
  /\ EvenIsComplete
  /\ WriterOwnsCell
  /\ \A t \in Thread : CallInv(t) /\ WriterInv(t) /\ ReaderInv(t)

(* A step takes no version back, and changes the words of a cell only      *)
(* while its version is odd (lines 79-82 of bigatomic.h).                  *)
DisciplinedStep ==
  \A c \in Cell : /\ version'[c] >= version[c]
                  /\ val'[c] # val[c] => ~Even(version[c])

(* Every step keeps that discipline, so a reader that sees an even version *)
(* twice has copied words nobody touched in between.                       *)
VersionDiscipline == [][DisciplinedStep]_vars

(* A lock that is taken is always given back: try_lock runs nothing that   *)
(* waits for another lock or for another thread (lines 33-36 of lock.h).   *)
LocksReleased == \A l \in Lock : []<>~locks[l]

(* Every call returns, unless other threads take locks for ever: ll loops  *)
(* only while a writer is in the cell, and sc retries only when its lock   *)
(* is held, which a cell or a table version that hashes to the same lock   *)
(* may cause again and again.                                              *)
CallsReturn ==
  \A t \in Thread :
    \/ []<>(pc[t] = "idle")
    \/ []<>(\E s \in Thread \ {t} : pc[s] \in Holding)

-----------------------------------------------------------------------------
(* The mapping to LLSC.                                                    *)
TookEffect == {"done", "sc_val", "sc_unlock"}

StatusOf(label) ==
  IF label \in {"idle", "expand_lock", "expand_unlock"} THEN "idle"
  ELSE IF label \in TookEffect THEN "done" ELSE "pending"

absStatus == [t \in Thread |-> StatusOf(pc[t])]

StampOf(n) == IF Even(n) THEN n ELSE n + 1

absStamp == [c \in Cell |-> StampOf(version[c])]

A == INSTANCE LLSC WITH value <- lval, stamp <- absStamp, status <- absStatus

(* Load-linked, validate and store-conditional behave as if each were one  *)
(* indivisible step: no torn value is ever returned, an sc succeeds only   *)
(* if no other succeeded since its tag was handed out, and a tag that went *)
(* stale stays stale.                                                      *)
ImplementsLLSC == A!Spec
=============================================================================
