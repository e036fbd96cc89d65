-------------------------------- MODULE LLSC --------------------------------
(***************************************************************************)
(* What big_atomic<V> promises to its users: every cell holds one value    *)
(* that is read and replaced in a single step.  An operation is invoked,   *)
(* takes effect once between its invocation and its response, and returns. *)
(*                                                                         *)
(*   ll(c)         returns the value of c and a tag that names the version *)
(*                 of c it belongs to (load is ll with the tag dropped);   *)
(*   lv(c, tag)    says whether c is still at the version tag names;       *)
(*   sc(c, tag, v) replaces the value of c by v if c is still at the       *)
(*                 version tag names, and says whether it did.             *)
(*                                                                         *)
(* A successful sc gives the cell a version it never had before, so a tag  *)
(* never becomes valid again.                                              *)
(***************************************************************************)
EXTENDS Naturals

CONSTANTS Thread, Cell, Value, InitValue

VARIABLES value,    \* value[c]: the value of cell c
          stamp,    \* stamp[c]: the version of cell c
          status,   \* status[t]: "idle", "pending" or "done"
          op,       \* op[t], cell[t], tag[t], arg[t]: the call of thread t
          cell,
          tag,
          arg,
          res       \* res[t]: the answer of the last call that took effect

vars == <<value, stamp, status, op, cell, tag, arg, res>>

Answer(ok, v, n) == [ok |-> ok, val |-> v, tag |-> n]

YesNo(b) == Answer(b, InitValue, 0)

Init ==
  /\ value = [c \in Cell |-> InitValue]
  /\ stamp = [c \in Cell |-> 0]
  /\ status = [t \in Thread |-> "idle"]
  /\ op = [t \in Thread |-> "ll"]
  /\ cell \in [Thread -> Cell]
  /\ tag = [t \in Thread |-> 0]
  /\ arg = [t \in Thread |-> InitValue]
  /\ res = [t \in Thread |-> YesNo(TRUE)]

Invoke(t) ==
  /\ status[t] = "idle"
  /\ status' = [status EXCEPT ![t] = "pending"]
  /\ \E o \in {"ll", "lv", "sc"} : op' = [op EXCEPT ![t] = o]
  /\ \E c \in Cell : cell' = [cell EXCEPT ![t] = c]
  /\ \E v \in Value : arg' = [arg EXCEPT ![t] = v]
  /\ tag'[t] \in Nat
  /\ tag' = [tag EXCEPT ![t] = tag'[t]]
  /\ UNCHANGED <<value, stamp, res>>

TakeEffect(t, o, answer) ==
  /\ status[t] = "pending"
  /\ op[t] = o
  /\ status' = [status EXCEPT ![t] = "done"]
  /\ res' = [res EXCEPT ![t] = answer]
  /\ UNCHANGED <<op, cell, tag, arg>>

LoadLinked(t) ==
  /\ TakeEffect(t, "ll", Answer(TRUE, value[cell[t]], stamp[cell[t]]))
  /\ UNCHANGED <<value, stamp>>

LinkValid(t) ==
  /\ TakeEffect(t, "lv", YesNo(stamp[cell[t]] = tag[t]))
  /\ UNCHANGED <<value, stamp>>

StoreSucceeds(t) ==
  /\ stamp[cell[t]] = tag[t]
  /\ TakeEffect(t, "sc", YesNo(TRUE))
  /\ value' = [value EXCEPT ![cell[t]] = arg[t]]
  /\ stamp'[cell[t]] > stamp[cell[t]]
  /\ stamp' = [stamp EXCEPT ![cell[t]] = stamp'[cell[t]]]

StoreFails(t) ==
  /\ stamp[cell[t]] # tag[t]
  /\ TakeEffect(t, "sc", YesNo(FALSE))
  /\ UNCHANGED <<value, stamp>>

(* The caller has the answer; the parameters of the call go out of scope.  *)
Return(t) ==
  /\ status[t] = "done"
  /\ status' = [status EXCEPT ![t] = "idle"]
  /\ tag' = [tag EXCEPT ![t] = 0]
  /\ arg' = [arg EXCEPT ![t] = InitValue]
  /\ res' = [res EXCEPT ![t] = YesNo(TRUE)]
  /\ UNCHANGED <<value, stamp, op, cell>>

Next ==
  \E t \in Thread :
    \/ Invoke(t)
    \/ LoadLinked(t)
    \/ LinkValid(t)
    \/ StoreSucceeds(t)
    \/ StoreFails(t)
    \/ Return(t)

Spec == Init /\ [][Next]_vars
=============================================================================
