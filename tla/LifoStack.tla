----------------------------- MODULE LifoStack ------------------------------
(***************************************************************************)
(* What hazptr_stack.h promises: "A minimal, low-level, linearizable,      *)
(* lock-free concurrent stack".  A call takes effect at once, at some time *)
(* between its invocation and its response.                                *)
(***************************************************************************)
EXTENDS Sequences

CONSTANTS Thread, Value, None

VARIABLES stack,    \* the elements, the top first
          status,   \* status[t]: "idle", "pending" or "done"
          arg,      \* arg[t]: what t pushes, or None for a pop
          result    \* result[t]: what a pop that is done returns, None when empty

vars == <<stack, status, arg, result>>

Init ==
  /\ stack = <<>>
  /\ status = [t \in Thread |-> "idle"]
  /\ arg = [t \in Thread |-> None]
  /\ result = [t \in Thread |-> None]

Invoke(t) ==
  /\ status[t] = "idle"
  /\ status' = [status EXCEPT ![t] = "pending"]
  /\ \E v \in Value \cup {None} : arg' = [arg EXCEPT ![t] = v]
  /\ UNCHANGED <<stack, result>>

Push(t) ==
  /\ status[t] = "pending" /\ arg[t] # None
  /\ stack' = <<arg[t]>> \o stack
  /\ status' = [status EXCEPT ![t] = "done"]
  /\ UNCHANGED <<arg, result>>

Pop(t) ==
  /\ status[t] = "pending" /\ arg[t] = None
  /\ IF stack = <<>> THEN UNCHANGED <<stack, result>>
     ELSE stack' = Tail(stack) /\ result' = [result EXCEPT ![t] = Head(stack)]
  /\ status' = [status EXCEPT ![t] = "done"]
  /\ UNCHANGED arg

Return(t) ==
  /\ status[t] = "done"
  /\ status' = [status EXCEPT ![t] = "idle"]
  /\ arg' = [arg EXCEPT ![t] = None]
  /\ result' = [result EXCEPT ![t] = None]
  /\ UNCHANGED stack

Next == \E t \in Thread : Invoke(t) \/ Push(t) \/ Pop(t) \/ Return(t)

Spec == Init /\ [][Next]_vars
=============================================================================
