---------------------------- MODULE UnorderedMap ----------------------------
(***************************************************************************)
(* What parlay_hash promises (README.md, lines 61-106): a map from keys to *)
(* values that Find, Insert, Upsert and Remove read and change in one      *)
(* step, some time between their invocation and their response; for_each   *)
(* and size, which change nothing; and clear, which takes keys away a few  *)
(* at a time.                                                              *)
(***************************************************************************)
CONSTANTS Thread, Key, Val,
          Call,        \* the calls that are made: records with op, key and val
          None,        \* the empty optional
          Change       \* Change[v]: what the function given to Upsert returns for v

VARIABLES map,      \* map[k]: the value of key k, None if it is not there
          status,   \* status[t]: "idle", "pending" or "done"
          call,     \* call[t]: the call of thread t, None if it is idle
          result    \* result[t]: what the call returns, once it is done

vars == <<map, status, call, result>>

Walks == {"for_each", "clear"}

(* What key c.key is mapped to after call c.                               *)
Effect(c) ==
  CASE c.op = "find"   -> map[c.key]
    [] c.op = "insert" -> IF map[c.key] = None THEN c.val ELSE map[c.key]
    [] c.op = "upsert" -> Change[map[c.key]]
    [] c.op = "remove" -> None

Init ==
  /\ map \in [Key -> Val \cup {None}]
  /\ status = [t \in Thread |-> "idle"]
  /\ call = [t \in Thread |-> None]
  /\ result = [t \in Thread |-> None]

Invoke(t) ==
  /\ status[t] = "idle"
  /\ status' = [status EXCEPT ![t] = "pending"]
  /\ \E c \in Call : call' = [call EXCEPT ![t] = c]
  /\ UNCHANGED <<map, result>>

(* Every call returns the value the key had before it.                     *)
TakeEffect(t) ==
  /\ status[t] = "pending"
  /\ call[t].op \notin Walks
  /\ status' = [status EXCEPT ![t] = "done"]
  /\ result' = [result EXCEPT ![t] = map[call[t].key]]
  /\ map' = [map EXCEPT ![call[t].key] = Effect(call[t])]
  /\ UNCHANGED call

TakeAway(t) ==
  /\ status[t] = "pending"
  /\ call[t].op = "clear"
  /\ \E gone \in SUBSET Key : map' = [k \in Key |-> IF k \in gone THEN None ELSE map[k]]
  /\ UNCHANGED <<status, call, result>>

Return(t) ==
  /\ \/ status[t] = "done"
     \/ status[t] = "pending" /\ call[t].op \in Walks
  /\ status' = [status EXCEPT ![t] = "idle"]
  /\ call' = [call EXCEPT ![t] = None]
  /\ result' = [result EXCEPT ![t] = None]
  /\ UNCHANGED map

Next ==
  \E t \in Thread : Invoke(t) \/ TakeEffect(t) \/ TakeAway(t) \/ Return(t)

Spec == Init /\ [][Next]_vars
=============================================================================
