---------------------------- MODULE MCParlayHash ----------------------------
(***************************************************************************)
(* Instances of ParlayHash: buckets with room for one entry, two or three  *)
(* versions, a few calls.                                                  *)
(***************************************************************************)
EXTENDS ParlayHash, TLC

CONSTANTS t1, t2, k1, k2, k3, k4, v0, v1

Symmetry == Permutations({t1, t2})

(* Buckets 0 to 3: k1, k2 and k3 start in bucket 1, k4 in bucket 2, and in *)
(* blocks of two either key has the other one's bucket copied.             *)
HashOf == k1 :> 2 @@ k2 :> 3 @@ k3 :> 3 @@ k4 :> 4

(* One bucket, which k1 leaves first, and where k4 joins k2 and k3 so that *)
(* the table grows once more.                                              *)
HashAgain == k1 :> 0 @@ k2 :> 2 @@ k3 :> 3 @@ k4 :> 2

Flip == v0 :> v1 @@ v1 :> v0 @@ None :> v1

Entry(k) == [key |-> k, val |-> v0]
ThreeEntries == <<Entry(k1), Entry(k2), Entry(k3)>>

Ones == <<1, 1, 1>>
Twos == <<2, 2, 2>>
FromOne == <<1, 2, 4>>
FromTwo == <<2, 4, 8>>
FromFour == <<4, 8, 16>>

Calls(ops, keys) == [op : ops, key : keys, val : {v1}]

Basic == Calls({"find", "insert", "remove"}, {k1, k2, k3, k4})
Again == Calls({"insert"}, {k4}) \cup Calls({"remove"}, {k1, k3}) \cup Calls({"find"}, {k3})
UpsertOne == Calls({"upsert"}, {k1, k4})
Walk == Calls({"for_each", "clear"}, {k1}) \cup Calls({"insert", "remove"}, {k1, k3, k4})
          \cup Calls({"find"}, {k1, k4})
WalkOrUpsert == Walk \cup Calls({"upsert"}, {k1, k3, k4}) \cup Calls({"find"}, {k3})
Removes == Calls({"remove"}, {k4})

(* Bound: no upsert runs while the table grows or has grown (what may      *)
(* happen then is the subject of MCParlayHashUpsertGrows).                 *)
UpsertsFirst == versions > 1 => \A t \in Thread : pc[t] = "idle" \/ op(t) # "upsert"
=============================================================================
