--------------------------- MODULE MCBucketLinks ----------------------------
(* A bucket with room for one entry in its buffer and two in its list.     *)
EXTENDS BucketLinks, TLC

CONSTANTS t1, t2, k1, k2, k3, v0, v1

Symmetry == Permutations({t1, t2})
Flip == v0 :> v1 @@ v1 :> v0 @@ None :> v1
Halves == k1 :> 1 @@ k2 :> 2 @@ k3 :> 2
TwoKeys == <<k1, k2>>
Calls(ops, keys) == [op : ops, key : keys, val : {v1}]
AllCalls == Calls({"remove"}, {k1, k2, k3}) \cup Calls({"insert", "upsert"}, {k2, k3})
              \cup Calls({"find"}, {k2}) \cup Calls({"clear", "copy"}, {k1})
=============================================================================
