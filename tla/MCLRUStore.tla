----------------------------- MODULE MCLRUStore -----------------------------
(* The LRU store on three keys, two of which share a prefix, and contents  *)
(* of three sizes, one of them larger than the store.                      *)
EXTENDS LRUStore

PrefixSets == {{"a1", "a2"}}
Lengths == [b \in {1, 2, 4} |-> b]
=============================================================================
