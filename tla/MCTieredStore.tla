--------------------------- MODULE MCTieredStore ---------------------------
(* The two-tier store on two keys that share a directory and one that is   *)
(* alone in its own, that of the empty key.                                *)
EXTENDS TieredStore

MCKeys == {<<"a", "/", ":", "b">>, <<"a", "_", "b", "/">>, <<"_", "|">>}
PrefixSets == {{k \in MCKeys : k[1] = "a"}}
Lengths == [b \in {1, 2} |-> b]
=============================================================================
