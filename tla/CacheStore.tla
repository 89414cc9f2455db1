----------------------------- MODULE CacheStore -----------------------------
(***************************************************************************)
(* What a cache store promises its callers (domain/ports.py, CacheStore).  *)
(*                                                                         *)
(* A store may forget: an entry may be dropped at any time, to make room   *)
(* or because it expired.  It may never invent: what get(k) returns is     *)
(* what the last put(k) stored, unless k was deleted since.                *)
(***************************************************************************)


CONSTANTS
    Keys,       \* cache keys
    Values,     \* what a caller may put: the entry without its bookkeeping
    Absent      \* None

VARIABLES
    asked,      \* asked[k]: the last value put and not deleted since, else Absent
    contents    \* contents[k]: what get(k) returns now

vars == <<asked, contents>>

Maps == [Keys -> Values \cup {Absent}]

Init ==
    /\ asked = [k \in Keys |-> Absent]
    /\ contents = [k \in Keys |-> Absent]

(* The keys outside S keep their value or are dropped. *)
MayDrop(S) == \A k \in Keys \ S : contents'[k] \in {contents[k], Absent}

(* put(k, v): k reads as v from now on; others may have to make room. *)
Put(k, v) ==
    /\ asked' = [asked EXCEPT ![k] = v]
    /\ contents' \in Maps
    /\ contents'[k] = v
    /\ MayDrop({k})

(* delete(k) and delete_by_prefix(p), for the set S of keys named. *)
Delete(S) ==
    /\ asked' = [k \in Keys |-> IF k \in S THEN Absent ELSE asked[k]]
    /\ contents' = [k \in Keys |-> IF k \in S THEN Absent ELSE contents[k]]

(* An entry is dropped on the store's own account: expiry, a lost tier. *)
Drop ==
    /\ UNCHANGED asked
    /\ contents' \in Maps
    /\ MayDrop({})

Next ==
    \/ Drop
    \/ \E k \in Keys, v \in Values : Put(k, v)
    \/ \E S \in SUBSET Keys : Delete(S)

Spec == Init /\ [][Next]_vars
=============================================================================
