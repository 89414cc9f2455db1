------------------------------ MODULE KeyOrder ------------------------------
(***************************************************************************)
(* The key order of an OrderedDict, as a sequence.                         *)
(***************************************************************************)
EXTENDS Integers, Sequences

(* The keys of s outside S, in the order they have in s: what is left when *)
(* the keys of S are deleted.                                              *)
Without(s, S) ==
    LET kept[i \in 0..Len(s)] ==
            IF i = 0 THEN <<>>
            ELSE IF s[i] \in S THEN kept[i - 1] ELSE Append(kept[i - 1], s[i])
    IN  kept[Len(s)]
=============================================================================
