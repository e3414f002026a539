------------------------------ MODULE Listing ------------------------------
(***************************************************************************)
(* The two comprehensions over lists that the code has, by positions: what *)
(* is kept of a list, and sorted(range(n), key = (-keys[i], i)).  SelectSeq *)
(* and SortSeq would compute the same; the provers do not know them.       *)
(***************************************************************************)
EXTENDS Naturals, Sequences, FiniteSets

(* [x for x in s if x in keep] *)
Places(s, keep) == {i \in 1..Len(s) : s[i] \in keep}
Nth(places, k)  == CHOOSE i \in places : Cardinality({j \in places : j <= i}) = k
Kept(s, keep)   == [k \in 1..Cardinality(Places(s, keep)) |-> s[Nth(Places(s, keep), k)]]

(* The places of the keys, the greatest key first and equal ones in their order. *)
Before(keys, j, i) == keys[j] > keys[i] \/ (keys[j] = keys[i] /\ j <= i)
Ranked(keys) == [k \in 1..Len(keys) |->
                   CHOOSE i \in 1..Len(keys) : Cardinality({j \in 1..Len(keys) : Before(keys, j, i)}) = k]
=============================================================================
