------------------------------ MODULE Positions ------------------------------
(* Positions in a list: the last of a set of them, and a set in its order. *)
EXTENDS Integers, FiniteSets

LastOf(S) == CHOOSE i \in S : \A j \in S : j <= i

IncreasingOn(S) == {s \in [1..Cardinality(S) -> S] : \A i, j \in DOMAIN s : i < j => s[i] < s[j]}
InOrder(S)      == CHOOSE s \in IncreasingOn(S) : TRUE
=============================================================================
