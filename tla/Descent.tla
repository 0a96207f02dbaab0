------------------------------ MODULE Descent ------------------------------
(* How far something still has to go, as a list of vectors of numbers.  As  *)
(* the numbers are natural, nothing can come closer infinitely often.       *)
EXTENDS Integers

\* No entry of a vector is higher, and one is lower.
Lower(f, g) == /\ \A x \in DOMAIN g : f[x] <= g[x]
               /\ \E x \in DOMAIN g : f[x] < g[x]

\* The first vector that differs is lower.
Closer(r, s) == \E i \in DOMAIN s : /\ Lower(r[i], s[i])
                                    /\ \A j \in 1..(i - 1) : r[j] = s[j]

=============================================================================
