--------------------------- MODULE DescentProofs ---------------------------
(***************************************************************************)
(* How a list of vectors comes closer, for lists as long as those of       *)
(* Controller and TaskExecution.                                           *)
(***************************************************************************)
EXTENDS Descent, TLAPS

\* A vector is lower if one entry is, and the others are as they were.
LEMMA LowerAt ==
  ASSUME NEW S, NEW f \in [S -> Int], NEW g \in [S -> Int],
         NEW t \in S, f[t] < g[t], \A u \in S : u # t => f[u] = g[u]
  PROVE  Lower(f, g)
BY DEF Lower

\* A list of vectors is closer if one of them is lower and those before it are
\* as they were.
LEMMA CloserOfSix ==
  ASSUME NEW a1, NEW a2, NEW a3, NEW a4, NEW a5, NEW a6,
         NEW b1, NEW b2, NEW b3, NEW b4, NEW b5, NEW b6,
         \/ Lower(a1, b1)
         \/ a1 = b1 /\ Lower(a2, b2)
         \/ a1 = b1 /\ a2 = b2 /\ Lower(a3, b3)
         \/ a1 = b1 /\ a2 = b2 /\ a3 = b3 /\ Lower(a4, b4)
         \/ a1 = b1 /\ a2 = b2 /\ a3 = b3 /\ a4 = b4 /\ Lower(a5, b5)
         \/ a1 = b1 /\ a2 = b2 /\ a3 = b3 /\ a4 = b4 /\ a5 = b5 /\ Lower(a6, b6)
  PROVE  Closer(<<a1, a2, a3, a4, a5, a6>>, <<b1, b2, b3, b4, b5, b6>>)
<1> DEFINE a == <<a1, a2, a3, a4, a5, a6>>
           b == <<b1, b2, b3, b4, b5, b6>>
<1>1. DOMAIN b = 1..6
  OBVIOUS
<1>2. /\ a[1] = a1 /\ a[2] = a2 /\ a[3] = a3 /\ a[4] = a4 /\ a[5] = a5 /\ a[6] = a6
      /\ b[1] = b1 /\ b[2] = b2 /\ b[3] = b3 /\ b[4] = b4 /\ b[5] = b5 /\ b[6] = b6
  OBVIOUS
<1> SUFFICES Closer(a, b)
  OBVIOUS
<1> HIDE DEF a, b
<1>3. /\ 1..(1 - 1) = {} /\ 1..(2 - 1) = {1} /\ 1..(3 - 1) = {1, 2}
      /\ 1..(4 - 1) = {1, 2, 3} /\ 1..(5 - 1) = {1, 2, 3, 4} /\ 1..(6 - 1) = {1, 2, 3, 4, 5}
  OBVIOUS
<1>4. \/ Lower(a[1], b[1])
      \/ a[1] = b[1] /\ Lower(a[2], b[2])
      \/ a[1] = b[1] /\ a[2] = b[2] /\ Lower(a[3], b[3])
      \/ a[1] = b[1] /\ a[2] = b[2] /\ a[3] = b[3] /\ Lower(a[4], b[4])
      \/ a[1] = b[1] /\ a[2] = b[2] /\ a[3] = b[3] /\ a[4] = b[4] /\ Lower(a[5], b[5])
      \/ /\ a[1] = b[1] /\ a[2] = b[2] /\ a[3] = b[3] /\ a[4] = b[4] /\ a[5] = b[5]
         /\ Lower(a[6], b[6])
  BY <1>2
<1>5. \E i \in 1..6 : Lower(a[i], b[i]) /\ \A j \in 1..(i - 1) : a[j] = b[j]
  BY <1>3, <1>4
<1>6. QED BY <1>1, <1>5 DEF Closer

LEMMA CloserOfSeven ==
  ASSUME NEW a1, NEW a2, NEW a3, NEW a4, NEW a5, NEW a6, NEW a7,
         NEW b1, NEW b2, NEW b3, NEW b4, NEW b5, NEW b6, NEW b7,
         \/ Lower(a1, b1)
         \/ a1 = b1 /\ Lower(a2, b2)
         \/ a1 = b1 /\ a2 = b2 /\ Lower(a3, b3)
         \/ a1 = b1 /\ a2 = b2 /\ a3 = b3 /\ Lower(a4, b4)
         \/ a1 = b1 /\ a2 = b2 /\ a3 = b3 /\ a4 = b4 /\ Lower(a5, b5)
         \/ a1 = b1 /\ a2 = b2 /\ a3 = b3 /\ a4 = b4 /\ a5 = b5 /\ Lower(a6, b6)
         \/ a1 = b1 /\ a2 = b2 /\ a3 = b3 /\ a4 = b4 /\ a5 = b5 /\ a6 = b6 /\ Lower(a7, b7)
  PROVE  Closer(<<a1, a2, a3, a4, a5, a6, a7>>, <<b1, b2, b3, b4, b5, b6, b7>>)
<1> DEFINE a == <<a1, a2, a3, a4, a5, a6, a7>>
           b == <<b1, b2, b3, b4, b5, b6, b7>>
<1>1. DOMAIN b = 1..7
  OBVIOUS
<1>2. /\ a[1] = a1 /\ a[2] = a2 /\ a[3] = a3 /\ a[4] = a4 /\ a[5] = a5 /\ a[6] = a6
      /\ b[1] = b1 /\ b[2] = b2 /\ b[3] = b3 /\ b[4] = b4 /\ b[5] = b5 /\ b[6] = b6
      /\ a[7] = a7 /\ b[7] = b7
  OBVIOUS
<1> SUFFICES Closer(a, b)
  OBVIOUS
<1> HIDE DEF a, b
<1>3. /\ 1..(1 - 1) = {} /\ 1..(2 - 1) = {1} /\ 1..(3 - 1) = {1, 2}
      /\ 1..(4 - 1) = {1, 2, 3} /\ 1..(5 - 1) = {1, 2, 3, 4} /\ 1..(6 - 1) = {1, 2, 3, 4, 5}
      /\ 1..(7 - 1) = {1, 2, 3, 4, 5, 6}
  OBVIOUS
<1>4. \/ Lower(a[1], b[1])
      \/ a[1] = b[1] /\ Lower(a[2], b[2])
      \/ a[1] = b[1] /\ a[2] = b[2] /\ Lower(a[3], b[3])
      \/ a[1] = b[1] /\ a[2] = b[2] /\ a[3] = b[3] /\ Lower(a[4], b[4])
      \/ a[1] = b[1] /\ a[2] = b[2] /\ a[3] = b[3] /\ a[4] = b[4] /\ Lower(a[5], b[5])
      \/ /\ a[1] = b[1] /\ a[2] = b[2] /\ a[3] = b[3] /\ a[4] = b[4] /\ a[5] = b[5]
         /\ Lower(a[6], b[6])
      \/ /\ a[1] = b[1] /\ a[2] = b[2] /\ a[3] = b[3] /\ a[4] = b[4] /\ a[5] = b[5]
         /\ a[6] = b[6] /\ Lower(a[7], b[7])
  BY <1>2
<1>5. \E i \in 1..7 : Lower(a[i], b[i]) /\ \A j \in 1..(i - 1) : a[j] = b[j]
  BY <1>3, <1>4
<1>6. QED BY <1>1, <1>5 DEF Closer
=============================================================================
