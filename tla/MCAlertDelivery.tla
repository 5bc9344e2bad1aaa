--------------------------- MODULE MCAlertDelivery ---------------------------
(* Instances of AlertDelivery for TLC. *)
EXTENDS AlertDelivery, TLC

CONSTANTS w1, w2, m1, m2, m3, a1, a2, a3, g1, g2

\* One match, sent twice; two matches, each sent once, and a third whose
\* article is not in the table.
SentTwice == m1 :> a1 @@ m2 :> a1
AndGone   == m1 :> a1 @@ m2 :> a2 @@ m3 :> a3

Symmetry == Permutations({w1, w2}) \cup Permutations({g1, g2})
=============================================================================
