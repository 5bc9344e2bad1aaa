---------------------------- MODULE MCBackfill -------------------------------
(* Instances of Backfill for TLC. *)
EXTENDS Backfill, TLC

CONSTANTS w1, m1, m2, m3, u1, u2, t1, t2

\* Two messages of one article, and one of a second article.
UrlOf == m1 :> u1 @@ m2 :> u1 @@ m3 :> u2
Apart == [u \in {u1, u2} |-> u]
Copies == [u \in {u1, u2} |-> u1]

\* One message of each article.
UrlOnce == m1 :> u1 @@ m3 :> u2

\* u1 hits both topics, u2 the new one only.
NewHits == {p \in Urls \X Topics : p # <<u2, t1>>}
=============================================================================
