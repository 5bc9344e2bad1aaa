---------------------------- MODULE MCPipeline -------------------------------
(* Instances of Pipeline for TLC. *)
EXTENDS Pipeline, TLC

CONSTANTS w1, w2, m1, m2, m3, u1, u2, t1, t2

\* Two messages of one article, and one of a second article, a near-copy.
UrlOf  == m1 :> u1 @@ m2 :> u1 @@ m3 :> u2
Copies == [u \in {u1, u2} |-> u1]

\* The first article alone, sent twice or once.
TwiceOne == m1 :> u1 @@ m2 :> u1
JustOne  == m1 :> u1
Alone    == u1 :> u1

\* u1 matches both topics, u2 the first.
AllHits == {p \in Urls \X Topics : p # <<u2, t2>>}

WorkerSymmetry == Permutations({w1, w2})
=============================================================================
