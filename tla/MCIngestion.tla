---------------------------- MODULE MCIngestion ------------------------------
(* Instances of Ingestion for TLC. *)
EXTENDS Ingestion, TLC

CONSTANTS s1, a1

\* One source lists the article.
FromOne == [a \in {a1} |-> s1]
=============================================================================
