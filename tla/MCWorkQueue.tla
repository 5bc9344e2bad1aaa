----------------------------- MODULE MCWorkQueue -----------------------------
(* Instances of WorkQueue for TLC. *)
EXTENDS WorkQueue, TLC

\* The replicas are interchangeable: sound for the invariants and the action
\* properties, not used where liveness is checked.
WorkerSymmetry == Permutations(Workers)
=============================================================================
