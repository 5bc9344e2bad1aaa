------------------------------ MODULE MCDiscovery ------------------------------
(* Instances of Discovery for TLC. *)
EXTENDS Discovery, TLC

CONSTANTS w1, w2

\* Overlap vetoed by drift; no overlap but a close centroid; overlap.
ThreeKinds == {<<50, 50>>, <<10, 90>>, <<35, 80>>}

Symmetry == Permutations({w1, w2})
=============================================================================
