----------------------------- MODULE MCNetwork ------------------------------
(* Instances of Network for TLC.                                           *)
EXTENDS Network, TLC

Symmetry == Permutations(Containers) \cup Permutations(Ports)
=============================================================================
