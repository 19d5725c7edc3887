------------------------------- MODULE MCIpam -------------------------------
(* Instances of Ipam for TLC.                                              *)
EXTENDS Ipam, TLC

Symmetry == Permutations(Clients)
=============================================================================
