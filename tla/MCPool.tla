------------------------------- MODULE MCPool -------------------------------
(* Instances of Pool for TLC.                                              *)
EXTENDS Pool, TLC

\* Handlers and worker ids are interchangeable (safety runs only).
Symmetry == Permutations(Handlers) \cup Permutations(Workers)
=============================================================================
