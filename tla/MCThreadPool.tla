---------------------------- MODULE MCThreadPool ----------------------------
(* Instances of ThreadPool for TLC. *)
EXTENDS ThreadPool, TLC

\* Tasks and clients are interchangeable in every safety property.
PoolSymmetry == Permutations(Tasks) \cup Permutations(Clients)
=============================================================================
