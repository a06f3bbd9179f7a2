-------------------------- MODULE MCConnectionPool --------------------------
(* Instances of ConnectionPool for TLC. *)
EXTENDS ConnectionPool, TLC

\* Peers and callers are interchangeable (safety runs only).
Symmetry == Permutations(Peers) \cup Permutations(Callers)
=============================================================================
