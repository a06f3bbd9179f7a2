----------------------------- MODULE MCRegistry -----------------------------
EXTENDS Registry, TLC

\* Handles, timeouts and the other options are not told apart.
MCSymmetry == Permutations(Handles) \cup Permutations(Times) \cup Permutations(Rests)
=============================================================================
