----------------------------- MODULE MCDhtShard -----------------------------
(* Publishers of different kinds: the second has tags, the third a clock   *)
(* that is ahead, the fourth more tags than fit into a bucket.             *)
EXTENDS DhtShard

MCAdSize == [n \in Nodes |-> IF n \in {2, 4} THEN n ELSE 1]
MCOffset == [n \in Nodes |-> IF n = 3 THEN 1 ELSE 0]
=============================================================================
