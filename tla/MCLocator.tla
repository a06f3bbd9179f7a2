----------------------------- MODULE MCLocator -----------------------------
(* The locator over every pair of short feeds.                             *)
EXTENDS Locator, TLC

CONSTANTS MaxItems  \* bound: the items of one feed

MCFeedLists == UNION {[1 .. n -> Item] : n \in 0 .. MaxItems}

Symmetry == Permutations(Peers) \cup Permutations(Feeds)
=============================================================================
