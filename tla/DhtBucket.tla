----------------------------- MODULE DhtBucket -----------------------------
(***************************************************************************)
(* The buckets of signed service advertisements of src/swarm/record.rs:    *)
(* what verify, merge_valid, upsert and trim_to_size compute.              *)
(*                                                                         *)
(* All ads here are signed for the bucket they are in, because only nodes  *)
(* sign ads for themselves and a signature covers its bucket's name; what  *)
(* verify has left to look at is their times.  A node's tags are fixed, so *)
(* that its ads have one size.                                             *)
(***************************************************************************)
EXTENDS Integers, Sequences, SequencesExt, FiniteSetsExt

CONSTANTS
  Nodes,      \* node ids of publishers, ordered as their bytes are
  AdSize,     \* the encoded size of each node's ad
  MaxSize,    \* DHT_MAX_BUCKET_BYTES, less the empty bucket
  FutureSkew  \* MAX_FUTURE_SKEW_SECS

ASSUME BucketAssumption ==
  /\ Nodes \subseteq Nat /\ IsFiniteSet(Nodes)
  /\ AdSize \in [Nodes -> Nat \ {0}] /\ MaxSize \in Nat /\ FutureSkew \in Nat

Ad == [node : Nodes, publishedAt : Nat, expiresAt : Nat]

Verify(ad, now) ==
  /\ ad.expiresAt > now
  /\ ad.publishedAt <= ad.expiresAt /\ ad.publishedAt <= now + FutureSkew

\* ad_precedes: newer first, then longer-lived, then by node id.
Precedes(a, b) ==
  \/ a.publishedAt > b.publishedAt
  \/ /\ a.publishedAt = b.publishedAt
     /\ \/ a.expiresAt > b.expiresAt
        \/ a.expiresAt = b.expiresAt /\ a.node < b.node

\* No preferred node.
NoNode == 0 - 1

\* preferred_ad_sort_key: the preferred node's ad comes before all others.
PreferredPrecedes(a, b, preferred) ==
  \/ a.node = preferred /\ b.node # preferred
  \/ (a.node = preferred <=> b.node = preferred) /\ Precedes(a, b)

\* Mutant of Insert: an occupied entry stays.
InsertVacant(merged, ad) ==
  IF \E b \in merged : b.node = ad.node THEN merged ELSE merged \cup {ad}

\* An entry of the BTreeMap: at most one ad of each node.
Insert(merged, ad) ==
  LET existing == {b \in merged : b.node = ad.node}
  IN  IF \A b \in existing : Precedes(ad, b) THEN (merged \ existing) \cup {ad} ELSE merged

\* The ads of one bucket, in the order in which they are there.
MergeBucket(found, bucket, now) ==
  LET merged[k \in 0 .. Len(bucket)] ==
        IF k = 0 THEN found
        ELSE IF Verify(bucket[k], now) THEN Insert(merged[k - 1], bucket[k]) ELSE merged[k - 1]
  IN  merged[Len(bucket)]

\* The newest valid ad of each node in a sequence of buckets.
Merge(buckets, now) ==
  LET merged[k \in 0 .. Len(buckets)] ==
        IF k = 0 THEN {} ELSE MergeBucket(merged[k - 1], buckets[k], now)
  IN  merged[Len(buckets)]

\* An ad in a sorted vector, behind those that it does not come before.
InsertSorted(sorted, ad, preferred) ==
  LET k == Max({0} \cup {i \in DOMAIN sorted : ~PreferredPrecedes(ad, sorted[i], preferred)})
  IN  [i \in 1 .. Len(sorted) + 1 |->
         IF i <= k THEN sorted[i] ELSE IF i = k + 1 THEN ad ELSE sorted[i - 1]]

\* sort_by_key, which is stable.
Sort(ads, preferred) ==
  LET sorted[k \in 0 .. Len(ads)] ==
        IF k = 0 THEN <<>> ELSE InsertSorted(sorted[k - 1], ads[k], preferred)
  IN  sorted[Len(ads)]

MergeValid(buckets, now) == Sort(SetToSeq(Merge(buckets, now)), NoNode)

Upsert(ads, ad) ==
  IF \E i \in DOMAIN ads : ads[i].node = ad.node
  THEN [i \in DOMAIN ads |-> IF ads[i].node = ad.node /\ Precedes(ad, ads[i]) THEN ad ELSE ads[i]]
  ELSE Append(ads, ad)

\* The size of the first k ads, for every k.
PrefixSize(ads) ==
  LET size[k \in 0 .. Len(ads)] == IF k = 0 THEN 0 ELSE size[k - 1] + AdSize[ads[k].node]
  IN  size

Size(ads) == PrefixSize(ads)[Len(ads)]

\* How many ads of a sorted bucket fit.
Fitting(sorted) == Max({k \in 0 .. Len(sorted) : PrefixSize(sorted)[k] <= MaxSize})

\* Mutant of TrimToSize: the oldest ad goes, also if it is the preferred one.
TrimOldest(ads, preferred) ==
  LET sorted == Sort(ads, NoNode)
  IN  [fits |-> Fitting(sorted) > 0, ads |-> SubSeq(sorted, 1, Fitting(sorted))]

\* The last ad that is not the preferred one is removed until the rest fits: what is
\* left is the longest prefix that fits.  It does not fit if the preferred ad alone
\* is too large.
TrimToSize(ads, preferred) ==
  LET sorted == Sort(ads, preferred)
  IN  [fits |-> Fitting(sorted) > 0, ads |-> SubSeq(sorted, 1, Fitting(sorted))]
=============================================================================
