------------------------------ MODULE DhtProofs ------------------------------
(***************************************************************************)
(* Proofs about DhtShard for any publishers, sizes of ads, clocks and      *)
(* replies of the DHT.  The first half is about the algorithms of          *)
(* DhtBucket: what sorting, merging and trimming compute.  The second half *)
(* is about publishers that race for a bucket with compare-and-swap.       *)
(***************************************************************************)
EXTENDS DhtShard, FiniteSetTheorems, SequenceTheorems, WellFoundedInduction, TLAPS

-----------------------------------------------------------------------------
(* Numbers.                                                                *)

\* A set of numbers has a least element.
LEMMA LeastNat ==
  ASSUME NEW T \in SUBSET Nat, T # {}
  PROVE  \E m \in T : \A k \in T : m <= k
<1> DEFINE R == OpToRel(<, Nat)
<1>1. IsWellFoundedOn(R, Nat)
  BY NatLessThanWellFounded, Zenon
<1>2. \A x, y \in Nat : y < x => <<y, x>> \in R
  BY DEF OpToRel
<1> HIDE DEF R
<1>3. PICK x \in T : \A y \in T : ~ (<<y, x>> \in R)
  BY <1>1, WFMin
<1>4. \A y \in T : ~ (y < x)
  BY <1>2, <1>3
<1>5. \A y \in T : x <= y
  BY <1>4
<1>6. QED BY <1>5

\* A set that has 0 and every successor of its elements has all numbers.
LEMMA NatSetInduction ==
  ASSUME NEW S, 0 \in S, \A n \in Nat : n \in S => n + 1 \in S
  PROVE  Nat \subseteq S
<1> DEFINE T == Nat \ S
<1> SUFFICES ASSUME T # {} PROVE FALSE
  OBVIOUS
<1>1. PICK m \in T : \A k \in T : m <= k
  <2> HIDE DEF T
  <2>1. T \subseteq Nat
    BY DEF T
  <2>2. QED BY <2>1, LeastNat
<1>2. m - 1 \in Nat /\ m - 1 \in S
  BY <1>1
<1>3. QED BY <1>2

\* A set of numbers with a bound has a greatest element, which Max chooses.
LEMMA MaxIsGreatest ==
  ASSUME NEW S \in SUBSET Nat, S # {}, NEW B \in Nat, \A x \in S : x <= B
  PROVE  Max(S) \in S /\ \A x \in S : x <= Max(S)
<1> DEFINE T == {k \in Nat : B - k \in S}
<1>1. T \in SUBSET Nat /\ T # {}
  <2>1. PICK x \in S : TRUE
    OBVIOUS
  <2>2. B - x \in Nat /\ B - (B - x) = x
    BY <2>1
  <2>3. QED BY <2>1, <2>2
<1>2. PICK m \in T : \A k \in T : m <= k
  <2> HIDE DEF T
  <2>1. QED BY <1>1, LeastNat
<1>3. B - m \in S /\ \A x \in S : B - m >= x
  <2>1. ASSUME NEW x \in S PROVE B - m >= x
    <3>1. B - x \in Nat /\ B - (B - x) = x
      OBVIOUS
    <3>2. m <= B - x /\ m \in Nat /\ x \in Nat
      BY <1>2, <3>1
    <3>3. QED BY <3>2
  <2>2. QED BY <1>2, <2>1
<1>4. \E x \in S : \A y \in S : x >= y
  BY <1>3
<1>5. Max(S) \in S /\ \A y \in S : Max(S) >= y
  BY <1>4, Zenon DEF Max
<1>6. QED BY <1>5

-----------------------------------------------------------------------------
(* The order of the ads.                                                   *)

\* Two ads with the same fields are the same.
LEMMA AdEqual ==
  ASSUME NEW a \in Ad, NEW b \in Ad, a.node = b.node, a.publishedAt = b.publishedAt,
         a.expiresAt = b.expiresAt
  PROVE  a = b
BY DEF Ad

\* The types of an ad's fields.
LEMMA AdFields ==
  ASSUME NEW a \in Ad
  PROVE  a.node \in Nodes /\ a.node \in Nat /\ a.publishedAt \in Nat /\ a.expiresAt \in Nat
BY BucketAssumption DEF Ad

\* ad_precedes is a strict total order.
LEMMA PrecedesOrder ==
  /\ \A a \in Ad : ~Precedes(a, a)
  /\ \A a, b, c \in Ad : Precedes(a, b) /\ Precedes(b, c) => Precedes(a, c)
  /\ \A a, b \in Ad : a = b \/ Precedes(a, b) \/ Precedes(b, a)
<1>1. ASSUME NEW a \in Ad PROVE ~Precedes(a, a)
  BY AdFields DEF Precedes
<1>2. ASSUME NEW a \in Ad, NEW b \in Ad, NEW c \in Ad, Precedes(a, b), Precedes(b, c)
      PROVE  Precedes(a, c)
  BY <1>2, AdFields DEF Precedes
<1>3. ASSUME NEW a \in Ad, NEW b \in Ad, ~Precedes(a, b), ~Precedes(b, a) PROVE a = b
  <2>1. a.node = b.node /\ a.publishedAt = b.publishedAt /\ a.expiresAt = b.expiresAt
    BY <1>3, AdFields DEF Precedes
  <2>2. QED BY <2>1, AdEqual
<1>4. QED BY <1>1, <1>2, <1>3

\* So is the order of trim_to_size, for any preferred node.
LEMMA PreferredOrder ==
  ASSUME NEW p
  PROVE  /\ \A a \in Ad : ~PreferredPrecedes(a, a, p)
         /\ \A a, b, c \in Ad : PreferredPrecedes(a, b, p) /\ PreferredPrecedes(b, c, p)
                                  => PreferredPrecedes(a, c, p)
         /\ \A a, b \in Ad : a = b \/ PreferredPrecedes(a, b, p) \/ PreferredPrecedes(b, a, p)
BY PrecedesOrder DEF PreferredPrecedes

\* Without a preferred node it is ad_precedes.
LEMMA NoNodePreferred ==
  \A a, b \in Ad : PreferredPrecedes(a, b, NoNode) <=> Precedes(a, b)
BY AdFields DEF PreferredPrecedes, NoNode

-----------------------------------------------------------------------------
(* Sorting.                                                                *)

\* A vector of ads in which none comes before an earlier one.
SortedBy(s, p) ==
  \A i, j \in 1 .. Len(s) : i < j => ~PreferredPrecedes(s[j], s[i], p)

\* One ad of each node.
Distinct(s) == \A i, j \in 1 .. Len(s) : s[i].node = s[j].node => i = j

\* One step of the insertion.
LEMMA InsertSortedSorts ==
  ASSUME NEW s \in Seq(Ad), NEW ad \in Ad, NEW p, SortedBy(s, p), Distinct(s),
         \A i \in 1 .. Len(s) : s[i].node # ad.node
  PROVE  \E r \in Seq(Ad) :
           /\ r = InsertSorted(s, ad, p) /\ SortedBy(r, p) /\ Distinct(r)
           /\ \A i \in 1 .. Len(r) : r[i] = ad \/ \E j \in 1 .. Len(s) : r[i] = s[j]
           /\ \E i \in 1 .. Len(r) : r[i] = ad
           /\ \A j \in 1 .. Len(s) : \E i \in 1 .. Len(r) : r[i] = s[j]
<1> DEFINE K == {0} \cup {i \in DOMAIN s : ~PreferredPrecedes(ad, s[i], p)}
<1>0. Len(s) \in Nat /\ DOMAIN s = 1 .. Len(s) /\ \A i \in 1 .. Len(s) : s[i] \in Ad
  OBVIOUS
<1>1. Max(K) \in K /\ \A x \in K : x <= Max(K)
  <2>1. K \in SUBSET Nat /\ K # {} /\ \A x \in K : x <= Len(s)
    BY <1>0
  <2> HIDE DEF K
  <2>2. QED BY <1>0, <2>1, MaxIsGreatest
<1>2. PICK k \in 0 .. Len(s) :
        /\ k = Max(K)
        /\ k # 0 => ~PreferredPrecedes(ad, s[k], p)
        /\ \A i \in 1 .. Len(s) : i > k => PreferredPrecedes(ad, s[i], p)
  <2>1. Max(K) \in 0 .. Len(s)
    BY <1>0, <1>1
  <2>2. Max(K) # 0 => ~PreferredPrecedes(ad, s[Max(K)], p)
    BY <1>0, <1>1
  <2>3. ASSUME NEW i \in 1 .. Len(s), i > Max(K) PROVE PreferredPrecedes(ad, s[i], p)
    <3>1. i \notin K
      BY <1>0, <1>1, <2>1, <2>3
    <3>2. QED BY <1>0, <3>1
  <2>4. QED BY <2>1, <2>2, <2>3
<1>3. PICK r : r = [i \in 1 .. Len(s) + 1 |->
                      IF i <= k THEN s[i] ELSE IF i = k + 1 THEN ad ELSE s[i - 1]]
  OBVIOUS
<1>4. r = InsertSorted(s, ad, p)
  BY <1>2, <1>3, Zenon DEF InsertSorted
<1> HIDE DEF K
<1>5. r \in [1 .. Len(s) + 1 -> Ad]
  <2>1. \A i \in 1 .. Len(s) + 1 : i <= k => i \in 1 .. Len(s)
    BY <1>0
  <2>2. \A i \in 1 .. Len(s) + 1 : ~(i <= k) /\ i # k + 1 => i - 1 \in 1 .. Len(s)
    BY <1>0
  <2>3. QED BY <1>0, <1>3, <2>1, <2>2
<1>6. r \in Seq(Ad) /\ Len(r) = Len(s) + 1
  BY <1>0, <1>5, SeqDef
<1>7. /\ \A i \in 1 .. k : r[i] = s[i] /\ i \in 1 .. Len(s)
      /\ r[k + 1] = ad /\ k + 1 \in 1 .. Len(r)
      /\ \A i \in k + 2 .. Len(r) : r[i] = s[i - 1] /\ i - 1 \in 1 .. Len(s) /\ i - 1 > k
  BY <1>0, <1>3, <1>6
<1>8. \A i \in 1 .. Len(r) : i \in 1 .. k \/ i = k + 1 \/ i \in k + 2 .. Len(r)
  BY <1>0, <1>6
<1>9. \A i \in 1 .. k : ~PreferredPrecedes(ad, s[i], p)
  <2> TAKE i \in 1 .. k
  <2>1. k # 0 /\ k \in 1 .. Len(s) /\ i \in 1 .. Len(s) /\ (i = k \/ i < k)
    BY <1>0
  <2>2. ~PreferredPrecedes(s[k], s[i], p) \/ i = k
    BY <2>1 DEF SortedBy
  <2>3. s[k] \in Ad /\ s[i] \in Ad
    BY <1>0, <2>1
  <2>4. QED BY <1>2, <2>1, <2>2, <2>3, PreferredOrder
<1>10. SortedBy(r, p)
  <2> SUFFICES ASSUME NEW i \in 1 .. Len(r), NEW j \in 1 .. Len(r), i < j
               PROVE  ~PreferredPrecedes(r[j], r[i], p)
    BY DEF SortedBy
  <2>1. CASE j \in 1 .. k
    <3>1. i \in 1 .. k
      BY <2>1
    <3>2. QED BY <1>7, <2>1, <3>1 DEF SortedBy
  <2>2. CASE j = k + 1
    <3>1. i \in 1 .. k
      BY <2>2
    <3>2. QED BY <1>7, <1>9, <2>2, <3>1
  <2>3. CASE j \in k + 2 .. Len(r)
    <3>1. r[j] = s[j - 1] /\ j - 1 \in 1 .. Len(s) /\ j - 1 > k
      BY <1>7, <2>3
    <3>2. CASE i \in 1 .. k
      <4>1. i < j - 1
        BY <3>1, <3>2
      <4>2. QED BY <1>7, <3>1, <3>2, <4>1 DEF SortedBy
    <3>3. CASE i = k + 1
      <4>1. PreferredPrecedes(ad, s[j - 1], p) /\ s[j - 1] \in Ad
        BY <1>0, <1>2, <3>1
      <4>2. QED BY <1>7, <3>1, <3>3, <4>1, PreferredOrder
    <3>4. CASE i \in k + 2 .. Len(r)
      <4>1. r[i] = s[i - 1] /\ i - 1 \in 1 .. Len(s) /\ i - 1 < j - 1
        BY <1>7, <3>4
      <4>2. QED BY <3>1, <4>1 DEF SortedBy
    <3>5. QED BY <1>8, <3>2, <3>3, <3>4
  <2>4. QED BY <1>8, <2>1, <2>2, <2>3
<1>11. Distinct(r)
  <2> SUFFICES ASSUME NEW i \in 1 .. Len(r), NEW j \in 1 .. Len(r), r[i].node = r[j].node
               PROVE  i = j
    BY DEF Distinct
  <2>1. ASSUME NEW x \in 1 .. Len(r), x # k + 1
        PROVE  \E y \in 1 .. Len(s) : r[x] = s[y] /\ x = IF y <= k THEN y ELSE y + 1
    <3>1. CASE x \in 1 .. k
      BY <1>7, <3>1
    <3>2. CASE x \in k + 2 .. Len(r)
      <4>1. r[x] = s[x - 1] /\ x - 1 \in 1 .. Len(s) /\ x - 1 > k /\ x = (x - 1) + 1
        BY <1>7, <3>2
      <4>2. ~(x - 1 <= k)
        BY <4>1
      <4>3. QED BY <4>1, <4>2
    <3>3. QED BY <1>8, <2>1, <3>1, <3>2
  <2>2. CASE i = k + 1 \/ j = k + 1
    BY <1>7, <2>1, <2>2
  <2>3. CASE i # k + 1 /\ j # k + 1
    <3>1. PICK y \in 1 .. Len(s) : r[i] = s[y] /\ i = IF y <= k THEN y ELSE y + 1
      BY <2>1, <2>3
    <3>2. PICK z \in 1 .. Len(s) : r[j] = s[z] /\ j = IF z <= k THEN z ELSE z + 1
      BY <2>1, <2>3
    <3>3. y = z
      BY <3>1, <3>2 DEF Distinct
    <3>4. QED BY <3>1, <3>2, <3>3
  <2>4. QED BY <2>2, <2>3
<1>12. \A i \in 1 .. Len(r) : r[i] = ad \/ \E j \in 1 .. Len(s) : r[i] = s[j]
  BY <1>7, <1>8
<1>13. \A j \in 1 .. Len(s) : \E i \in 1 .. Len(r) : r[i] = s[j]
  <2> TAKE j \in 1 .. Len(s)
  <2>1. CASE j <= k
    <3>1. j \in 1 .. k /\ j \in 1 .. Len(r)
      BY <1>0, <1>6, <2>1
    <3>2. QED BY <1>7, <3>1
  <2>2. CASE ~(j <= k)
    <3>1. j + 1 \in k + 2 .. Len(r) /\ j + 1 \in 1 .. Len(r) /\ (j + 1) - 1 = j
      BY <1>0, <1>6, <2>2
    <3>2. QED BY <1>7, <3>1
  <2>3. QED BY <2>1, <2>2
<1>14. QED BY <1>4, <1>6, <1>7, <1>10, <1>11, <1>12, <1>13

\* g sorts the first n ads one by one.
Sorting(g, ads, p, n) ==
  g = [m \in 0 .. n |-> IF m = 0 THEN <<>> ELSE InsertSorted(g[m - 1], ads[m], p)]

\* The equation has a solution.
LEMMA SortingExists ==
  ASSUME NEW ads, NEW p, NEW N \in Nat
  PROVE  \E g : Sorting(g, ads, p, N)
<1> DEFINE T == {n \in Nat : \E g : Sorting(g, ads, p, n)}
<1>1. 0 \in T
  <2>1. Sorting([m \in 0 .. 0 |-> <<>>], ads, p, 0)
    BY DEF Sorting
  <2>2. QED BY <2>1
<1>2. ASSUME NEW n \in Nat, n \in T PROVE n + 1 \in T
  <2>1. PICK g : Sorting(g, ads, p, n)
    BY <1>2
  <2> DEFINE h == [m \in 0 .. n + 1 |-> IF m <= n THEN g[m] ELSE InsertSorted(g[m - 1], ads[m], p)]
  <2>2. \A m \in 0 .. n : g[m] = IF m = 0 THEN <<>> ELSE InsertSorted(g[m - 1], ads[m], p)
    BY <2>1 DEF Sorting
  <2>3. \A m \in 0 .. n + 1 : h[m] = IF m = 0 THEN <<>> ELSE InsertSorted(h[m - 1], ads[m], p)
    <3> TAKE m \in 0 .. n + 1
    <3>1. CASE m <= n
      <4>1. m # 0 => m - 1 \in 0 .. n /\ h[m - 1] = g[m - 1]
        BY <3>1
      <4>2. h[m] = g[m]
        BY <3>1
      <4>3. QED BY <4>1, <4>2, <2>2, <3>1
    <3>2. CASE m = n + 1
      <4>1. h[m - 1] = g[m - 1] /\ m # 0
        BY <3>2
      <4> HIDE DEF h
      <4>2. h[m] = InsertSorted(g[m - 1], ads[m], p)
        BY <3>2 DEF h
      <4>3. QED BY <4>1, <4>2
    <3>3. QED BY <3>1, <3>2
  <2>4. Sorting(h, ads, p, n + 1)
    <3>1. h = [m \in 0 .. n + 1 |-> h[m]]
      OBVIOUS
    <3> HIDE DEF h
    <3>2. QED BY <2>3, <3>1 DEF Sorting
  <2>5. QED BY <2>4
<1>3. Nat \subseteq T
  <2> HIDE DEF T
  <2>1. QED BY <1>1, <1>2, NatSetInduction
<1>4. QED BY <1>3

\* What sort_by_key computes.
LEMMA SortingSteps ==
  ASSUME NEW ads, NEW p, Len(ads) \in Nat
  PROVE  \E g : /\ g[0] = <<>>
                /\ \A m \in 1 .. Len(ads) : g[m] = InsertSorted(g[m - 1], ads[m], p)
                /\ Sort(ads, p) = g[Len(ads)]
<1> DEFINE f == CHOOSE sorted : sorted = [k \in 0 .. Len(ads) |->
                  IF k = 0 THEN <<>> ELSE InsertSorted(sorted[k - 1], ads[k], p)]
<1>1. PICK g : Sorting(g, ads, p, Len(ads))
  BY SortingExists
<1>2. g = [k \in 0 .. Len(ads) |-> IF k = 0 THEN <<>> ELSE InsertSorted(g[k - 1], ads[k], p)]
  BY <1>1, Zenon DEF Sorting
<1>3. Sorting(f, ads, p, Len(ads))
  BY <1>2, Zenon DEF Sorting
<1>4. Sort(ads, p) = f[Len(ads)]
  BY Zenon DEF Sort
<1> HIDE DEF f
<1>5. \A m \in 0 .. Len(ads) : f[m] = IF m = 0 THEN <<>> ELSE InsertSorted(f[m - 1], ads[m], p)
  BY <1>3 DEF Sorting
<1>6. f[0] = <<>>
  BY <1>5
<1>7. ASSUME NEW m \in 1 .. Len(ads) PROVE f[m] = InsertSorted(f[m - 1], ads[m], p)
  <2>1. m \in 0 .. Len(ads) /\ m # 0
    OBVIOUS
  <2>2. QED BY <1>5, <2>1
<1>8. QED BY <1>4, <1>6, <1>7

\* s has the first n of the ads, sorted.
SortOf(s, ads, n, p) ==
  /\ s \in Seq(Ad) /\ SortedBy(s, p) /\ Distinct(s)
  /\ \A i \in 1 .. Len(s) : \E j \in 1 .. n : s[i] = ads[j]
  /\ \A j \in 1 .. n : \E i \in 1 .. Len(s) : s[i] = ads[j]

\* sort_by_key sorts.
LEMMA SortSorts ==
  ASSUME NEW ads \in Seq(Ad), NEW p, Distinct(ads)
  PROVE  SortOf(Sort(ads, p), ads, Len(ads), p)
<1>0. Len(ads) \in Nat /\ \A j \in 1 .. Len(ads) : ads[j] \in Ad
  OBVIOUS
<1>1. PICK g : /\ g[0] = <<>>
               /\ \A m \in 1 .. Len(ads) : g[m] = InsertSorted(g[m - 1], ads[m], p)
               /\ Sort(ads, p) = g[Len(ads)]
  BY <1>0, SortingSteps
<1> DEFINE T == {n \in Nat : n <= Len(ads) => SortOf(g[n], ads, n, p)}
<1>2. 0 \in T
  <2>1. <<>> \in Seq(Ad) /\ Len(<<>>) = 0
    OBVIOUS
  <2>2. SortOf(<<>>, ads, 0, p)
    BY <2>1 DEF SortOf, SortedBy, Distinct
  <2>3. QED BY <1>1, <2>2
<1>3. ASSUME NEW n \in Nat, n \in T, n + 1 <= Len(ads) PROVE SortOf(g[n + 1], ads, n + 1, p)
  <2>1. PICK s : s = g[n]
    OBVIOUS
  <2>2. SortOf(s, ads, n, p)
    BY <1>0, <1>3, <2>1
  <2>3. n + 1 \in 1 .. Len(ads) /\ (n + 1) - 1 = n
    BY <1>0, <1>3
  <2>4. g[n + 1] = InsertSorted(s, ads[n + 1], p) /\ ads[n + 1] \in Ad
    BY <1>0, <1>1, <2>1, <2>3
  <2>5. \A j \in 1 .. n : j \in 1 .. Len(ads) /\ j # n + 1 /\ j \in 1 .. n + 1
    BY <1>0, <2>3
  <2>6. \A i \in 1 .. Len(s) : s[i].node # ads[n + 1].node
    BY <2>2, <2>3, <2>5 DEF SortOf, Distinct
  <2>7. s \in Seq(Ad) /\ SortedBy(s, p) /\ Distinct(s)
    BY <2>2 DEF SortOf
  <2>8. PICK e \in Ad : e = ads[n + 1]
    BY <2>4
  <2>9. \A i \in 1 .. Len(s) : s[i].node # e.node
    BY <2>6, <2>8
  <2>10. PICK r \in Seq(Ad) :
          /\ r = InsertSorted(s, e, p) /\ SortedBy(r, p) /\ Distinct(r)
          /\ \A i \in 1 .. Len(r) : r[i] = e \/ \E j \in 1 .. Len(s) : r[i] = s[j]
          /\ \E i \in 1 .. Len(r) : r[i] = e
          /\ \A j \in 1 .. Len(s) : \E i \in 1 .. Len(r) : r[i] = s[j]
    BY <2>7, <2>9, InsertSortedSorts
  <2>11. \A i \in 1 .. Len(r) : \E j \in 1 .. n + 1 : r[i] = ads[j]
    <3>1. n + 1 \in 1 .. n + 1
      OBVIOUS
    <3>2. \A i \in 1 .. Len(s) : \E j \in 1 .. n : s[i] = ads[j]
      BY <2>2 DEF SortOf
    <3>3. QED BY <2>5, <2>10, <2>8, <3>1, <3>2
  <2>12. \A j \in 1 .. n + 1 : \E i \in 1 .. Len(r) : r[i] = ads[j]
    <3>1. \A j \in 1 .. n + 1 : j = n + 1 \/ j \in 1 .. n
      OBVIOUS
    <3>2. \A j \in 1 .. n : \E i \in 1 .. Len(s) : s[i] = ads[j]
      BY <2>2 DEF SortOf
    <3>3. ASSUME NEW j \in 1 .. n PROVE \E i \in 1 .. Len(r) : r[i] = ads[j]
      <4>1. PICK i \in 1 .. Len(s) : s[i] = ads[j]
        BY <3>2
      <4>2. QED BY <2>10, <4>1
    <3>4. QED BY <2>10, <2>8, <3>1, <3>3
  <2>13. QED BY <2>4, <2>8, <2>10, <2>11, <2>12 DEF SortOf
<1>4. Nat \subseteq T
  <2>1. \A n \in Nat : n \in T => n + 1 \in T
    BY <1>3
  <2> HIDE DEF T
  <2>2. QED BY <1>2, <2>1, NatSetInduction
<1>5. QED BY <1>0, <1>1, <1>4

-----------------------------------------------------------------------------
(* Sizes and trimming.                                                     *)

\* g sums up the sizes of the first n ads.
Sizing(g, ads, n) ==
  g = [m \in 0 .. n |-> IF m = 0 THEN 0 ELSE g[m - 1] + AdSize[ads[m].node]]

\* The equation has a solution.
LEMMA SizingExists ==
  ASSUME NEW ads, NEW N \in Nat
  PROVE  \E g : Sizing(g, ads, N)
<1> DEFINE T == {n \in Nat : \E g : Sizing(g, ads, n)}
<1>1. 0 \in T
  <2>1. Sizing([m \in 0 .. 0 |-> 0], ads, 0)
    BY DEF Sizing
  <2>2. QED BY <2>1
<1>2. ASSUME NEW n \in Nat, n \in T PROVE n + 1 \in T
  <2>1. PICK g : Sizing(g, ads, n)
    BY <1>2
  <2> DEFINE h == [m \in 0 .. n + 1 |-> IF m <= n THEN g[m] ELSE g[m - 1] + AdSize[ads[m].node]]
  <2>2. \A m \in 0 .. n : g[m] = IF m = 0 THEN 0 ELSE g[m - 1] + AdSize[ads[m].node]
    BY <2>1 DEF Sizing
  <2>3. \A m \in 0 .. n + 1 : h[m] = IF m = 0 THEN 0 ELSE h[m - 1] + AdSize[ads[m].node]
    <3> TAKE m \in 0 .. n + 1
    <3>1. CASE m <= n
      <4>1. m # 0 => m - 1 \in 0 .. n /\ h[m - 1] = g[m - 1]
        BY <3>1
      <4>2. h[m] = g[m]
        BY <3>1
      <4>3. QED BY <4>1, <4>2, <2>2, <3>1
    <3>2. CASE m = n + 1
      <4>1. h[m - 1] = g[m - 1] /\ m # 0
        BY <3>2
      <4> HIDE DEF h
      <4>2. h[m] = g[m - 1] + AdSize[ads[m].node]
        BY <3>2 DEF h
      <4>3. QED BY <4>1, <4>2
    <3>3. QED BY <3>1, <3>2
  <2>4. Sizing(h, ads, n + 1)
    <3>1. h = [m \in 0 .. n + 1 |-> h[m]]
      OBVIOUS
    <3> HIDE DEF h
    <3>2. QED BY <2>3, <3>1 DEF Sizing
  <2>5. QED BY <2>4
<1>3. Nat \subseteq T
  <2> HIDE DEF T
  <2>1. QED BY <1>1, <1>2, NatSetInduction
<1>4. QED BY <1>3

\* What the sizes of the prefixes are.
LEMMA SizingSteps ==
  ASSUME NEW ads, Len(ads) \in Nat
  PROVE  \E g : /\ g[0] = 0
                /\ \A m \in 1 .. Len(ads) : g[m] = g[m - 1] + AdSize[ads[m].node]
                /\ PrefixSize(ads) = g
<1> DEFINE f == CHOOSE size : size = [k \in 0 .. Len(ads) |->
                  IF k = 0 THEN 0 ELSE size[k - 1] + AdSize[ads[k].node]]
<1>1. PICK g : Sizing(g, ads, Len(ads))
  BY SizingExists
<1>2. g = [k \in 0 .. Len(ads) |-> IF k = 0 THEN 0 ELSE g[k - 1] + AdSize[ads[k].node]]
  BY <1>1, Zenon DEF Sizing
<1>3. Sizing(f, ads, Len(ads))
  BY <1>2, Zenon DEF Sizing
<1>4. PrefixSize(ads) = f
  BY Zenon DEF PrefixSize
<1> HIDE DEF f
<1>5. \A m \in 0 .. Len(ads) : f[m] = IF m = 0 THEN 0 ELSE f[m - 1] + AdSize[ads[m].node]
  BY <1>3 DEF Sizing
<1>6. f[0] = 0
  BY <1>5
<1>7. ASSUME NEW m \in 1 .. Len(ads) PROVE f[m] = f[m - 1] + AdSize[ads[m].node]
  <2>1. m \in 0 .. Len(ads) /\ m # 0
    OBVIOUS
  <2>2. QED BY <1>5, <2>1
<1>8. QED BY <1>4, <1>6, <1>7

\* The sizes of the prefixes are numbers, and grow by one ad at a time.
LEMMA PrefixSizes ==
  ASSUME NEW s \in Seq(Ad)
  PROVE  /\ PrefixSize(s)[0] = 0
         /\ \A m \in 0 .. Len(s) : PrefixSize(s)[m] \in Nat
         /\ \A m \in 1 .. Len(s) : /\ AdSize[s[m].node] \in Nat
                                   /\ PrefixSize(s)[m] = PrefixSize(s)[m - 1] + AdSize[s[m].node]
<1>0. Len(s) \in Nat /\ \A m \in 1 .. Len(s) : AdSize[s[m].node] \in Nat
  <2>1. \A m \in 1 .. Len(s) : s[m] \in Ad
    OBVIOUS
  <2>2. QED BY <2>1, AdFields, BucketAssumption
<1>1. PICK g : /\ g[0] = 0
               /\ \A m \in 1 .. Len(s) : g[m] = g[m - 1] + AdSize[s[m].node]
               /\ PrefixSize(s) = g
  BY <1>0, SizingSteps
<1> DEFINE T == {n \in Nat : n <= Len(s) => g[n] \in Nat}
<1>2. 0 \in T
  BY <1>1
<1>3. \A n \in Nat : n \in T => n + 1 \in T
  <2> SUFFICES ASSUME NEW n \in Nat, n \in T, n + 1 <= Len(s) PROVE g[n + 1] \in Nat
    OBVIOUS
  <2>1. n + 1 \in 1 .. Len(s) /\ (n + 1) - 1 = n /\ g[n] \in Nat
    BY <1>0
  <2>2. g[n + 1] = g[n] + AdSize[s[n + 1].node]
    BY <1>1, <2>1
  <2>3. QED BY <1>0, <2>1, <2>2
<1>4. Nat \subseteq T
  <2> HIDE DEF T
  <2>1. QED BY <1>2, <1>3, NatSetInduction
<1>5. \A m \in 0 .. Len(s) : g[m] \in Nat
  BY <1>0, <1>4
<1>6. QED BY <1>0, <1>1, <1>5

\* A prefix has the size that it has in the whole.
LEMMA PrefixHasSize ==
  ASSUME NEW s \in Seq(Ad), NEW k \in 0 .. Len(s)
  PROVE  \E r \in Seq(Ad) :
           /\ r = SubSeq(s, 1, k) /\ Len(r) = k /\ Size(r) = PrefixSize(s)[k]
           /\ \A i \in 1 .. k : r[i] = s[i]
<1>0. Len(s) \in Nat /\ \A i \in 1 .. k : s[i] \in Ad /\ i \in 1 .. Len(s)
  OBVIOUS
<1>1. PICK r : r = SubSeq(s, 1, k)
  OBVIOUS
<1>2. /\ r \in Seq(Ad) /\ Len(r) = IF 1 <= k THEN k - 1 + 1 ELSE 0
      /\ \A i \in 1 .. k - 1 + 1 : r[i] = s[1 + i - 1]
  BY <1>0, <1>1, SubSeqProperties
<1>3. Len(r) = k /\ \A i \in 1 .. k : r[i] = s[i]
  BY <1>2
<1> DEFINE T == {n \in Nat : n <= k => PrefixSize(r)[n] = PrefixSize(s)[n]}
<1>4. 0 \in T
  BY <1>2, PrefixSizes
<1>5. \A n \in Nat : n \in T => n + 1 \in T
  <2> SUFFICES ASSUME NEW n \in Nat, n \in T, n + 1 <= k
               PROVE  PrefixSize(r)[n + 1] = PrefixSize(s)[n + 1]
    OBVIOUS
  <2>1. n + 1 \in 1 .. Len(r) /\ n + 1 \in 1 .. Len(s) /\ (n + 1) - 1 = n
        /\ r[n + 1] = s[n + 1] /\ PrefixSize(r)[n] = PrefixSize(s)[n]
    BY <1>0, <1>3
  <2>2. PrefixSize(r)[n + 1] = PrefixSize(r)[(n + 1) - 1] + AdSize[r[n + 1].node]
    BY <1>2, <2>1, PrefixSizes
  <2>3. PrefixSize(s)[n + 1] = PrefixSize(s)[(n + 1) - 1] + AdSize[s[n + 1].node]
    BY <2>1, PrefixSizes
  <2>4. QED BY <2>1, <2>2, <2>3
<1>6. Nat \subseteq T
  <2> HIDE DEF T
  <2>1. QED BY <1>4, <1>5, NatSetInduction
<1>7. PrefixSize(r)[k] = PrefixSize(s)[k]
  BY <1>6
<1>8. QED BY <1>1, <1>2, <1>3, <1>7 DEF Size

\* The longest prefix that fits fits, and with one ad more it would not.
LEMMA FittingFits ==
  ASSUME NEW s \in Seq(Ad)
  PROVE  \E k \in 0 .. Len(s) :
           /\ k = Fitting(s) /\ PrefixSize(s)[k] <= MaxSize
           /\ k < Len(s) => PrefixSize(s)[k] + AdSize[s[k + 1].node] > MaxSize
<1> DEFINE K == {k \in 0 .. Len(s) : PrefixSize(s)[k] <= MaxSize}
<1>0. Len(s) \in Nat /\ MaxSize \in Nat
  BY BucketAssumption
<1>1. K \in SUBSET Nat /\ K # {} /\ \A x \in K : x <= Len(s)
  BY <1>0, PrefixSizes
<1>2. Max(K) \in K /\ \A x \in K : x <= Max(K)
  <2> HIDE DEF K
  <2>1. QED BY <1>0, <1>1, MaxIsGreatest
<1>3. PICK k \in K : k = Max(K) /\ \A x \in K : x <= k
  BY <1>2
<1>4. k = Fitting(s)
  BY <1>3 DEF Fitting
<1>5. ASSUME k < Len(s) PROVE PrefixSize(s)[k] + AdSize[s[k + 1].node] > MaxSize
  <2>1. k + 1 \in 1 .. Len(s) /\ k + 1 \in 0 .. Len(s) /\ (k + 1) - 1 = k /\ ~(k + 1 <= k)
        /\ k \in 0 .. Len(s)
    BY <1>0, <1>5
  <2>2. ~(PrefixSize(s)[k + 1] <= MaxSize)
    BY <1>3, <2>1
  <2>3. /\ PrefixSize(s)[k + 1] \in Nat /\ PrefixSize(s)[k] \in Nat
        /\ PrefixSize(s)[k + 1] = PrefixSize(s)[k] + AdSize[s[k + 1].node]
    <3>1. PrefixSize(s)[k + 1] = PrefixSize(s)[(k + 1) - 1] + AdSize[s[k + 1].node]
      BY <2>1, PrefixSizes
    <3>2. QED BY <2>1, <3>1, PrefixSizes
  <2>4. QED BY <1>0, <2>2, <2>3
<1>6. QED BY <1>3, <1>4, <1>5

-----------------------------------------------------------------------------
(* Merging.                                                                *)

\* Of the ads O, m has the newest of each node.
Newest(m, O) ==
  /\ m \subseteq O
  /\ \A a, b \in m : a.node = b.node => a = b
  /\ \A b \in O : \E a \in m : a.node = b.node /\ ~Precedes(b, a)

\* An entry of the map is replaced by a newer ad.
LEMMA InsertNewest ==
  ASSUME NEW O \in SUBSET Ad, NEW m, Newest(m, O), NEW ad \in Ad
  PROVE  Newest(Insert(m, ad), O \cup {ad})
<1> DEFINE E == {b \in m : b.node = ad.node}
<1>1. m \subseteq Ad
  BY DEF Newest
<1>2. CASE \A b \in E : Precedes(ad, b)
  <2>1. Insert(m, ad) = (m \ E) \cup {ad}
    BY <1>2 DEF Insert
  <2>2. ASSUME NEW b \in O \cup {ad}
        PROVE  \E a \in (m \ E) \cup {ad} : a.node = b.node /\ ~Precedes(b, a)
    <3>1. CASE b = ad
      BY <3>1, PrecedesOrder
    <3>2. CASE b \in O
      <4>1. PICK a \in m : a.node = b.node /\ ~Precedes(b, a)
        BY <3>2 DEF Newest
      <4>2. CASE a \in E
        <5>1. Precedes(ad, a) /\ a \in Ad /\ b \in Ad
          BY <1>1, <1>2, <3>2, <4>2
        <5>2. ~Precedes(b, ad)
          BY <4>1, <5>1, PrecedesOrder
        <5>3. QED BY <4>1, <4>2, <5>2
      <4>3. CASE a \notin E
        BY <4>1, <4>3
      <4>4. QED BY <4>2, <4>3
    <3>3. QED BY <3>1, <3>2
  <2>3. QED BY <2>1, <2>2 DEF Newest
<1>3. CASE ~ \A b \in E : Precedes(ad, b)
  <2>1. Insert(m, ad) = m
    BY <1>3 DEF Insert
  <2>2. PICK e \in m : e.node = ad.node /\ ~Precedes(ad, e)
    BY <1>3
  <2>3. QED BY <2>1, <2>2 DEF Newest
<1>4. QED BY <1>2, <1>3

\* The valid ones of the first n ads of a bucket, and of the first n buckets.
ValidIn(bucket, n, t) == {bucket[i] : i \in {j \in 1 .. n : Verify(bucket[j], t)}}

Offered(buckets, n, t) == UNION {ValidIn(buckets[k], Len(buckets[k]), t) : k \in 1 .. n}

\* g takes the first n ads of a bucket into the map, one by one.
Filling(g, found, bucket, t, n) ==
  g = [m \in 0 .. n |-> IF m = 0 THEN found ELSE (IF Verify(bucket[m], t) THEN Insert(g[m - 1], bucket[m]) ELSE g[m - 1])]

\* The equation has a solution.
LEMMA FillingExists ==
  ASSUME NEW found, NEW bucket, NEW t, NEW N \in Nat
  PROVE  \E g : Filling(g, found, bucket, t, N)
<1> DEFINE T == {n \in Nat : \E g : Filling(g, found, bucket, t, n)}
<1>1. 0 \in T
  <2>1. Filling([m \in 0 .. 0 |-> found], found, bucket, t, 0)
    BY DEF Filling
  <2>2. QED BY <2>1
<1>2. ASSUME NEW n \in Nat, n \in T PROVE n + 1 \in T
  <2>1. PICK g : Filling(g, found, bucket, t, n)
    BY <1>2
  <2> DEFINE h == [m \in 0 .. n + 1 |-> IF m <= n THEN g[m] ELSE (IF Verify(bucket[m], t) THEN Insert(g[m - 1], bucket[m]) ELSE g[m - 1])]
  <2>2. \A m \in 0 .. n : g[m] = IF m = 0 THEN found ELSE (IF Verify(bucket[m], t) THEN Insert(g[m - 1], bucket[m]) ELSE g[m - 1])
    BY <2>1 DEF Filling
  <2>3. \A m \in 0 .. n + 1 : h[m] = IF m = 0 THEN found ELSE (IF Verify(bucket[m], t) THEN Insert(h[m - 1], bucket[m]) ELSE h[m - 1])
    <3> TAKE m \in 0 .. n + 1
    <3>1. CASE m <= n
      <4>1. m # 0 => m - 1 \in 0 .. n /\ h[m - 1] = g[m - 1]
        BY <3>1
      <4>2. h[m] = g[m]
        BY <3>1
      <4>3. QED BY <4>1, <4>2, <2>2, <3>1
    <3>2. CASE m = n + 1
      <4>1. h[m - 1] = g[m - 1] /\ m # 0
        BY <3>2
      <4> HIDE DEF h
      <4>2. h[m] = (IF Verify(bucket[m], t) THEN Insert(g[m - 1], bucket[m]) ELSE g[m - 1])
        BY <3>2 DEF h
      <4>3. QED BY <4>1, <4>2
    <3>3. QED BY <3>1, <3>2
  <2>4. Filling(h, found, bucket, t, n + 1)
    <3>1. h = [m \in 0 .. n + 1 |-> h[m]]
      OBVIOUS
    <3> HIDE DEF h
    <3>2. QED BY <2>3, <3>1 DEF Filling
  <2>5. QED BY <2>4
<1>3. Nat \subseteq T
  <2> HIDE DEF T
  <2>1. QED BY <1>1, <1>2, NatSetInduction
<1>4. QED BY <1>3

\* What the inner loop of merge_valid computes.
LEMMA FillingSteps ==
  ASSUME NEW found, NEW bucket, NEW t, Len(bucket) \in Nat
  PROVE  \E g : /\ g[0] = found
                /\ \A m \in 1 .. Len(bucket) : g[m] = (IF Verify(bucket[m], t) THEN Insert(g[m - 1], bucket[m]) ELSE g[m - 1])
                /\ MergeBucket(found, bucket, t) = g[Len(bucket)]
<1> DEFINE f == CHOOSE merged : merged = [k \in 0 .. Len(bucket) |->
                  IF k = 0 THEN found ELSE (IF Verify(bucket[k], t) THEN Insert(merged[k - 1], bucket[k]) ELSE merged[k - 1])]
<1>1. PICK g : Filling(g, found, bucket, t, Len(bucket))
  BY FillingExists
<1>2. g = [k \in 0 .. Len(bucket) |-> IF k = 0 THEN found ELSE (IF Verify(bucket[k], t) THEN Insert(g[k - 1], bucket[k]) ELSE g[k - 1])]
  BY <1>1, Zenon DEF Filling
<1>3. Filling(f, found, bucket, t, Len(bucket))
  BY <1>2, Zenon DEF Filling
<1>4. MergeBucket(found, bucket, t) = f[Len(bucket)]
  BY Zenon DEF MergeBucket
<1> HIDE DEF f
<1>5. \A m \in 0 .. Len(bucket) : f[m] = IF m = 0 THEN found ELSE (IF Verify(bucket[m], t) THEN Insert(f[m - 1], bucket[m]) ELSE f[m - 1])
  BY <1>3 DEF Filling
<1>6. f[0] = found
  BY <1>5
<1>7. ASSUME NEW m \in 1 .. Len(bucket) PROVE f[m] = (IF Verify(bucket[m], t) THEN Insert(f[m - 1], bucket[m]) ELSE f[m - 1])
  <2>1. m \in 0 .. Len(bucket) /\ m # 0
    OBVIOUS
  <2>2. QED BY <1>5, <2>1
<1>8. QED BY <1>4, <1>6, <1>7

\* The inner loop.
LEMMA BucketNewest ==
  ASSUME NEW O \in SUBSET Ad, NEW found, Newest(found, O), NEW bucket \in Seq(Ad), NEW t
  PROVE  Newest(MergeBucket(found, bucket, t), O \cup ValidIn(bucket, Len(bucket), t))
<1>0. Len(bucket) \in Nat /\ \A i \in 1 .. Len(bucket) : bucket[i] \in Ad
  OBVIOUS
<1>1. PICK g : /\ g[0] = found
               /\ \A m \in 1 .. Len(bucket) :
                    g[m] = (IF Verify(bucket[m], t) THEN Insert(g[m - 1], bucket[m]) ELSE g[m - 1])
               /\ MergeBucket(found, bucket, t) = g[Len(bucket)]
  BY <1>0, FillingSteps
<1>2. PICK U : U = [n \in Nat |-> O \cup ValidIn(bucket, n, t)]
  OBVIOUS
<1> DEFINE T == {n \in Nat : n <= Len(bucket) => Newest(g[n], U[n])}
<1>3. 0 \in T
  <2>1. U[0] = O
    BY <1>2 DEF ValidIn
  <2>2. QED BY <1>1, <2>1
<1>4. \A n \in Nat : n \in T => n + 1 \in T
  <2> SUFFICES ASSUME NEW n \in Nat, n \in T, n + 1 <= Len(bucket)
               PROVE  Newest(g[n + 1], U[n + 1])
    OBVIOUS
  <2>1. PICK V : V = U[n] /\ V = O \cup ValidIn(bucket, n, t)
    BY <1>2
  <2>2. n + 1 \in 1 .. Len(bucket) /\ (n + 1) - 1 = n /\ bucket[n + 1] \in Ad
    BY <1>0
  <2>3. Newest(g[n], V)
    <3>1. n <= Len(bucket)
      BY <1>0, <2>2
    <3>2. Newest(g[n], U[n])
      BY <3>1
    <3>3. QED BY <2>1, <3>2
  <2>4. V \in SUBSET Ad
    BY <1>0, <2>1, <2>2 DEF ValidIn
  <2>5. \A j \in 1 .. n + 1 : j = n + 1 \/ j \in 1 .. n
    OBVIOUS
  <2>6. n + 1 \in 1 .. n + 1 /\ \A j \in 1 .. n : j \in 1 .. n + 1
    OBVIOUS
  <2>7. CASE Verify(bucket[n + 1], t)
    <3>1. ValidIn(bucket, n + 1, t) = ValidIn(bucket, n, t) \cup {bucket[n + 1]}
      BY <2>5, <2>6, <2>7 DEF ValidIn
    <3>2. g[n + 1] = Insert(g[n], bucket[n + 1])
      BY <1>1, <2>2, <2>7
    <3>3. Newest(g[n + 1], V \cup {bucket[n + 1]})
      BY <2>2, <2>3, <2>4, <3>2, InsertNewest
    <3>4. V \cup {bucket[n + 1]} = U[n + 1]
      BY <1>2, <2>1, <3>1
    <3>5. QED BY <3>3, <3>4
  <2>8. CASE ~Verify(bucket[n + 1], t)
    <3>1. ValidIn(bucket, n + 1, t) = ValidIn(bucket, n, t)
      BY <2>5, <2>6, <2>8 DEF ValidIn
    <3>2. g[n + 1] = g[n]
      BY <1>1, <2>2, <2>8
    <3>3. U[n + 1] = V
      BY <1>2, <2>1, <3>1
    <3>4. QED BY <2>3, <3>2, <3>3
  <2>9. QED BY <2>7, <2>8
<1>5. Nat \subseteq T
  <2> HIDE DEF T
  <2>1. QED BY <1>3, <1>4, NatSetInduction
<1>6. Newest(g[Len(bucket)], U[Len(bucket)])
  BY <1>0, <1>5
<1>7. U[Len(bucket)] = O \cup ValidIn(bucket, Len(bucket), t)
  BY <1>0, <1>2
<1>8. QED BY <1>1, <1>6, <1>7

\* g takes the first n buckets into the map, one by one.
Merging(g, buckets, t, n) ==
  g = [m \in 0 .. n |-> IF m = 0 THEN {} ELSE MergeBucket(g[m - 1], buckets[m], t)]

\* The equation has a solution.
LEMMA MergingExists ==
  ASSUME NEW buckets, NEW t, NEW N \in Nat
  PROVE  \E g : Merging(g, buckets, t, N)
<1> DEFINE T == {n \in Nat : \E g : Merging(g, buckets, t, n)}
<1>1. 0 \in T
  <2>1. Merging([m \in 0 .. 0 |-> {}], buckets, t, 0)
    BY DEF Merging
  <2>2. QED BY <2>1
<1>2. ASSUME NEW n \in Nat, n \in T PROVE n + 1 \in T
  <2>1. PICK g : Merging(g, buckets, t, n)
    BY <1>2
  <2> DEFINE h == [m \in 0 .. n + 1 |-> IF m <= n THEN g[m] ELSE MergeBucket(g[m - 1], buckets[m], t)]
  <2>2. \A m \in 0 .. n : g[m] = IF m = 0 THEN {} ELSE MergeBucket(g[m - 1], buckets[m], t)
    BY <2>1 DEF Merging
  <2>3. \A m \in 0 .. n + 1 : h[m] = IF m = 0 THEN {} ELSE MergeBucket(h[m - 1], buckets[m], t)
    <3> TAKE m \in 0 .. n + 1
    <3>1. CASE m <= n
      <4>1. m # 0 => m - 1 \in 0 .. n /\ h[m - 1] = g[m - 1]
        BY <3>1
      <4>2. h[m] = g[m]
        BY <3>1
      <4>3. QED BY <4>1, <4>2, <2>2, <3>1
    <3>2. CASE m = n + 1
      <4>1. h[m - 1] = g[m - 1] /\ m # 0
        BY <3>2
      <4> HIDE DEF h
      <4>2. h[m] = MergeBucket(g[m - 1], buckets[m], t)
        BY <3>2 DEF h
      <4>3. QED BY <4>1, <4>2
    <3>3. QED BY <3>1, <3>2
  <2>4. Merging(h, buckets, t, n + 1)
    <3>1. h = [m \in 0 .. n + 1 |-> h[m]]
      OBVIOUS
    <3> HIDE DEF h
    <3>2. QED BY <2>3, <3>1 DEF Merging
  <2>5. QED BY <2>4
<1>3. Nat \subseteq T
  <2> HIDE DEF T
  <2>1. QED BY <1>1, <1>2, NatSetInduction
<1>4. QED BY <1>3

\* What the outer loop computes.
LEMMA MergingSteps ==
  ASSUME NEW buckets, NEW t, Len(buckets) \in Nat
  PROVE  \E g : /\ g[0] = {}
                /\ \A m \in 1 .. Len(buckets) : g[m] = MergeBucket(g[m - 1], buckets[m], t)
                /\ Merge(buckets, t) = g[Len(buckets)]
<1> DEFINE f == CHOOSE merged : merged = [k \in 0 .. Len(buckets) |->
                  IF k = 0 THEN {} ELSE MergeBucket(merged[k - 1], buckets[k], t)]
<1>1. PICK g : Merging(g, buckets, t, Len(buckets))
  BY MergingExists
<1>2. g = [k \in 0 .. Len(buckets) |-> IF k = 0 THEN {} ELSE MergeBucket(g[k - 1], buckets[k], t)]
  BY <1>1, Zenon DEF Merging
<1>3. Merging(f, buckets, t, Len(buckets))
  BY <1>2, Zenon DEF Merging
<1>4. Merge(buckets, t) = f[Len(buckets)]
  BY Zenon DEF Merge
<1> HIDE DEF f
<1>5. \A m \in 0 .. Len(buckets) : f[m] = IF m = 0 THEN {} ELSE MergeBucket(f[m - 1], buckets[m], t)
  BY <1>3 DEF Merging
<1>6. f[0] = {}
  BY <1>5
<1>7. ASSUME NEW m \in 1 .. Len(buckets) PROVE f[m] = MergeBucket(f[m - 1], buckets[m], t)
  <2>1. m \in 0 .. Len(buckets) /\ m # 0
    OBVIOUS
  <2>2. QED BY <1>5, <2>1
<1>8. QED BY <1>4, <1>6, <1>7

\* Both loops: merge_valid finds the newest of the valid ads of each node.
LEMMA MergeNewest ==
  ASSUME NEW buckets \in Seq(Seq(Ad)), NEW t
  PROVE  /\ Newest(Merge(buckets, t), Offered(buckets, Len(buckets), t))
         /\ Offered(buckets, Len(buckets), t) \in SUBSET Ad
<1>0. Len(buckets) \in Nat /\ \A k \in 1 .. Len(buckets) : buckets[k] \in Seq(Ad)
  OBVIOUS
<1>1. PICK g : /\ g[0] = {}
               /\ \A m \in 1 .. Len(buckets) : g[m] = MergeBucket(g[m - 1], buckets[m], t)
               /\ Merge(buckets, t) = g[Len(buckets)]
  BY <1>0, MergingSteps
<1> DEFINE T == {n \in Nat : n <= Len(buckets) =>
                   Newest(g[n], Offered(buckets, n, t)) /\ Offered(buckets, n, t) \in SUBSET Ad}
<1>2. 0 \in T
  <2>1. Offered(buckets, 0, t) = {}
    BY DEF Offered
  <2>2. QED BY <1>1, <2>1 DEF Newest
<1>3. \A n \in Nat : n \in T => n + 1 \in T
  <2> SUFFICES ASSUME NEW n \in Nat, n \in T, n + 1 <= Len(buckets)
               PROVE  /\ Newest(g[n + 1], Offered(buckets, n + 1, t))
                      /\ Offered(buckets, n + 1, t) \in SUBSET Ad
    OBVIOUS
  <2>1. PICK V : V = Offered(buckets, n, t)
    OBVIOUS
  <2>2. n + 1 \in 1 .. Len(buckets) /\ (n + 1) - 1 = n
    BY <1>0
  <2>3. PICK b \in Seq(Ad) : b = buckets[n + 1]
    BY <1>0, <2>2
  <2>4. Newest(g[n], V) /\ V \in SUBSET Ad
    BY <1>0, <2>1, <2>2
  <2>5. g[n + 1] = MergeBucket(g[n], b, t)
    BY <1>1, <2>2, <2>3
  <2>6. Newest(g[n + 1], V \cup ValidIn(b, Len(b), t))
    BY <2>4, <2>5, BucketNewest
  <2>7. ValidIn(b, Len(b), t) \in SUBSET Ad
    BY DEF ValidIn
  <2>8. Offered(buckets, n + 1, t) = V \cup ValidIn(b, Len(b), t)
    <3>1. \A j \in 1 .. n + 1 : j = n + 1 \/ j \in 1 .. n
      OBVIOUS
    <3>2. n + 1 \in 1 .. n + 1 /\ \A j \in 1 .. n : j \in 1 .. n + 1
      OBVIOUS
    <3>3. QED BY <2>1, <2>3, <3>1, <3>2 DEF Offered
  <2>9. QED BY <2>4, <2>6, <2>7, <2>8
<1>4. Nat \subseteq T
  <2> HIDE DEF T
  <2>1. QED BY <1>2, <1>3, NatSetInduction
<1>5. QED BY <1>0, <1>1, <1>4

\* The values of the map, in some order.
LEMMA ValuesInOrder ==
  ASSUME NEW S \in SUBSET Ad, \A a, b \in S : a.node = b.node => a = b
  PROVE  \E q \in Seq(Ad) :
           /\ q = SetToSeq(S) /\ Distinct(q)
           /\ \A i \in 1 .. Len(q) : q[i] \in S
           /\ \A a \in S : \E i \in 1 .. Len(q) : q[i] = a
<1> DEFINE f == [a \in S |-> a.node]
<1>1. f \in Injection(S, Nodes)
  BY AdFields DEF Injection, IsInjective
<1>2. IsFiniteSet(S)
  <2> HIDE DEF f
  <2>1. QED BY <1>1, FS_Injection, BucketAssumption
<1>3. PICK n \in Nat : n = Cardinality(S) /\ ExistsBijection(1 .. n, S)
  BY <1>2, FS_CardinalityType
<1>4. PICK h : h \in Bijection(1 .. n, S)
  BY <1>3 DEF ExistsBijection
<1>5. h \in [1 .. n -> S] /\ IsInjective(h)
  BY <1>4 DEF Bijection, Injection
<1>6. PICK q : q = SetToSeq(S)
  OBVIOUS
<1>7. q \in [1 .. n -> S] /\ IsInjective(q)
  BY <1>3, <1>5, <1>6, Zenon DEF SetToSeq
<1>8. q \in Injection(1 .. n, S)
  BY <1>7 DEF Injection
<1>9. Cardinality(1 .. n) = n
  <2>1. 0 \in Int /\ 1 \in Int /\ n \in Int
    OBVIOUS
  <2>2. Cardinality(1 .. n) = IF 1 > n THEN 0 ELSE n - 1 + 1
    BY <2>1, FS_Interval
  <2>3. QED BY <2>2
<1>10. q \in Surjection(1 .. n, S)
  BY <1>2, <1>3, <1>8, <1>9, FS_Injection
<1>11. \A a \in S : \E i \in 1 .. n : q[i] = a
  BY <1>10 DEF Surjection
<1>12. q \in Seq(Ad) /\ Len(q) = n
  BY <1>7, SeqDef
<1>13. Distinct(q)
  <2> SUFFICES ASSUME NEW i \in 1 .. n, NEW j \in 1 .. n, q[i].node = q[j].node PROVE i = j
    BY <1>12 DEF Distinct
  <2>1. q[i] = q[j]
    BY <1>7
  <2>2. QED BY <1>7, <2>1 DEF IsInjective
<1>14. QED BY <1>6, <1>7, <1>11, <1>12, <1>13

\* What merge_valid returns: the newest valid ads, each node once, newer ones first.
LEMMA MergeValidNewest ==
  ASSUME NEW buckets \in Seq(Seq(Ad)), NEW t
  PROVE  \E q \in Seq(Ad) :
           /\ q = MergeValid(buckets, t) /\ Distinct(q) /\ SortedBy(q, NoNode)
           /\ Newest({q[i] : i \in 1 .. Len(q)}, Offered(buckets, Len(buckets), t))
<1>1. PICK S : S = Merge(buckets, t)
  OBVIOUS
<1>2. PICK O \in SUBSET Ad : O = Offered(buckets, Len(buckets), t) /\ Newest(S, O)
  BY <1>1, MergeNewest
<1>3. S \in SUBSET Ad /\ \A a, b \in S : a.node = b.node => a = b
  BY <1>2 DEF Newest
<1>4. PICK r \in Seq(Ad) :
        /\ r = SetToSeq(S) /\ Distinct(r)
        /\ \A i \in 1 .. Len(r) : r[i] \in S
        /\ \A a \in S : \E i \in 1 .. Len(r) : r[i] = a
  BY <1>3, ValuesInOrder
<1>5. PICK q : q = Sort(r, NoNode)
  OBVIOUS
<1>6. SortOf(q, r, Len(r), NoNode)
  BY <1>4, <1>5, SortSorts
<1>7. q = MergeValid(buckets, t)
  BY <1>1, <1>4, <1>5 DEF MergeValid
<1>8. {q[i] : i \in 1 .. Len(q)} = S
  <2>1. ASSUME NEW i \in 1 .. Len(q) PROVE q[i] \in S
    BY <1>4, <1>6 DEF SortOf
  <2>2. ASSUME NEW a \in S PROVE \E i \in 1 .. Len(q) : q[i] = a
    BY <1>4, <1>6 DEF SortOf
  <2>3. QED BY <2>1, <2>2
<1>9. QED BY <1>2, <1>6, <1>7, <1>8 DEF SortOf


-----------------------------------------------------------------------------
(* The bucket that a publisher makes of what it read.                      *)

\* upsert adds the publisher's ad, or replaces an older one of it.
LEMMA UpsertKeeps ==
  ASSUME NEW q \in Seq(Ad), Distinct(q), NEW ad \in Ad
  PROVE  \E u \in Seq(Ad) :
           /\ u = Upsert(q, ad) /\ Distinct(u)
           /\ \E j \in 1 .. Len(u) : u[j].node = ad.node
           /\ \A i \in 1 .. Len(q) :
                \E j \in 1 .. Len(u) : u[j].node = q[i].node /\ ~Precedes(q[i], u[j])
           /\ \A j \in 1 .. Len(u) : u[j].node = ad.node \/ \E i \in 1 .. Len(q) : u[j] = q[i]
<1>0. Len(q) \in Nat /\ DOMAIN q = 1 .. Len(q) /\ \A i \in 1 .. Len(q) : q[i] \in Ad
  OBVIOUS
<1>1. CASE \E i \in DOMAIN q : q[i].node = ad.node
  <2>1. PICK u : u = [i \in DOMAIN q |-> IF q[i].node = ad.node /\ Precedes(ad, q[i])
                                         THEN ad ELSE q[i]]
    OBVIOUS
  <2>2. u = Upsert(q, ad)
    BY <1>1, <2>1 DEF Upsert
  <2>3. u \in [1 .. Len(q) -> Ad]
    BY <1>0, <2>1
  <2>4. u \in Seq(Ad) /\ Len(u) = Len(q)
    BY <1>0, <2>3, SeqDef
  <2>5. \A i \in 1 .. Len(q) : /\ u[i] = ad \/ u[i] = q[i]
                               /\ u[i] = ad => q[i].node = ad.node
                               /\ u[i].node = q[i].node
                               /\ ~Precedes(q[i], u[i])
    <3> TAKE i \in 1 .. Len(q)
    <3>1. u[i] = IF q[i].node = ad.node /\ Precedes(ad, q[i]) THEN ad ELSE q[i]
      BY <1>0, <2>1
    <3>2. q[i] \in Ad
      BY <1>0
    <3>3. QED BY <3>1, <3>2, PrecedesOrder
  <2>6. Distinct(u)
    BY <2>4, <2>5 DEF Distinct
  <2>7. QED BY <1>0, <1>1, <2>2, <2>4, <2>5, <2>6
<1>2. CASE ~ \E i \in DOMAIN q : q[i].node = ad.node
  <2>1. PICK u : u = Append(q, ad)
    OBVIOUS
  <2>2. u = Upsert(q, ad)
    BY <1>2, <2>1 DEF Upsert
  <2>3. /\ u \in Seq(Ad) /\ Len(u) = Len(q) + 1 /\ u[Len(q) + 1] = ad
        /\ \A i \in 1 .. Len(q) : u[i] = q[i]
    BY <2>1
  <2>4. \A j \in 1 .. Len(u) : j \in 1 .. Len(q) \/ j = Len(q) + 1
    BY <1>0, <2>3
  <2>5. /\ \A i \in 1 .. Len(q) : i \in 1 .. Len(u)
        /\ Len(q) + 1 \in 1 .. Len(u)
    BY <1>0, <2>3
  <2>6. Distinct(u)
    BY <1>0, <1>2, <2>3, <2>4 DEF Distinct
  <2>7. ASSUME NEW i \in 1 .. Len(q)
        PROVE  \E j \in 1 .. Len(u) : u[j].node = q[i].node /\ ~Precedes(q[i], u[j])
    <3>1. u[i] = q[i] /\ i \in 1 .. Len(u) /\ q[i] \in Ad
      BY <1>0, <2>3, <2>5
    <3>2. QED BY <3>1, PrecedesOrder
  <2>8. QED BY <2>2, <2>3, <2>4, <2>5, <2>6, <2>7
<1>3. QED BY <1>1, <1>2

\* What is put under the bucket's key: it fits, has one ad of each node, and the
\* publisher's own first.
BucketOK(r, n) ==
  Size(r) <= MaxSize /\ Distinct(r) /\ Len(r) > 0 /\ r[1].node = n

\* The bucket has an ad of the node that is not older.
KeptIn(r, ad) == \E i \in 1 .. Len(r) : r[i].node = ad.node /\ ~Precedes(ad, r[i])

\* What stays but for the publisher's own ad is newer, and b does not fit in addition.
NoRoomFor(r, n, ad, b) ==
  /\ \A i \in 1 .. Len(r) : r[i].node = n \/ Precedes(r[i], ad)
  /\ ~KeptIn(r, b) /\ ~Precedes(ad, b) /\ Size(r) + AdSize[b.node] > MaxSize

\* trim_to_size drops an ad only if there is no room.
LEMMA TrimKeeps ==
  ASSUME NEW u \in Seq(Ad), Distinct(u), NEW n \in Nodes,
         NEW o \in 1 .. Len(u), u[o].node = n, TrimToSize(u, n).fits
  PROVE  \E r \in Seq(Ad) :
           /\ r = TrimToSize(u, n).ads /\ BucketOK(r, n)
           /\ \A j \in 1 .. Len(u) :
                \/ KeptIn(r, u[j])
                \/ u[j].node # n /\ \E b \in 1 .. Len(u) : u[b].node # n /\ NoRoomFor(r, n, u[j], u[b])
<1>0. Len(u) \in Nat /\ \A j \in 1 .. Len(u) : u[j] \in Ad
  OBVIOUS
<1>1. PICK s : s = Sort(u, n)
  OBVIOUS
<1>2. SortOf(s, u, Len(u), n)
  BY <1>1, SortSorts
<1>3. /\ s \in Seq(Ad) /\ SortedBy(s, n) /\ Distinct(s)
      /\ \A i \in 1 .. Len(s) : \E j \in 1 .. Len(u) : s[i] = u[j]
      /\ \A j \in 1 .. Len(u) : \E i \in 1 .. Len(s) : s[i] = u[j]
  BY <1>2 DEF SortOf
<1>4. Len(s) \in Nat /\ \A i \in 1 .. Len(s) : s[i] \in Ad
  BY <1>3
<1>5. PICK k \in 0 .. Len(s) :
        /\ k = Fitting(s) /\ PrefixSize(s)[k] <= MaxSize
        /\ k < Len(s) => PrefixSize(s)[k] + AdSize[s[k + 1].node] > MaxSize
  BY <1>3, FittingFits
<1>6. PICK r \in Seq(Ad) :
        /\ r = SubSeq(s, 1, k) /\ Len(r) = k /\ Size(r) = PrefixSize(s)[k]
        /\ \A i \in 1 .. k : r[i] = s[i]
  BY <1>3, PrefixHasSize
<1>7. r = TrimToSize(u, n).ads /\ k > 0
  BY <1>1, <1>5, <1>6 DEF TrimToSize
<1>8. 1 \in 1 .. Len(s) /\ s[1].node = n
  <2>1. PICK i \in 1 .. Len(s) : s[i] = u[o]
    BY <1>3
  <2>2. 1 \in 1 .. Len(s) /\ (1 < i \/ i = 1)
    BY <1>4
  <2>3. CASE i = 1
    BY <2>1, <2>2, <2>3
  <2>4. CASE 1 < i
    <3>1. ~PreferredPrecedes(s[i], s[1], n)
      BY <1>3, <2>2, <2>4 DEF SortedBy
    <3>2. s[1].node = n
      BY <2>1, <3>1 DEF PreferredPrecedes
    <3>3. QED BY <2>2, <3>2
  <2>5. QED BY <2>2, <2>3, <2>4
<1>9. BucketOK(r, n)
  <2>1. Distinct(r)
    <3>1. \A i \in 1 .. k : i \in 1 .. Len(s)
      BY <1>4
    <3>2. QED BY <1>3, <1>6, <3>1 DEF Distinct
  <2>2. 1 \in 1 .. k
    BY <1>7
  <2>3. QED BY <1>5, <1>6, <1>7, <1>8, <2>1, <2>2 DEF BucketOK
<1>10. ASSUME NEW j \in 1 .. Len(u), ~KeptIn(r, u[j])
       PROVE  u[j].node # n /\ \E b \in 1 .. Len(u) : u[b].node # n /\ NoRoomFor(r, n, u[j], u[b])
  <2>1. PICK x \in 1 .. Len(s) : s[x] = u[j]
    BY <1>3
  <2>2. u[j] \in Ad
    BY <1>0
  <2>3. ~(x <= k)
    <3> SUFFICES ASSUME x <= k PROVE FALSE
      OBVIOUS
    <3>1. x \in 1 .. k /\ x \in 1 .. Len(r)
      BY <1>6
    <3>2. r[x] = u[j] /\ ~Precedes(u[j], u[j])
      BY <1>6, <2>1, <2>2, <3>1, PrecedesOrder
    <3>3. QED BY <1>10, <3>1, <3>2 DEF KeptIn
  <2>4. k + 1 \in 1 .. Len(s) /\ k + 1 # 1 /\ x # 1 /\ k < Len(s) /\ (x = k + 1 \/ k + 1 < x)
    BY <1>4, <1>7, <2>3
  <2>5. PICK b \in 1 .. Len(u) : s[k + 1] = u[b]
    BY <1>3, <2>4
  <2>6. u[b].node # n /\ u[j].node # n
    <3>1. s[k + 1].node # s[1].node
      BY <1>3, <1>8, <2>4 DEF Distinct
    <3>2. s[x].node # s[1].node
      BY <1>3, <1>8, <2>4 DEF Distinct
    <3>3. QED BY <1>8, <2>1, <2>5, <3>1, <3>2
  <2>7. ~Precedes(u[j], u[b])
    <3>1. CASE x = k + 1
      BY <2>1, <2>2, <2>5, <3>1, PrecedesOrder
    <3>2. CASE k + 1 < x
      <4>1. ~PreferredPrecedes(s[x], s[k + 1], n)
        BY <1>3, <2>4, <3>2 DEF SortedBy
      <4>2. QED BY <2>1, <2>5, <2>6, <4>1 DEF PreferredPrecedes
    <3>3. QED BY <2>4, <3>1, <3>2
  <2>8. ASSUME NEW i \in 1 .. Len(r) PROVE r[i].node = n \/ Precedes(r[i], u[j])
    <3>1. i \in 1 .. k /\ i \in 1 .. Len(s) /\ i < x /\ r[i] = s[i] /\ s[i] \in Ad
      BY <1>4, <1>6, <2>3
    <3>2. ~PreferredPrecedes(s[x], s[i], n)
      BY <1>3, <3>1 DEF SortedBy
    <3>3. s[i].node # n => ~Precedes(u[j], s[i])
      BY <2>1, <2>6, <3>2 DEF PreferredPrecedes
    <3>4. s[i] # u[j]
      <4>1. i # x
        BY <3>1
      <4>2. QED BY <1>3, <2>1, <3>1, <4>1 DEF Distinct
    <3>5. QED BY <2>2, <3>1, <3>3, <3>4, PrecedesOrder
  <2>9. ~KeptIn(r, u[b])
    <3> SUFFICES ASSUME NEW i \in 1 .. Len(r), r[i].node = u[b].node PROVE FALSE
      BY DEF KeptIn
    <3>1. i \in 1 .. k /\ i \in 1 .. Len(s) /\ i # k + 1 /\ r[i] = s[i]
      BY <1>4, <1>6
    <3>2. s[i].node # s[k + 1].node
      BY <1>3, <2>4, <3>1 DEF Distinct
    <3>3. QED BY <2>5, <3>1, <3>2
  <2>10. Size(r) + AdSize[u[b].node] > MaxSize
    BY <1>5, <1>6, <2>4, <2>5
  <2>11. QED BY <2>6, <2>7, <2>8, <2>9, <2>10 DEF NoRoomFor
<1>11. QED BY <1>7, <1>9, <1>10

\* What a valid ad of the buckets read becomes: it is kept, or there is no room.
Survives(r, n, O, ad) ==
  KeptIn(r, ad) \/ \E b \in O : NoRoomFor(r, n, ad, b)

\* The whole update: merge, upsert and trim.
LEMMA UpdateSurvives ==
  ASSUME NEW q \in Seq(Ad), Distinct(q), NEW O \in SUBSET Ad,
         Newest({q[i] : i \in 1 .. Len(q)}, O),
         NEW local \in Ad, TrimToSize(Upsert(q, local), local.node).fits
  PROVE  \E r \in Seq(Ad) :
           /\ r = TrimToSize(Upsert(q, local), local.node).ads /\ BucketOK(r, local.node)
           /\ \A ad \in O : Survives(r, local.node, O, ad)
<1>1. PICK u \in Seq(Ad) :
        /\ u = Upsert(q, local) /\ Distinct(u)
        /\ \E j \in 1 .. Len(u) : u[j].node = local.node
        /\ \A i \in 1 .. Len(q) :
             \E j \in 1 .. Len(u) : u[j].node = q[i].node /\ ~Precedes(q[i], u[j])
        /\ \A j \in 1 .. Len(u) : u[j].node = local.node \/ \E i \in 1 .. Len(q) : u[j] = q[i]
  BY UpsertKeeps
<1>2. PICK o \in 1 .. Len(u) : u[o].node = local.node
  BY <1>1
<1>3. PICK n \in Nodes : n = local.node
  BY AdFields
<1>4. TrimToSize(u, n).fits /\ u[o].node = n
  BY <1>1, <1>2, <1>3
<1>5. PICK r \in Seq(Ad) :
        /\ r = TrimToSize(u, n).ads /\ BucketOK(r, n)
        /\ \A j \in 1 .. Len(u) :
             \/ KeptIn(r, u[j])
             \/ u[j].node # n /\ \E b \in 1 .. Len(u) : u[b].node # n /\ NoRoomFor(r, n, u[j], u[b])
  BY <1>1, <1>4, TrimKeeps
<1>6. ASSUME NEW ad \in O PROVE Survives(r, n, O, ad)
  <2>1. PICK i \in 1 .. Len(q) : q[i].node = ad.node /\ ~Precedes(ad, q[i])
    BY DEF Newest
  <2>2. PICK j \in 1 .. Len(u) : u[j].node = q[i].node /\ ~Precedes(q[i], u[j])
    BY <1>1
  <2>3. u[j] \in Ad /\ q[i] \in Ad /\ ad \in Ad
    OBVIOUS
  <2>4. u[j].node = ad.node /\ ~Precedes(ad, u[j])
    BY <2>1, <2>2, <2>3, PrecedesOrder
  <2>5. CASE KeptIn(r, u[j])
    <3>1. PICK x \in 1 .. Len(r) : r[x].node = u[j].node /\ ~Precedes(u[j], r[x])
      BY <2>5 DEF KeptIn
    <3>2. r[x] \in Ad
      OBVIOUS
    <3>3. ~Precedes(ad, r[x])
      BY <2>3, <2>4, <3>1, <3>2, PrecedesOrder
    <3>4. QED BY <2>4, <3>1, <3>3 DEF Survives, KeptIn
  <2>6. CASE u[j].node # n /\ \E b \in 1 .. Len(u) : u[b].node # n /\ NoRoomFor(r, n, u[j], u[b])
    <3>1. PICK b \in 1 .. Len(u) : u[b].node # n /\ NoRoomFor(r, n, u[j], u[b])
      BY <2>6
    <3>2. u[b] \in O /\ u[b] \in Ad
      <4>1. PICK y \in 1 .. Len(q) : u[b] = q[y]
        BY <1>1, <1>3, <3>1
      <4>2. q[y] \in O
        BY DEF Newest
      <4>3. QED BY <4>1, <4>2
    <3>3. ~KeptIn(r, u[b]) /\ Size(r) + AdSize[u[b].node] > MaxSize /\ ~Precedes(u[j], u[b])
      BY <3>1 DEF NoRoomFor
    <3>4. ~Precedes(ad, u[b])
      BY <2>3, <2>4, <3>2, <3>3, PrecedesOrder
    <3>5. ASSUME NEW x \in 1 .. Len(r) PROVE r[x].node = n \/ Precedes(r[x], ad)
      <4>1. r[x].node = n \/ Precedes(r[x], u[j])
        BY <3>1 DEF NoRoomFor
      <4>2. r[x] \in Ad
        OBVIOUS
      <4>3. QED BY <2>3, <2>4, <4>1, <4>2, PrecedesOrder
    <3>6. NoRoomFor(r, n, ad, u[b])
      BY <3>3, <3>4, <3>5 DEF NoRoomFor
    <3>7. QED BY <3>2, <3>6 DEF Survives
  <2>7. QED BY <1>5, <2>5, <2>6
<1>7. QED BY <1>1, <1>3, <1>5, <1>6


-----------------------------------------------------------------------------
(* Publishers that race.                                                   *)

\* The types of the variables.
Types ==
  now \in Nat /\ versions \in Seq(Item) /\ pub \in [Nodes -> Publisher]

\* What is stored is well formed, and sequence numbers do not go down.
VersionsOK ==
  \A v \in 1 .. Len(versions) :
    BucketOK(versions[v].ads, versions[v].by) /\ versions[v].seq <= CurrentSeq

\* Publications since the call began, and reads that missed the newest version.
Overtaken(n) == (Len(versions) - pub[n].since) + pub[n].misread

\* The stored ads that are valid at time t.
StoredValid(t) == {ad \in StoredAds : Verify(ad, t)}

\* The bucket a publisher is about to put was made of some replies, the newest of which
\* has the number that the put will compare; what it drops of them has no room.
MadeOf(n, replies) ==
  /\ pub[n].latestSeq # 0 => \E w \in replies : versions[w].seq = pub[n].latestSeq
  /\ \A w \in replies : \A i \in 1 .. Len(versions[w].ads) :
       Verify(versions[w].ads[i], pub[n].publishedAt) =>
         Survives(pub[n].ads, n, StoredValid(pub[n].publishedAt), versions[w].ads[i])

\* A publisher about to put.
PutOK(n) ==
  /\ BucketOK(pub[n].ads, n)
  /\ pub[n].latestSeq = CurrentSeq \/ Overtaken(n) >= pub[n].attempt + 1
  /\ \E replies \in SUBSET (1 .. Len(versions)) : MadeOf(n, replies)

\* A publisher in its call: every attempt so far was overtaken.
PubOK(n) ==
  /\ pub[n].since <= Len(versions)
  /\ pub[n].pc \in {"reading", "putting"} => Overtaken(n) >= pub[n].attempt
  /\ pub[n].pc = "putting" => PutOK(n)

\* The inductive invariant.
IInv == Types /\ VersionsOK /\ \A n \in Nodes : PubOK(n)

\* The newest sequence number, for a non-empty and for an empty bucket.
LEMMA CurrentIs ==
  ASSUME Types
  PROVE  /\ CurrentSeq \in Nat
         /\ versions = <<>> <=> Len(versions) = 0
         /\ versions # <<>> => /\ Len(versions) \in 1 .. Len(versions)
                               /\ CurrentSeq = versions[Len(versions)].seq
         /\ versions = <<>> => CurrentSeq = 0
<1>1. versions \in Seq(Item) /\ Len(versions) \in Nat
  BY DEF Types
<1>2. CASE versions = <<>>
  BY <1>2 DEF CurrentSeq
<1>3. CASE versions # <<>>
  <2>1. Len(versions) \in 1 .. Len(versions) /\ Len(versions) # 0
    BY <1>1, <1>3, EmptySeq
  <2>2. versions[Len(versions)] \in Item
    BY <1>1, <2>1
  <2>3. CurrentSeq = versions[Len(versions)].seq
    BY <1>3 DEF CurrentSeq, Last
  <2>4. QED BY <1>3, <2>1, <2>2, <2>3 DEF Item
<1>4. QED BY <1>2, <1>3

\* The types of a stored item.
LEMMA ItemFields ==
  ASSUME Types, NEW v \in 1 .. Len(versions)
  PROVE  /\ versions[v] \in Item /\ versions[v].seq \in Nat /\ versions[v].ads \in Seq(Ad)
         /\ versions[v].by \in Nodes
<1>1. versions[v] \in Item
  BY DEF Types
<1>2. QED BY <1>1 DEF Item

\* The types of a publisher.
LEMMA PubFields ==
  ASSUME Types, NEW n \in Nodes
  PROVE  /\ pub[n] \in Publisher /\ pub[n].publishedAt \in Nat /\ pub[n].attempt \in Nat
         /\ pub[n].ads \in Seq(Ad) /\ pub[n].latestSeq \in Nat /\ pub[n].since \in Nat
         /\ pub[n].misread \in Nat /\ pub[n].pc \in {"idle", "reading", "putting"}
<1>1. pub[n] \in Publisher
  BY DEF Types
<1>2. QED BY <1>1 DEF Publisher

\* The number that a publisher takes from the replies.
LEMMA LatestIs ==
  ASSUME Types, VersionsOK, NEW replies \in SUBSET (1 .. Len(versions))
  PROVE  /\ LatestSeq(replies) \in Nat
         /\ LatestSeq(replies) # 0 => \E w \in replies : versions[w].seq = LatestSeq(replies)
         /\ versions = <<>> \/ Len(versions) \in replies => LatestSeq(replies) = CurrentSeq
<1>1. CASE replies = {}
  BY <1>1, CurrentIs DEF LatestSeq
<1>2. CASE replies # {}
  <2> DEFINE S == {versions[i].seq : i \in replies}
  <2>1. S \in SUBSET Nat /\ S # {}
    BY <1>2, ItemFields
  <2>2. \A x \in S : x <= CurrentSeq
    BY DEF VersionsOK
  <2>3. CurrentSeq \in Nat /\ (versions = <<>> => Len(versions) = 0)
    BY CurrentIs
  <2>4. versions # <<>>
    <3>1. PICK i \in replies : i \in 1 .. Len(versions)
      BY <1>2
    <3>2. Len(versions) # 0
      BY <3>1
    <3>3. QED BY <2>3, <3>2
  <2>5. Max(S) \in S /\ \A x \in S : x <= Max(S)
    <3> HIDE DEF S
    <3>1. QED BY <2>1, <2>2, <2>3, MaxIsGreatest
  <2>6. LatestSeq(replies) = Max(S)
    BY <1>2 DEF LatestSeq
  <2>7. PICK w \in replies : versions[w].seq = Max(S)
    BY <2>5
  <2>8. ASSUME Len(versions) \in replies PROVE Max(S) = CurrentSeq
    <3>1. CurrentSeq \in S
      BY <2>4, <2>8, CurrentIs
    <3>2. CurrentSeq <= Max(S) /\ Max(S) <= CurrentSeq /\ Max(S) \in Nat
      BY <2>1, <2>2, <2>5, <3>1
    <3>3. QED BY <2>3, <3>2
  <2>9. Max(S) \in Nat
    BY <2>1, <2>5
  <2>10. QED BY <2>4, <2>6, <2>7, <2>8, <2>9
<1>3. QED BY <1>1, <1>2

\* What the replies offer.
RepliesOffer(replies, t) ==
  {ad \in UNION {ToSet(versions[w].ads) : w \in replies} : Verify(ad, t)}

LEMMA BucketsOffer ==
  ASSUME Types, NEW replies \in SUBSET (1 .. Len(versions)), NEW t
  PROVE  /\ Buckets(replies) \in Seq(Seq(Ad))
         /\ Offered(Buckets(replies), Len(Buckets(replies)), t) = RepliesOffer(replies, t)
<1>1. PICK B : B = Buckets(replies)
  OBVIOUS
<1>2. DOMAIN versions = 1 .. Len(versions) /\ Len(versions) \in Nat
  BY DEF Types
<1>3. B = [i \in 1 .. Len(versions) |-> IF i \in replies THEN versions[i].ads ELSE <<>>]
  BY <1>1, <1>2 DEF Buckets
<1>4. B \in [1 .. Len(versions) -> Seq(Ad)]
  <2>1. <<>> \in Seq(Ad)
    OBVIOUS
  <2>2. \A i \in 1 .. Len(versions) : versions[i].ads \in Seq(Ad)
    BY ItemFields
  <2>3. QED BY <1>3, <2>1, <2>2
<1>5. B \in Seq(Seq(Ad)) /\ Len(B) = Len(versions)
  BY <1>2, <1>4, SeqDef
<1>6. ASSUME NEW ad, ad \in Offered(B, Len(B), t) PROVE ad \in RepliesOffer(replies, t)
  <2>1. PICK k \in 1 .. Len(versions) : ad \in ValidIn(B[k], Len(B[k]), t)
    BY <1>5, <1>6 DEF Offered
  <2>2. PICK i \in 1 .. Len(B[k]) : ad = B[k][i] /\ Verify(ad, t)
    BY <2>1 DEF ValidIn
  <2>3. k \in replies
    <3>1. k \notin replies => B[k] = <<>> /\ Len(<<>>) = 0
      BY <1>3
    <3>2. QED BY <2>2, <3>1
  <2>4. B[k] = versions[k].ads /\ versions[k].ads \in Seq(Ad)
    BY <1>3, <2>3, ItemFields
  <2>5. ad \in ToSet(versions[k].ads)
    BY <2>2, <2>4 DEF ToSet
  <2>6. QED BY <2>2, <2>3, <2>5 DEF RepliesOffer
<1>7. ASSUME NEW ad, ad \in RepliesOffer(replies, t) PROVE ad \in Offered(B, Len(B), t)
  <2>1. PICK k \in replies : ad \in ToSet(versions[k].ads) /\ Verify(ad, t)
    BY <1>7 DEF RepliesOffer
  <2>2. B[k] = versions[k].ads /\ versions[k].ads \in Seq(Ad)
    BY <1>3, <2>1, ItemFields
  <2>3. PICK i \in 1 .. Len(B[k]) : ad = B[k][i]
    BY <2>1, <2>2 DEF ToSet
  <2>4. ad \in ValidIn(B[k], Len(B[k]), t)
    BY <2>1, <2>3 DEF ValidIn
  <2>5. QED BY <1>5, <2>4 DEF Offered
<1>8. Offered(B, Len(B), t) = RepliesOffer(replies, t)
  BY <1>6, <1>7
<1>9. QED BY <1>1, <1>5, <1>8

\* What survives does so with more ads that there may be no room for.
LEMMA SurvivesMore ==
  ASSUME NEW r, NEW n, NEW O, NEW P, O \subseteq P, NEW ad, Survives(r, n, O, ad)
  PROVE  Survives(r, n, P, ad)
BY DEF Survives

\* What a read makes of the replies: a bucket as it should be, in which every valid ad of
\* the replies is kept or has no room.
LEMMA ReadSound ==
  ASSUME Types, NEW n \in Nodes, NEW replies \in SUBSET (1 .. Len(versions)),
         Updated(n, replies).fits
  PROVE  \E r \in Seq(Ad) :
           /\ r = Updated(n, replies).ads /\ BucketOK(r, n)
           /\ \A w \in replies : \A i \in 1 .. Len(versions[w].ads) :
                Verify(versions[w].ads[i], pub[n].publishedAt) =>
                  Survives(r, n, StoredValid(pub[n].publishedAt), versions[w].ads[i])
<1>1. PICK t \in Nat : t = pub[n].publishedAt
  BY PubFields
<1>2. PICK B : B = Buckets(replies)
  OBVIOUS
<1>3. PICK O : O = RepliesOffer(replies, t)
  OBVIOUS
<1>4. B \in Seq(Seq(Ad)) /\ Offered(B, Len(B), t) = O
  BY <1>2, <1>3, BucketsOffer
<1>5. PICK q \in Seq(Ad) :
        /\ q = MergeValid(B, t) /\ Distinct(q) /\ SortedBy(q, NoNode)
        /\ Newest({q[i] : i \in 1 .. Len(q)}, Offered(B, Len(B), t))
  BY <1>4, MergeValidNewest
<1>6. O \in SUBSET Ad
  <2> SUFFICES ASSUME NEW ad \in O PROVE ad \in Ad
    OBVIOUS
  <2>1. PICK w \in replies : ad \in ToSet(versions[w].ads)
    BY <1>3 DEF RepliesOffer
  <2>2. versions[w].ads \in Seq(Ad)
    BY ItemFields
  <2>3. QED BY <2>1, <2>2 DEF ToSet
<1>7. PICK local \in Ad : local = LocalAd(n) /\ local.node = n
  <2>1. LocalAd(n) \in Ad /\ LocalAd(n).node = n
    BY <1>1, ShardAssumption DEF LocalAd, Ad
  <2>2. QED BY <2>1
<1>8. Updated(n, replies) = TrimToSize(Upsert(q, local), local.node)
  BY <1>1, <1>2, <1>5, <1>7 DEF Updated, ReadShardState
<1>9. PICK r \in Seq(Ad) :
        /\ r = TrimToSize(Upsert(q, local), local.node).ads /\ BucketOK(r, local.node)
        /\ \A ad \in O : Survives(r, local.node, O, ad)
  BY <1>4, <1>5, <1>6, <1>8, UpdateSurvives
<1>10. O \subseteq StoredValid(t)
  <2>1. DOMAIN versions = 1 .. Len(versions)
    BY DEF Types
  <2>2. QED BY <1>3, <2>1 DEF RepliesOffer, StoredValid, StoredAds
<1>11. ASSUME NEW w \in replies, NEW i \in 1 .. Len(versions[w].ads), Verify(versions[w].ads[i], t)
       PROVE  Survives(r, n, StoredValid(t), versions[w].ads[i])
  <2>1. versions[w].ads \in Seq(Ad)
    BY ItemFields
  <2>2. versions[w].ads[i] \in O
    BY <1>3, <1>11, <2>1 DEF RepliesOffer, ToSet
  <2>3. QED BY <1>7, <1>9, <1>10, <2>2, SurvivesMore
<1>12. QED BY <1>1, <1>7, <1>8, <1>9, <1>11

-----------------------------------------------------------------------------
(* Storing a version and what it does to the others.                       *)

\* A publisher that does nothing is not disturbed while nothing is stored.
LEMMA PubStays ==
  ASSUME NEW m \in Nodes, PubOK(m), versions' = versions, pub'[m] = pub[m]
  PROVE  PubOK(m)'
<1>1. CurrentSeq' = CurrentSeq
  BY DEF CurrentSeq
<1>2. Overtaken(m)' = Overtaken(m)
  BY DEF Overtaken
<1>3. \A t : StoredValid(t)' = StoredValid(t)
  BY DEF StoredValid, StoredAds
<1>4. \A replies : MadeOf(m, replies) => MadeOf(m, replies)'
  BY <1>3 DEF MadeOf
<1>5. PutOK(m) => PutOK(m)'
  BY <1>1, <1>2, <1>4 DEF PutOK
<1>6. QED BY <1>2, <1>5 DEF PubOK

\* What storing an item leaves alone.
LEMMA AppendFacts ==
  ASSUME Types, NEW item \in Item, versions' = Append(versions, item)
  PROVE  /\ Len(versions)' = Len(versions) + 1 /\ Len(versions) \in Nat
         /\ versions' \in Seq(Item) /\ versions' # versions /\ versions' # <<>>
         /\ CurrentSeq' = item.seq
         /\ versions'[Len(versions) + 1] = item /\ Last(versions') = item
         /\ \A w \in 1 .. Len(versions) : versions'[w] = versions[w]
         /\ \A t : StoredValid(t) \subseteq StoredValid(t)'
<1>1. versions \in Seq(Item) /\ Len(versions) \in Nat
  BY DEF Types
<1>2. PICK W : W = versions'
  OBVIOUS
<1>3. /\ W \in Seq(Item) /\ Len(W) = Len(versions) + 1 /\ W[Len(versions) + 1] = item
      /\ \A w \in 1 .. Len(versions) : W[w] = versions[w]
  BY <1>1, <1>2
<1>4. W # versions /\ W # <<>>
  BY <1>1, <1>3, EmptySeq
<1>5. Last(W) = item
  BY <1>3 DEF Last
<1>6. CurrentSeq' = item.seq
  BY <1>2, <1>4, <1>5 DEF CurrentSeq
<1>7. ASSUME NEW ad \in StoredAds PROVE ad \in StoredAds'
  <2>1. PICK v \in 1 .. Len(versions) : ad \in ToSet(versions[v].ads)
    BY <1>1 DEF StoredAds
  <2>2. v \in DOMAIN W /\ W[v] = versions[v]
    BY <1>1, <1>3
  <2>3. QED BY <1>2, <2>1, <2>2 DEF StoredAds
<1>8. \A t : StoredValid(t) \subseteq StoredValid(t)'
  BY <1>7 DEF StoredValid
<1>9. QED BY <1>1, <1>2, <1>3, <1>4, <1>5, <1>6, <1>8

\* A publisher in its call is overtaken by what is stored meanwhile.
LEMMA PubOvertaken ==
  ASSUME Types, NEW m \in Nodes, PubOK(m), NEW item \in Item,
         versions' = Append(versions, item), pub'[m] = pub[m]
  PROVE  PubOK(m)'
<1>1. /\ Len(versions)' = Len(versions) + 1 /\ Len(versions) \in Nat
      /\ \A w \in 1 .. Len(versions) : versions'[w] = versions[w]
      /\ \A t : StoredValid(t) \subseteq StoredValid(t)'
  BY AppendFacts
<1>2. /\ pub[m].attempt \in Nat /\ pub[m].since \in Nat /\ pub[m].misread \in Nat
  BY PubFields
<1>3. Overtaken(m)' = Overtaken(m) + 1 /\ Overtaken(m) \in Int
  <2>1. Overtaken(m) = (Len(versions) - pub[m].since) + pub[m].misread
    BY DEF Overtaken
  <2>2. Overtaken(m)' = (Len(versions)' - pub[m].since) + pub[m].misread
    BY DEF Overtaken
  <2>3. PICK L \in Nat, s \in Nat, x \in Nat :
          L = Len(versions) /\ s = pub[m].since /\ x = pub[m].misread
    BY <1>1, <1>2
  <2>4. Overtaken(m) = (L - s) + x /\ Overtaken(m)' = ((L + 1) - s) + x
    BY <1>1, <2>1, <2>2, <2>3
  <2>5. QED BY <2>4
<1>4. ASSUME pub[m].pc = "putting" PROVE PutOK(m)'
  <2>1. BucketOK(pub[m].ads, m)' /\ Overtaken(m) >= pub[m].attempt
    BY <1>4 DEF PubOK, PutOK, BucketOK, Distinct
  <2>2. Overtaken(m)' >= pub'[m].attempt + 1
    BY <1>2, <1>3, <2>1
  <2>3. PICK replies \in SUBSET (1 .. Len(versions)) : MadeOf(m, replies)
    BY <1>4 DEF PubOK, PutOK
  <2>4. replies \in SUBSET (1 .. Len(versions)')
    <3>1. \A w \in 1 .. Len(versions) : w \in 1 .. Len(versions) + 1
      BY <1>1
    <3>2. QED BY <1>1, <3>1
  <2>5. MadeOf(m, replies)'
    <3>1. pub'[m].latestSeq # 0 => \E w \in replies : versions'[w].seq = pub'[m].latestSeq
      BY <1>1, <2>3 DEF MadeOf
    <3>2. ASSUME NEW w \in replies, NEW i \in 1 .. Len(versions'[w].ads),
                 Verify(versions'[w].ads[i], pub'[m].publishedAt)
          PROVE  Survives(pub'[m].ads, m, StoredValid(pub[m].publishedAt)', versions'[w].ads[i])
      <4>1. versions'[w] = versions[w]
        BY <1>1
      <4>2. Survives(pub[m].ads, m, StoredValid(pub[m].publishedAt), versions[w].ads[i])
        BY <2>3, <3>2, <4>1 DEF MadeOf
      <4>3. QED BY <1>1, <4>1, <4>2, SurvivesMore
    <3>3. QED BY <3>1, <3>2 DEF MadeOf
  <2>6. QED BY <2>1, <2>2, <2>4, <2>5 DEF PutOK
<1>5. pub[m].since <= Len(versions)
  BY DEF PubOK
<1>6. pub[m].pc \in {"reading", "putting"} => Overtaken(m) >= pub[m].attempt
  BY DEF PubOK
<1>7. pub'[m].since <= Len(versions)'
  BY <1>1, <1>2, <1>5
<1>8. pub'[m].pc \in {"reading", "putting"} => Overtaken(m)' >= pub'[m].attempt
  BY <1>2, <1>3, <1>6
<1>9. QED BY <1>4, <1>7, <1>8 DEF PubOK

\* Between two calls there is nothing to say.
LEMMA IdleOK ==
  ASSUME NEW n \in Nodes, pub'[n] = Idle, Len(versions)' \in Nat
  PROVE  PubOK(n)' /\ pub'[n] \in Publisher
<1>1. Idle.pc = "idle" /\ Idle.since = 0
  BY DEF Idle
<1>2. Idle \in Publisher
  <2>1. <<>> \in Seq(Ad)
    OBVIOUS
  <2>2. QED BY <2>1 DEF Idle, Publisher
<1>3. QED BY <1>1, <1>2 DEF PubOK

\* What a step of one publisher that stores nothing has to preserve.
LEMMA OnePublisher ==
  ASSUME IInv, NEW n \in Nodes, NEW p \in Publisher,
         pub' = [pub EXCEPT ![n] = p], UNCHANGED <<now, versions>>,
         pub'[n] = p => PubOK(n)'
  PROVE  IInv'
<1>1. Types /\ VersionsOK /\ \A m \in Nodes : PubOK(m)
  BY DEF IInv
<1>2. pub \in [Nodes -> Publisher] /\ now' = now /\ versions' = versions
  BY <1>1 DEF Types
<1>3. pub' \in [Nodes -> Publisher] /\ pub'[n] = p /\ \A m \in Nodes : m # n => pub'[m] = pub[m]
  BY <1>2
<1>4. Types'
  BY <1>1, <1>2, <1>3 DEF Types
<1>5. CurrentSeq' = CurrentSeq
  BY <1>2 DEF CurrentSeq
<1>6. VersionsOK'
  BY <1>1, <1>2, <1>5 DEF VersionsOK
<1>7. ASSUME NEW m \in Nodes PROVE PubOK(m)'
  BY <1>1, <1>2, <1>3, PubStays
<1>8. QED BY <1>4, <1>6, <1>7 DEF IInv

-----------------------------------------------------------------------------
(* The steps.                                                              *)

LEMMA InitIInv ==
  ASSUME Init PROVE IInv
<1>1. now = 0 /\ versions = <<>> /\ pub = [n \in Nodes |-> Idle]
  BY DEF Init
<1>2. versions \in Seq(Item) /\ Len(versions) = 0
  BY <1>1
<1>3. Idle \in Publisher /\ Idle.pc = "idle" /\ Idle.since = 0
  <2>1. <<>> \in Seq(Ad)
    OBVIOUS
  <2>2. QED BY <2>1 DEF Idle, Publisher
<1>4. pub \in [Nodes -> Publisher] /\ \A n \in Nodes : pub[n] = Idle
  BY <1>1, <1>3
<1>5. Types
  BY <1>1, <1>2, <1>4 DEF Types
<1>6. VersionsOK
  BY <1>2 DEF VersionsOK
<1>7. ASSUME NEW n \in Nodes PROVE PubOK(n)
  BY <1>2, <1>3, <1>4 DEF PubOK
<1>8. QED BY <1>5, <1>6, <1>7 DEF IInv

LEMMA TickStep ==
  ASSUME IInv, Tick PROVE IInv'
<1>1. Types /\ VersionsOK /\ \A m \in Nodes : PubOK(m)
  BY DEF IInv
<1>2. now' = now + 1 /\ versions' = versions /\ pub' = pub
  BY DEF Tick
<1>3. Types'
  BY <1>1, <1>2 DEF Types
<1>4. VersionsOK'
  BY <1>1, <1>2 DEF VersionsOK, CurrentSeq
<1>5. ASSUME NEW m \in Nodes PROVE PubOK(m)'
  BY <1>1, <1>2, PubStays
<1>6. QED BY <1>3, <1>4, <1>5 DEF IInv

\* A call begins.
LEMMA BeginStep ==
  ASSUME IInv, NEW n \in Nodes, Begin(n) PROVE IInv'
<1>1. Types
  BY DEF IInv
<1>2. PICK p : p = [Idle EXCEPT !.pc = "reading", !.publishedAt = Clock(n), !.since = Len(versions)]
  OBVIOUS
<1>3. pub' = [pub EXCEPT ![n] = p] /\ UNCHANGED <<now, versions>>
  BY <1>2 DEF Begin
<1>4. Clock(n) \in Nat /\ Len(versions) \in Nat
  BY <1>1, ShardAssumption DEF Clock, Types
<1>5. /\ p = [pc |-> "reading", publishedAt |-> Clock(n), attempt |-> 0, ads |-> <<>>, latestSeq |-> 0,
              since |-> Len(versions), misread |-> 0]
  BY <1>2 DEF Idle
<1>6. p \in Publisher
  <2>1. <<>> \in Seq(Ad)
    OBVIOUS
  <2>2. QED BY <1>4, <1>5, <2>1 DEF Publisher
<1>7. p.pc = "reading" /\ p.since = Len(versions) /\ p.misread = 0 /\ p.attempt = 0
  BY <1>5
<1>8. ASSUME pub'[n] = p PROVE PubOK(n)'
  <2>1. Len(versions)' = Len(versions)
    BY <1>3
  <2>2. Overtaken(n)' = 0
    BY <1>4, <1>7, <1>8, <2>1 DEF Overtaken
  <2>3. QED BY <1>4, <1>7, <1>8, <2>1, <2>2 DEF PubOK
<1>9. QED BY <1>3, <1>6, <1>8, OnePublisher

\* A read: either it saw the newest version, or it counts as a miss.
LEMMA ReadStep ==
  ASSUME IInv, NEW n \in Nodes, NEW replies \in SUBSET (1 .. Len(versions)), Read(n, replies)
  PROVE  IInv'
<1>1. Types /\ VersionsOK /\ PubOK(n)
  BY DEF IInv
<1>2. PICK missed \in {0, 1} :
        /\ missed = IF versions = <<>> \/ Len(versions) \in replies THEN 0 ELSE 1
        /\ missed = 0 => versions = <<>> \/ Len(versions) \in replies
  OBVIOUS
<1>3. PICK r \in Seq(Ad) :
        /\ r = Updated(n, replies).ads /\ BucketOK(r, n)
        /\ \A w \in replies : \A i \in 1 .. Len(versions[w].ads) :
             Verify(versions[w].ads[i], pub[n].publishedAt) =>
               Survives(r, n, StoredValid(pub[n].publishedAt), versions[w].ads[i])
  BY <1>1, ReadSound DEF Read
<1>4. PICK q \in Nat : q = LatestSeq(replies)
  BY <1>1, LatestIs
<1>5. PICK p : p = [pub[n] EXCEPT !.pc = "putting", !.ads = r, !.latestSeq = q,
                                  !.misread = pub[n].misread + missed]
  OBVIOUS
<1>6. pub' = [pub EXCEPT ![n] = p] /\ UNCHANGED <<now, versions>> /\ pub[n].pc = "reading"
  BY <1>2, <1>3, <1>4, <1>5 DEF Read
<1>7. /\ pub[n] \in Publisher /\ pub[n].publishedAt \in Nat /\ pub[n].attempt \in Nat
      /\ pub[n].since \in Nat /\ pub[n].misread \in Nat
  BY <1>1, PubFields
<1>8. /\ p \in Publisher /\ p.pc = "putting" /\ p.ads = r /\ p.latestSeq = q
      /\ p.misread = pub[n].misread + missed /\ p.since = pub[n].since
      /\ p.attempt = pub[n].attempt /\ p.publishedAt = pub[n].publishedAt
  <2>1. PICK z \in Publisher, x \in Nat : z = pub[n] /\ x = pub[n].misread + missed
    BY <1>7
  <2>2. p = [z EXCEPT !.pc = "putting", !.ads = r, !.latestSeq = q, !.misread = x]
    BY <1>5, <2>1
  <2>3. p \in Publisher
    BY <1>3, <1>4, <2>1, <2>2 DEF Publisher
  <2>4. /\ p.pc = "putting" /\ p.ads = r /\ p.latestSeq = q /\ p.misread = x
        /\ p.since = z.since /\ p.attempt = z.attempt /\ p.publishedAt = z.publishedAt
    BY <2>1, <2>2 DEF Publisher
  <2>5. QED BY <2>1, <2>3, <2>4
<1>9. ASSUME pub'[n] = p PROVE PubOK(n)'
  <2>1. versions' = versions /\ Len(versions) \in Nat /\ Len(versions)' = Len(versions)
    BY <1>1, <1>6 DEF Types
  <2>2. pub[n].since <= Len(versions) /\ Overtaken(n) >= pub[n].attempt
    BY <1>1, <1>6 DEF PubOK
  <2>3. Overtaken(n)' = Overtaken(n) + missed /\ Overtaken(n) \in Int
    <3>1. Overtaken(n) = (Len(versions) - pub[n].since) + pub[n].misread
      BY DEF Overtaken
    <3>2. Overtaken(n)' = (Len(versions) - pub[n].since) + (pub[n].misread + missed)
      BY <1>8, <1>9, <2>1 DEF Overtaken
    <3>3. QED BY <1>7, <2>1, <3>1, <3>2
  <2>4. CurrentSeq' = CurrentSeq
    BY <2>1 DEF CurrentSeq
  <2>5. q = CurrentSeq \/ Overtaken(n)' >= pub[n].attempt + 1
    <3>1. CASE missed = 0
      BY <1>1, <1>2, <1>4, <3>1, LatestIs
    <3>2. CASE missed = 1
      BY <1>7, <2>2, <2>3, <3>2
    <3>3. QED BY <3>1, <3>2
  <2>6. Overtaken(n)' >= pub[n].attempt
    BY <1>7, <2>2, <2>3
  <2>7. MadeOf(n, replies)'
    <3>1. q # 0 => \E w \in replies : versions[w].seq = q
      BY <1>1, <1>4, LatestIs
    <3>2. \A t : StoredValid(t)' = StoredValid(t)
      BY <2>1 DEF StoredValid, StoredAds
    <3>3. QED BY <1>3, <1>8, <1>9, <2>1, <3>1, <3>2 DEF MadeOf
  <2>8. BucketOK(pub'[n].ads, n)
    BY <1>3, <1>8, <1>9
  <2>9. PutOK(n)'
    BY <1>8, <1>9, <2>1, <2>4, <2>5, <2>7, <2>8 DEF PutOK
  <2>10. QED BY <1>8, <1>9, <2>1, <2>2, <2>6, <2>9 DEF PubOK
<1>10. QED BY <1>6, <1>8, <1>9, OnePublisher

\* A call ends and nothing is stored.
LEMMA EndStep ==
  ASSUME IInv, NEW n \in Nodes, pub' = [pub EXCEPT ![n] = Idle], UNCHANGED <<now, versions>>
  PROVE  IInv'
<1>1. Len(versions)' \in Nat
  BY DEF IInv, Types
<1>2. Idle \in Publisher
  <2>1. <<>> \in Seq(Ad)
    OBVIOUS
  <2>2. QED BY <2>1 DEF Idle, Publisher
<1>3. ASSUME pub'[n] = Idle PROVE PubOK(n)'
  BY <1>1, <1>3, IdleOK
<1>4. PICK p : p = Idle
  OBVIOUS
<1>5. QED BY <1>2, <1>3, <1>4, OnePublisher

\* A refused put has not seen the newest version any more: the attempt was overtaken.
LEMMA RefusedMeansOvertaken ==
  ASSUME Types, NEW n \in Nodes, PubOK(n), pub[n].pc = "putting", MayRefuse(NewItem(n))
  PROVE  Overtaken(n) >= pub[n].attempt + 1
<1>1. PICK s \in Nat, c \in Nat : s = pub[n].latestSeq /\ c = CurrentSeq
  BY PubFields, CurrentIs
<1>2. NewItem(n).seq = s + 1 /\ NewItem(n).cas = s
  BY <1>1 DEF NewItem
<1>3. c >= s + 1 \/ (s # 0 /\ c # s)
  BY <1>1, <1>2 DEF MayRefuse
<1>4. s # c
  BY <1>3
<1>5. QED BY <1>1, <1>4 DEF PubOK, PutOK

\* Another attempt.
LEMMA RetryStep ==
  ASSUME IInv, NEW n \in Nodes, Retry(n) PROVE IInv'
<1>1. Types /\ PubOK(n)
  BY DEF IInv
<1>2. PICK p : p = [pub[n] EXCEPT !.pc = "reading", !.attempt = pub[n].attempt + 1,
                                  !.ads = <<>>, !.latestSeq = 0]
  OBVIOUS
<1>3. /\ pub' = [pub EXCEPT ![n] = p] /\ UNCHANGED <<now, versions>>
      /\ pub[n].pc = "putting" /\ MayRefuse(NewItem(n))
  BY <1>2 DEF Retry
<1>4. pub[n] \in Publisher /\ pub[n].attempt \in Nat
  BY <1>1, PubFields
<1>5. /\ p \in Publisher /\ p.pc = "reading" /\ p.attempt = pub[n].attempt + 1
      /\ p.since = pub[n].since /\ p.misread = pub[n].misread
  <2>0. PICK e \in Seq(Ad) : e = <<>>
    <3>1. <<>> \in Seq(Ad)
      OBVIOUS
    <3>2. QED BY <3>1, Zenon
  <2>1. PICK z \in Publisher, x \in Nat : z = pub[n] /\ x = pub[n].attempt + 1
    BY <1>4
  <2>2. p = [z EXCEPT !.pc = "reading", !.attempt = x, !.ads = e, !.latestSeq = 0]
    BY <1>2, <2>0, <2>1
  <2>3. p \in Publisher
    BY <2>1, <2>2 DEF Publisher
  <2>4. p.pc = "reading" /\ p.attempt = x /\ p.since = z.since /\ p.misread = z.misread
    BY <2>1, <2>2 DEF Publisher
  <2>5. QED BY <2>1, <2>3, <2>4
<1>6. Overtaken(n) >= pub[n].attempt + 1
  BY <1>1, <1>3, RefusedMeansOvertaken
<1>7. ASSUME pub'[n] = p PROVE PubOK(n)'
  <2>1. Overtaken(n)' = Overtaken(n) /\ Len(versions)' = Len(versions)
    BY <1>3, <1>5, <1>7 DEF Overtaken
  <2>2. pub[n].since <= Len(versions)
    BY <1>1 DEF PubOK
  <2>3. QED BY <1>5, <1>6, <1>7, <2>1, <2>2 DEF PubOK
<1>8. QED BY <1>3, <1>5, <1>7, OnePublisher

\* What a put stores.
LEMMA StoredItem ==
  ASSUME IInv, NEW n \in Nodes, Stored(n)
  PROVE  \E item \in Item :
           /\ item = NewItem(n) /\ versions' = Append(versions, item)
           /\ item.ads = pub[n].ads /\ item.by = n
           /\ item.seq = pub[n].latestSeq + 1 /\ item.cas = pub[n].latestSeq
           /\ item.cas # 0 => CurrentSeq = item.cas
           /\ item.seq >= CurrentSeq /\ PutOK(n)
<1>1. Types /\ PubOK(n)
  BY DEF IInv
<1>2. pub[n].ads \in Seq(Ad) /\ pub[n].latestSeq \in Nat
  BY <1>1, PubFields
<1>3. PICK item : item = NewItem(n)
  OBVIOUS
<1>4. /\ item \in Item /\ item.ads = pub[n].ads /\ item.by = n
      /\ item.seq = pub[n].latestSeq + 1 /\ item.cas = pub[n].latestSeq
  BY <1>2, <1>3 DEF NewItem, Item
<1>5. versions' = Append(versions, item) /\ MayStore(item) /\ pub[n].pc = "putting"
  BY <1>3 DEF Stored
<1>6. QED BY <1>1, <1>3, <1>4, <1>5 DEF MayStore, PubOK

LEMMA StoredStep ==
  ASSUME IInv, NEW n \in Nodes, Stored(n) PROVE IInv'
<1>1. Types /\ VersionsOK /\ \A m \in Nodes : PubOK(m)
  BY DEF IInv
<1>2. PICK item \in Item :
        /\ versions' = Append(versions, item) /\ item.ads = pub[n].ads /\ item.by = n
        /\ item.seq >= CurrentSeq /\ PutOK(n)
  BY StoredItem
<1>3. /\ Len(versions)' = Len(versions) + 1 /\ Len(versions) \in Nat
      /\ versions' \in Seq(Item) /\ CurrentSeq' = item.seq
      /\ versions'[Len(versions) + 1] = item
      /\ \A w \in 1 .. Len(versions) : versions'[w] = versions[w]
  BY <1>1, <1>2, AppendFacts
<1>4. pub' = [pub EXCEPT ![n] = Idle] /\ now' = now
  BY DEF Stored
<1>5. pub \in [Nodes -> Publisher] /\ now \in Nat
  BY <1>1 DEF Types
<1>6. pub'[n] = Idle /\ \A m \in Nodes : m # n => pub'[m] = pub[m]
  BY <1>4, <1>5
<1>7. PubOK(n)' /\ pub'[n] \in Publisher
  BY <1>3, <1>6, IdleOK
<1>8. pub' \in [Nodes -> Publisher]
  BY <1>4, <1>5, <1>6, <1>7
<1>9. Types'
  BY <1>3, <1>4, <1>5, <1>8 DEF Types
<1>10. ASSUME NEW v \in 1 .. Len(versions)'
       PROVE  BucketOK(versions'[v].ads, versions'[v].by) /\ versions'[v].seq <= CurrentSeq'
  <2>1. CurrentSeq \in Nat /\ item.seq \in Nat
    BY <1>1, CurrentIs DEF Item
  <2>2. v \in 1 .. Len(versions) \/ v = Len(versions) + 1
    BY <1>3
  <2>3. CASE v \in 1 .. Len(versions)
    <3>1. versions'[v] = versions[v] /\ versions[v].seq \in Nat
      BY <1>1, <1>3, <2>3, ItemFields
    <3>2. BucketOK(versions[v].ads, versions[v].by) /\ versions[v].seq <= CurrentSeq
      BY <1>1, <2>3 DEF VersionsOK
    <3>3. QED BY <1>2, <1>3, <2>1, <3>1, <3>2
  <2>4. CASE v = Len(versions) + 1
    <3>1. BucketOK(pub[n].ads, n)
      BY <1>2 DEF PutOK
    <3>2. versions'[v] = item /\ item.seq <= CurrentSeq'
      BY <1>3, <2>1, <2>4
    <3>3. QED BY <1>2, <3>1, <3>2
  <2>5. QED BY <2>2, <2>3, <2>4
<1>11. VersionsOK'
  BY <1>10 DEF VersionsOK
<1>12. ASSUME NEW m \in Nodes PROVE PubOK(m)'
  BY <1>1, <1>2, <1>6, <1>7, PubOvertaken
<1>13. QED BY <1>9, <1>11, <1>12 DEF IInv

\* Every step preserves the invariant.
LEMMA StepIInv ==
  ASSUME IInv, [Next]_vars PROVE IInv'
<1>1. CASE Tick
  BY <1>1, TickStep
<1>2. ASSUME NEW n \in Nodes, PublishStep(n) PROVE IInv'
  <2>1. CASE Begin(n)
    BY <2>1, BeginStep
  <2>2. CASE Stored(n)
    BY <2>2, StoredStep
  <2>3. CASE QueryFails(n)
    BY <2>3, EndStep DEF QueryFails
  <2>4. CASE Retry(n)
    BY <2>4, RetryStep
  <2>5. CASE GiveUp(n)
    BY <2>5, EndStep DEF GiveUp
  <2>6. ASSUME NEW replies \in SUBSET DOMAIN versions, Read(n, replies) \/ TooLarge(n, replies)
        PROVE  IInv'
    <3>1. replies \in SUBSET (1 .. Len(versions))
      BY DEF IInv, Types
    <3>2. CASE Read(n, replies)
      BY <3>1, <3>2, ReadStep
    <3>3. CASE TooLarge(n, replies)
      BY <3>3, EndStep DEF TooLarge
    <3>4. QED BY <2>6, <3>2, <3>3
  <2>7. QED BY <1>2, <2>1, <2>2, <2>3, <2>4, <2>5, <2>6 DEF PublishStep
<1>3. CASE UNCHANGED vars
  <2>1. now' = now /\ versions' = versions /\ pub' = pub
    BY <1>3 DEF vars
  <2>2. Types' /\ VersionsOK'
    BY <2>1 DEF IInv, Types, VersionsOK, CurrentSeq
  <2>3. ASSUME NEW m \in Nodes PROVE PubOK(m)'
    BY <2>1, PubStays DEF IInv
  <2>4. QED BY <2>2, <2>3 DEF IInv
<1>4. QED BY <1>1, <1>2, <1>3 DEF Next

LEMMA InvariantIInv == Spec => []IInv
<1>1. Init => IInv
  BY InitIInv
<1>2. IInv /\ [Next]_vars => IInv'
  BY StepIInv
<1>3. QED BY <1>1, <1>2, PTL DEF Spec

-----------------------------------------------------------------------------
(* The theorems.                                                           *)

\* trim_to_size and upsert never cost a publisher its own place: whatever is stored fits,
\* has one ad of each node, and its publisher's first.
THEOREM BucketsAreWellFormed == Spec => []BucketsWellFormed
<1>1. ASSUME IInv PROVE BucketsWellFormed
  <2>1. Types /\ VersionsOK
    BY <1>1 DEF IInv
  <2>2. DOMAIN versions = 1 .. Len(versions)
    BY <2>1 DEF Types
  <2> SUFFICES ASSUME NEW v \in 1 .. Len(versions)
               PROVE  /\ Size(versions[v].ads) <= MaxSize
                      /\ \A i, j \in DOMAIN versions[v].ads :
                           versions[v].ads[i].node = versions[v].ads[j].node => i = j
                      /\ versions[v].ads # <<>> /\ versions[v].ads[1].node = versions[v].by
    BY <2>2 DEF BucketsWellFormed
  <2>3. PICK r \in Seq(Ad) : r = versions[v].ads /\ BucketOK(r, versions[v].by)
    BY <2>1, ItemFields DEF VersionsOK
  <2>4. DOMAIN r = 1 .. Len(r) /\ r # <<>>
    BY <2>3 DEF BucketOK
  <2>5. QED BY <2>3, <2>4 DEF BucketOK, Distinct
<1>2. QED BY <1>1, InvariantIInv, PTL

\* query_shard returns the newest valid ad of every node in the replies, and nothing else,
\* newer ones first, whichever versions the DHT's nodes answer with and whenever.
THEOREM ResolvesNewest == Spec => []ResolveIsNewest
<1>1. ASSUME IInv PROVE ResolveIsNewest
  <2>1. Types
    BY <1>1 DEF IInv
  <2> SUFFICES ASSUME NEW replies \in SUBSET DOMAIN versions, NEW time
               PROVE  /\ ToSet(QueryShard(replies, time)) =
                           {ad \in RepliesOffer(replies, time) :
                              \A b \in RepliesOffer(replies, time) :
                                b.node = ad.node => ~Precedes(b, ad)}
                      /\ \A i, j \in DOMAIN QueryShard(replies, time) :
                           i < j => Precedes(QueryShard(replies, time)[i], QueryShard(replies, time)[j])
    BY DEF ResolveIsNewest, RepliesOffer
  <2>2. replies \in SUBSET (1 .. Len(versions))
    BY <2>1 DEF Types
  <2>3. PICK B : B = Buckets(replies)
    OBVIOUS
  <2>4. PICK O : O = RepliesOffer(replies, time)
    OBVIOUS
  <2>5. B \in Seq(Seq(Ad)) /\ Offered(B, Len(B), time) = O
    BY <2>1, <2>2, <2>3, <2>4, BucketsOffer
  <2>6. PICK q \in Seq(Ad) :
          /\ q = MergeValid(B, time) /\ Distinct(q) /\ SortedBy(q, NoNode)
          /\ Newest({q[i] : i \in 1 .. Len(q)}, Offered(B, Len(B), time))
    BY <2>5, MergeValidNewest
  <2>7. PICK S : S = {q[i] : i \in 1 .. Len(q)}
    OBVIOUS
  <2>8. q = QueryShard(replies, time)
    BY <2>3, <2>6 DEF QueryShard
  <2>9. DOMAIN q = 1 .. Len(q) /\ \A i \in 1 .. Len(q) : q[i] \in Ad
    OBVIOUS
  <2>10. ToSet(q) = S
    BY <2>7, <2>9 DEF ToSet
  <2>11. S \subseteq Ad /\ Newest(S, O)
    BY <2>5, <2>6, <2>7, <2>9
  <2>12. ASSUME NEW ad \in S
         PROVE  ad \in O /\ \A b \in O : b.node = ad.node => ~Precedes(b, ad)
    BY <2>11 DEF Newest
  <2>13. ASSUME NEW ad \in O, \A b \in O : b.node = ad.node => ~Precedes(b, ad)
         PROVE  ad \in S
    <3>1. PICK a \in S : a.node = ad.node /\ ~Precedes(ad, a)
      BY <2>11 DEF Newest
    <3>2. a \in O
      BY <2>11 DEF Newest
    <3>3. ad \in Ad
      <4>1. PICK w \in replies : ad \in ToSet(versions[w].ads)
        BY <2>4 DEF RepliesOffer
      <4>2. versions[w].ads \in Seq(Ad)
        BY <2>1, <2>2, ItemFields
      <4>3. QED BY <4>1, <4>2 DEF ToSet
    <3>4. ~Precedes(a, ad)
      BY <2>13, <3>1, <3>2
    <3>5. a = ad
      BY <2>11, <3>1, <3>3, <3>4, PrecedesOrder
    <3>6. QED BY <3>5
  <2>14. S = {ad \in O : \A b \in O : b.node = ad.node => ~Precedes(b, ad)}
    BY <2>12, <2>13
  <2>15. ASSUME NEW i \in 1 .. Len(q), NEW j \in 1 .. Len(q), i < j PROVE Precedes(q[i], q[j])
    <3>1. q[i] \in Ad /\ q[j] \in Ad
      BY <2>9
    <3>2. ~Precedes(q[j], q[i])
      BY <2>6, <2>15, <3>1, NoNodePreferred DEF SortedBy
    <3>3. q[i] # q[j]
      <4>1. i # j
        BY <2>15
      <4>2. QED BY <2>6, <4>1 DEF Distinct
    <3>4. QED BY <3>1, <3>2, <3>3, PrecedesOrder
  <2>16. QED BY <2>4, <2>8, <2>9, <2>10, <2>14, <2>15
<1>2. QED BY <1>1, InvariantIInv, PTL

\* A put with a sequence number to compare replaces only what it was made of.
LEMMA PutKeepsAds ==
  ASSUME IInv, NEW n \in Nodes, Stored(n) PROVE KeepsAds
<1>1. Types
  BY DEF IInv
<1>2. PICK item \in Item :
        /\ versions' = Append(versions, item)
        /\ item.ads = pub[n].ads /\ item.by = n
        /\ item.seq = pub[n].latestSeq + 1 /\ item.cas = pub[n].latestSeq
        /\ item.cas # 0 => CurrentSeq = item.cas
        /\ PutOK(n)
  BY StoredItem
<1>3. Last(versions') = item
  BY <1>1, <1>2, AppendFacts
<1>4. PICK t : t = pub[n].publishedAt
  OBVIOUS
<1>5. PICK r \in Seq(Ad) : r = pub[n].ads
  BY <1>1, PubFields
<1>6. r = item.ads /\ DOMAIN r = 1 .. Len(r)
  BY <1>2, <1>5
<1>7. \A ad : Keeps(item, ad) <=> KeptIn(r, ad)
  BY <1>6 DEF Keeps, KeptIn
<1>8. ASSUME versions # <<>>, item.seq # 1,
             ~ \E v \in 1 .. Len(versions) - 1 : versions[v].seq = Last(versions).seq,
             NEW ad \in ToSet(Last(versions).ads), Verify(ad, t), ~Keeps(item, ad)
      PROVE  /\ \A i \in DOMAIN item.ads : item.ads[i].node = item.by \/ Precedes(item.ads[i], ad)
             /\ \E b \in StoredAds :
                  /\ Verify(b, t) /\ ~Keeps(item, b) /\ ~Precedes(ad, b)
                  /\ Size(item.ads) + AdSize[b.node] > MaxSize
  <2>1. pub[n].latestSeq \in Nat /\ pub[n].latestSeq # 0 /\ CurrentSeq = pub[n].latestSeq
    BY <1>1, <1>2, <1>8, PubFields
  <2>2. /\ Len(versions) \in 1 .. Len(versions) /\ CurrentSeq = versions[Len(versions)].seq
        /\ Last(versions) = versions[Len(versions)]
    BY <1>1, <1>8, CurrentIs DEF Last
  <2>3. PICK replies \in SUBSET (1 .. Len(versions)) : MadeOf(n, replies)
    BY <1>2 DEF PutOK
  <2>4. PICK w \in replies : versions[w].seq = pub[n].latestSeq
    BY <2>1, <2>3 DEF MadeOf
  <2>5. w = Len(versions)
    <3>1. w \in 1 .. Len(versions) - 1 \/ w = Len(versions)
      BY <2>2
    <3>2. versions[w].seq = Last(versions).seq
      BY <2>1, <2>2, <2>4
    <3>3. QED BY <1>8, <3>1, <3>2
  <2>6. PICK i \in 1 .. Len(versions[w].ads) : ad = versions[w].ads[i]
    <3>1. versions[w].ads \in Seq(Ad)
      BY <1>1, ItemFields
    <3>2. QED BY <1>8, <2>2, <2>5, <3>1 DEF ToSet
  <2>7. Survives(r, n, StoredValid(t), ad)
    BY <1>4, <1>5, <1>8, <2>3, <2>6 DEF MadeOf
  <2>8. PICK b \in StoredValid(t) : NoRoomFor(r, n, ad, b)
    BY <1>7, <1>8, <2>7 DEF Survives
  <2>9. b \in StoredAds /\ Verify(b, t)
    BY DEF StoredValid
  <2>10. QED BY <1>2, <1>6, <1>7, <2>8, <2>9 DEF NoRoomFor
<1>9. QED BY <1>2, <1>3, <1>4, <1>8 DEF KeepsAds

\* The merge is not undone by a race: an ad that is stored disappears from the bucket only
\* for want of room, or in a race of items that have the same sequence number.
THEOREM UpdatesKeepAds == Spec => UpdateKeepsAds
<1>1. ASSUME IInv, [Next]_vars PROVE [KeepsAds]_vars
  <2>1. CASE versions' = versions
    BY <2>1 DEF KeepsAds
  <2>2. CASE versions' # versions
    <3>1. PICK n \in Nodes : Stored(n)
      BY <1>1, <2>2 DEF Next, Tick, PublishStep, Begin, QueryFails, Retry, GiveUp, Read, TooLarge, vars
    <3>2. QED BY <1>1, <3>1, PutKeepsAds
  <2>3. QED BY <2>1, <2>2
<1>2. Spec => [][Next]_vars
  BY PTL DEF Spec
<1>3. QED BY <1>1, <1>2, InvariantIInv, PTL DEF UpdateKeepsAds

\* "DHT shard remained contended after retries" is never returned to a publisher whom
\* nobody overtook.
THEOREM ContentionIsReal == Spec => ContendedMeansOvertaken
<1> DEFINE A == \A n \in Nodes : GiveUp(n) => (Len(versions) - pub[n].since) + pub[n].misread >= Retries
<1>1. ASSUME IInv, [Next]_vars PROVE [A]_vars
  <2> SUFFICES ASSUME NEW n \in Nodes, GiveUp(n)
               PROVE  (Len(versions) - pub[n].since) + pub[n].misread >= Retries
    OBVIOUS
  <2>1. Types /\ PubOK(n)
    BY <1>1 DEF IInv
  <2>2. pub[n].pc = "putting" /\ MayRefuse(NewItem(n)) /\ pub[n].attempt + 1 >= Retries
    BY DEF GiveUp
  <2>3. Overtaken(n) >= pub[n].attempt + 1
    BY <2>1, <2>2, RefusedMeansOvertaken
  <2>4. pub[n].attempt \in Nat /\ Retries \in Nat /\ Overtaken(n) \in Int
    <3>1. Len(versions) \in Nat
      BY <2>1 DEF Types
    <3>2. pub[n].since \in Nat /\ pub[n].misread \in Nat /\ pub[n].attempt \in Nat
      BY <2>1, PubFields
    <3>3. QED BY <3>1, <3>2, ShardAssumption DEF Overtaken
  <2>5. Overtaken(n) >= Retries
    BY <2>2, <2>3, <2>4
  <2>6. QED BY <2>5 DEF Overtaken
<1>2. Spec => [][Next]_vars
  BY PTL DEF Spec
<1>3. Spec => [][A]_vars
  <2> HIDE DEF A
  <2>1. QED BY <1>1, <1>2, InvariantIInv, PTL
<1>4. QED BY <1>3 DEF ContendedMeansOvertaken
=============================================================================
