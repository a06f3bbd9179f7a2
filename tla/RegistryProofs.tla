--------------------------- MODULE RegistryProofs ---------------------------
(***************************************************************************)
(* Proofs about Registry for any registries, handles, services, options    *)
(* and number of pools: its types, that the cache makes one pool per key,  *)
(* that no pool is shut down while a handle to it can be used, and that it *)
(* is shut down with its last handle unless two drops overlap.             *)
(***************************************************************************)
EXTENDS Registry, TLAPS

RegistryTypes ==
  /\ live \subseteq Registries /\ options \in [live -> PoolOptions]
  /\ building \subseteq Handles /\ builder \in [building -> Builder]
  /\ \A h \in building : builder[h].by \in live

ArcTypes ==
  /\ pools \in Seq(Pool) /\ arc \in [Arcs -> Arc] /\ raced \subseteq Nat
  /\ \A h \in Arcs : arc[h].state # "none" => arc[h].pool \in DOMAIN pools

\* A builder's place is empty until the locator is started.
BuildingFree == \A h \in building : arc[h].state = "none"

\* While a registry exists, every pool that a registry made is in the cache.
CacheOK ==
  live # {} => \A i \in DOMAIN pools : pools[i].cached => arc[pools[i].key] = Held(i)

\* DownAtLast is not inductive: a pool is shut down before its last Arc is gone.  What
\* every step keeps is that it is down once no handle to it can be used any more.
DownWhenUnused ==
  \A i \in DOMAIN pools :
    (\A h \in Refs(i) : arc[h].state = "dropping") => pools[i].down \/ i \in raced

ArcInv == ArcTypes /\ CacheOK /\ OnePoolPerKey /\ LiveNotDown /\ DownWhenUnused

IInv == RegistryTypes /\ BuildingFree /\ ArcInv

-----------------------------------------------------------------------------
(* The steps on handles.                                                   *)

\* What is known of a pool and of a handle.
LEMMA Known ==
  ASSUME ArcTypes
  PROVE  /\ DOMAIN pools = 1 .. Len(pools) /\ Len(pools) \in Nat
         /\ \A i \in DOMAIN pools : pools[i] \in Pool /\ i \in Nat
         /\ \A h \in Arcs : arc[h] \in Arc
BY DEF ArcTypes

\* ConnectionPool::new adds one pool at the end, which is not shut down.
LEMMA NewPoolAdds ==
  ASSUME ArcTypes, NEW k \in Keys, NEW b \in BOOLEAN, NewPool(k, b)
  PROVE  /\ pools' \in Seq(Pool) /\ Len(pools) + 1 \in Nat
         /\ DOMAIN pools' = DOMAIN pools \cup {Len(pools) + 1}
         /\ Len(pools) + 1 \notin DOMAIN pools
         /\ pools'[Len(pools) + 1] = [key |-> k, cached |-> b, down |-> FALSE]
         /\ \A i \in DOMAIN pools : pools'[i] = pools[i]
<1> DEFINE p == [key |-> k, cached |-> b, down |-> FALSE]
<1>1. p \in Pool
  BY DEF Pool
<1>2. pools' = Append(pools, p)
  BY DEF NewPool
<1> HIDE DEF p
<1>3. pools' \in Seq(Pool) /\ Len(pools') = Len(pools) + 1 /\ pools'[Len(pools) + 1] = p
        /\ \A i \in 1 .. Len(pools) : pools'[i] = pools[i]
  BY <1>1, <1>2 DEF ArcTypes
<1>4. DOMAIN pools' = 1 .. Len(pools') /\ DOMAIN pools = 1 .. Len(pools) /\ Len(pools) \in Nat
  BY <1>3 DEF ArcTypes
<1>5. QED BY <1>3, <1>4 DEF p

\* A handle to a pool that has another one, which can be used (clone, or a cached pool).
LEMMA HandleCopied ==
  ASSUME ArcInv, NEW h \in Arcs, NEW g \in Handles, arc[h].state = "held", arc[g].state = "none",
         arc' = [arc EXCEPT ![g] = arc[h]], UNCHANGED <<pools, raced>>,
         live' # {} => live # {}
  PROVE  ArcInv'
<1>1. g \in Arcs /\ g \notin Keys /\ h # g
  BY RegistryAssumption DEF Arcs
<1>2. arc \in [Arcs -> Arc] /\ arc'[g] = arc[h] /\ \A x \in Arcs \ {g} : arc'[x] = arc[x]
  BY <1>1 DEF ArcInv, ArcTypes
<1>3. ArcTypes'
  BY <1>1, <1>2 DEF ArcInv, ArcTypes
<1>4. CacheOK'
  <2>1. \A i \in DOMAIN pools : pools[i].key \in Arcs \ {g}
    BY <1>1, Known DEF ArcInv, Pool, Arcs
  <2>2. QED BY <1>2, <2>1 DEF ArcInv, CacheOK, Held
<1>5. OnePoolPerKey'
  BY DEF ArcInv, OnePoolPerKey
<1>6. LiveNotDown'
  BY <1>1, <1>2 DEF ArcInv, LiveNotDown
<1>7. DownWhenUnused'
  <2> SUFFICES ASSUME NEW i \in DOMAIN pools, \A x \in Refs(i)' : arc'[x].state = "dropping"
               PROVE  pools[i].down \/ i \in raced
    BY DEF DownWhenUnused
  <2>1. \A x \in Refs(i) : x # g /\ x \in Refs(i)' /\ arc'[x] = arc[x]
    BY <1>2 DEF Refs
  <2>2. QED BY <2>1 DEF ArcInv, DownWhenUnused
<1>8. QED BY <1>3, <1>4, <1>5, <1>6, <1>7 DEF ArcInv

\* A pool of a user's own: its only handle can be used.
LEMMA OwnPoolStep ==
  ASSUME ArcInv, NEW k \in Keys, NEW h \in Handles, arc[h].state = "none", NewPool(k, FALSE),
         arc' = [arc EXCEPT ![h] = Held(Len(pools) + 1)], UNCHANGED raced,
         live' # {} => live # {}
  PROVE  ArcInv'
<1> DEFINE n == Len(pools) + 1
<1>1. h \in Arcs /\ h \notin Keys
  BY RegistryAssumption DEF Arcs
<1>2. /\ pools' \in Seq(Pool) /\ n \in Nat /\ DOMAIN pools' = DOMAIN pools \cup {n}
      /\ n \notin DOMAIN pools /\ pools'[n] = [key |-> k, cached |-> FALSE, down |-> FALSE]
      /\ \A i \in DOMAIN pools : pools'[i] = pools[i]
  BY NewPoolAdds DEF ArcInv
<1>3. arc \in [Arcs -> Arc] /\ arc'[h] = Held(n) /\ \A x \in Arcs \ {h} : arc'[x] = arc[x]
  BY <1>1 DEF ArcInv, ArcTypes
<1>4. Held(n) \in Arc /\ Held(n).pool = n /\ Held(n).state = "held"
  BY <1>2 DEF Held, Arc
<1> HIDE DEF n
<1>5. ArcTypes'
  <2>1. arc' \in [Arcs -> Arc]
    BY <1>3, <1>4 DEF ArcInv, ArcTypes, n
  <2>2. QED BY <1>1, <1>2, <1>3, <1>4, <2>1 DEF ArcInv, ArcTypes
<1>6. CacheOK'
  <2>1. \A i \in DOMAIN pools : pools[i].key \in Arcs \ {h}
    BY <1>1, Known DEF ArcInv, Pool, Arcs
  <2>2. pools'[n].cached = FALSE
    BY <1>2
  <2>3. QED BY <1>2, <1>3, <2>1, <2>2 DEF ArcInv, CacheOK, Held
<1>7. OnePoolPerKey'
  BY <1>2 DEF ArcInv, OnePoolPerKey
<1>8. LiveNotDown'
  <2>1. \A x \in Arcs \ {h} : arc[x].state = "held" => arc[x].pool \in DOMAIN pools
    BY DEF ArcInv, ArcTypes
  <2>2. QED BY <1>1, <1>2, <1>3, <1>4, <2>1 DEF ArcInv, LiveNotDown
<1>9. DownWhenUnused'
  <2> SUFFICES ASSUME NEW i \in DOMAIN pools', \A x \in Refs(i)' : arc'[x].state = "dropping"
               PROVE  pools'[i].down \/ i \in raced
    BY DEF DownWhenUnused
  <2>1. i # n
    BY <1>1, <1>3, <1>4 DEF Refs
  <2>2. \A x \in Refs(i) : x # h /\ x \in Refs(i)' /\ arc'[x] = arc[x]
    BY <1>3 DEF Refs
  <2>3. QED BY <1>2, <2>1, <2>2 DEF ArcInv, DownWhenUnused
<1>10. QED BY <1>5, <1>6, <1>7, <1>8, <1>9 DEF ArcInv

\* pool_for_alpn makes a pool: no other was made for its key, since it would be in
\* the cache, and both of its handles can be used.
LEMMA CachedPoolStep ==
  ASSUME ArcInv, NEW k \in Keys, NEW h \in Handles, arc[h].state = "none",
         arc[k].state = "none", NewPool(k, TRUE), live # {},
         arc' = [arc EXCEPT ![k] = Held(Len(pools) + 1), ![h] = Held(Len(pools) + 1)],
         UNCHANGED raced
  PROVE  ArcInv'
<1> DEFINE n == Len(pools) + 1
<1>1. h \in Arcs /\ k \in Arcs /\ h \notin Keys
  BY RegistryAssumption DEF Arcs
<1>2. /\ pools' \in Seq(Pool) /\ n \in Nat /\ DOMAIN pools' = DOMAIN pools \cup {n}
      /\ n \notin DOMAIN pools /\ pools'[n] = [key |-> k, cached |-> TRUE, down |-> FALSE]
      /\ \A i \in DOMAIN pools : pools'[i] = pools[i]
  BY NewPoolAdds DEF ArcInv
<1>3. /\ arc \in [Arcs -> Arc] /\ arc'[h] = Held(n) /\ arc'[k] = Held(n)
      /\ \A x \in Arcs \ {h, k} : arc'[x] = arc[x]
      /\ arc' = [x \in Arcs |-> arc'[x]]
  BY <1>1 DEF ArcInv, ArcTypes
<1>4. Held(n) \in Arc /\ Held(n).pool = n /\ Held(n).state = "held"
  BY <1>2 DEF Held, Arc
<1> HIDE DEF n
<1>5. ArcTypes'
  <2>1. \A x \in Arcs : arc'[x] \in Arc
    BY <1>3, <1>4
  <2>2. arc' \in [Arcs -> Arc]
    BY <1>3, <2>1
  <2>3. \A x \in Arcs : arc'[x].state # "none" => arc'[x].pool \in DOMAIN pools'
    BY <1>2, <1>3, <1>4 DEF ArcInv, ArcTypes
  <2>4. QED BY <1>2, <2>2, <2>3 DEF ArcInv, ArcTypes
<1>6. \A i \in DOMAIN pools : pools[i].cached => pools[i].key # k /\ pools[i].key \in Arcs \ {h, k}
  <2>1. \A i \in DOMAIN pools : pools[i].cached => arc[pools[i].key] = Held(i)
    BY DEF ArcInv, CacheOK
  <2>2. \A i \in DOMAIN pools : Held(i).state = "held"
    BY DEF Held
  <2>3. \A i \in DOMAIN pools : pools[i].key \in Keys
    BY Known DEF ArcInv, Pool
  <2>4. QED BY <1>1, <2>1, <2>2, <2>3 DEF Arcs
<1>7. CacheOK'
  <2>1. \A i \in DOMAIN pools : pools[i].cached => arc'[pools[i].key] = Held(i)
    BY <1>3, <1>6 DEF ArcInv, CacheOK
  <2>2. pools'[n].key = k
    BY <1>2
  <2>3. \A i \in DOMAIN pools' : pools'[i].cached => arc'[pools'[i].key] = Held(i)
    BY <1>2, <1>3, <2>1, <2>2
  <2>4. QED BY <2>3 DEF CacheOK, Held
<1>8. OnePoolPerKey'
  <2>1. pools'[n].key = k
    BY <1>2
  <2>2. QED BY <1>2, <1>6, <2>1 DEF ArcInv, OnePoolPerKey
<1>9. LiveNotDown'
  <2>1. \A x \in Arcs : arc[x].state = "held" => arc[x].pool \in DOMAIN pools
    BY DEF ArcInv, ArcTypes
  <2>2. QED BY <1>1, <1>2, <1>3, <1>4, <2>1 DEF ArcInv, LiveNotDown
<1>10. DownWhenUnused'
  <2> SUFFICES ASSUME NEW i \in DOMAIN pools', \A x \in Refs(i)' : arc'[x].state = "dropping"
               PROVE  pools'[i].down \/ i \in raced
    BY DEF DownWhenUnused
  <2>1. i # n
    BY <1>1, <1>3, <1>4 DEF Refs
  <2>2. i \in DOMAIN pools /\ pools'[i] = pools[i]
    BY <1>2, <2>1
  <2>3. \A x \in Refs(i) : x \notin {h, k} /\ x \in Refs(i)' /\ arc'[x] = arc[x]
    BY <1>3 DEF Refs
  <2>4. \A x \in Refs(i) : arc[x].state = "dropping"
    BY <2>3
  <2>5. QED BY <2>2, <2>4 DEF ArcInv, DownWhenUnused
<1>11. QED BY <1>5, <1>7, <1>8, <1>9, <1>10 DEF ArcInv

\* pool_for_alpn, whether it finds the pool in the cache or makes it.
LEMMA PoolForAlpnStep ==
  ASSUME ArcInv, NEW k \in Keys, NEW h \in Handles, arc[h].state = "none", live # {},
         PoolForAlpn(k, h), UNCHANGED raced
  PROVE  ArcInv'
<1>1. k \in Arcs
  BY DEF Arcs
<1>2. QED BY <1>1, HandleCopied, CachedPoolStep DEF PoolForAlpn

\* Drop for ConnectionPool: the pool goes down only if no other handle is left, and
\* stays up only if another handle can be used or is being dropped as well.
LEMMA DropBeginStep ==
  ASSUME ArcInv, NEW h \in Arcs, DropBegin(h)
  PROVE  ArcInv'
<1> DEFINE i == arc[h].pool
           a == [arc[h] EXCEPT !.state = "dropping"]
           b == Refs(i) = {h}
<1>1. /\ arc[h].state = "held" /\ Droppable(h) /\ arc' = [arc EXCEPT ![h] = a]
      /\ UNCHANGED options
  BY DEF DropBegin
<1>2. PICK d \in BOOLEAN : (d <=> pools[i].down \/ b)
                              /\ pools' = [pools EXCEPT ![i] = [pools[i] EXCEPT !.down = d]]
  <2>1. pools' = [pools EXCEPT ![i] = [pools[i] EXCEPT !.down = pools[i].down \/ b]]
    BY DEF DropBegin, Last
  <2>2. (pools[i].down \/ b) \in BOOLEAN
    OBVIOUS
  <2>3. QED BY <2>1, <2>2, Zenon
<1>3. arc[h] \in Arc /\ i \in DOMAIN pools /\ pools[i] \in Pool
  BY <1>1, Known DEF ArcInv, ArcTypes
<1>4. a \in Arc /\ a.pool = i /\ a.state = "dropping"
  BY <1>3 DEF Arc
<1>5. arc \in [Arcs -> Arc] /\ arc'[h] = a /\ \A x \in Arcs \ {h} : arc'[x] = arc[x]
  BY <1>1 DEF ArcInv, ArcTypes
<1> DEFINE p == [pools[i] EXCEPT !.down = d]
<1>6. p \in Pool /\ p.key = pools[i].key /\ p.cached = pools[i].cached /\ p.down = d
  BY <1>3 DEF Pool
<1>7. /\ pools' \in Seq(Pool) /\ DOMAIN pools' = DOMAIN pools /\ pools'[i] = p
      /\ \A j \in DOMAIN pools \ {i} : pools'[j] = pools[j]
  <2>1. pools' = [pools EXCEPT ![i] = p]
    BY <1>2
  <2> HIDE DEF p, i
  <2>2. QED BY <1>3, <1>6, <2>1 DEF ArcInv, ArcTypes
<1> HIDE DEF p, a
<1>8. \A j \in DOMAIN pools : pools'[j].key = pools[j].key /\ pools'[j].cached = pools[j].cached
  BY <1>6, <1>7
<1>9. raced \subseteq raced' /\ raced' \subseteq raced \cup {i}
        /\ ((\E g \in Refs(i) : arc[g].state = "dropping") => i \in raced')
  BY DEF DropBegin
<1>10. ArcTypes'
  <2>1. raced' \subseteq Nat
    BY <1>3, <1>9, Known DEF ArcInv, ArcTypes
  <2>2. arc' \in [Arcs -> Arc]
    BY <1>1, <1>4 DEF ArcInv, ArcTypes
  <2>3. \A x \in Arcs : arc'[x].state # "none" => arc'[x].pool \in DOMAIN pools
    BY <1>3, <1>4, <1>5 DEF ArcInv, ArcTypes
  <2>4. QED BY <1>7, <2>1, <2>2, <2>3 DEF ArcTypes
<1>11. CacheOK'
  <2> SUFFICES ASSUME live # {}, NEW j \in DOMAIN pools, pools[j].cached
               PROVE  arc'[pools[j].key] = Held(j)
    BY <1>1, <1>7, <1>8 DEF CacheOK, Held, live
  <2>1. pools[j].key \in Keys /\ arc[pools[j].key] = Held(j)
    BY Known DEF ArcInv, CacheOK, Pool
  <2>2. h \notin Keys
    BY <1>1 DEF Droppable
  <2>3. QED BY <1>5, <2>1, <2>2 DEF Arcs
<1>12. OnePoolPerKey'
  BY <1>7, <1>8 DEF ArcInv, OnePoolPerKey
<1>13. LiveNotDown'
  <2> SUFFICES ASSUME NEW x \in Arcs, arc'[x].state = "held"
               PROVE  ~pools'[arc'[x].pool].down
    BY DEF LiveNotDown
  <2>1. x # h /\ arc'[x] = arc[x] /\ arc[x].pool \in DOMAIN pools
    BY <1>4, <1>5 DEF ArcInv, ArcTypes
  <2>2. CASE arc[x].pool = i
    <3>1. x \in Refs(i)
      BY <2>1, <2>2 DEF Refs
    <3>2. ~b
      BY <2>1, <3>1
    <3>3. ~pools[i].down
      BY <2>1, <2>2 DEF ArcInv, LiveNotDown
    <3>4. d = FALSE
      BY <1>2, <3>2, <3>3
    <3>5. QED BY <1>6, <1>7, <2>1, <2>2, <3>4
  <2>3. CASE arc[x].pool # i
    BY <1>7, <2>1, <2>3 DEF ArcInv, LiveNotDown
  <2>4. QED BY <2>2, <2>3
<1>14. DownWhenUnused'
  <2> SUFFICES ASSUME NEW j \in DOMAIN pools, \A x \in Refs(j)' : arc'[x].state = "dropping"
               PROVE  pools'[j].down \/ j \in raced'
    BY <1>7 DEF DownWhenUnused
  <2>1. \A x \in Refs(j) \ {h} : x \in Refs(j)' /\ arc'[x] = arc[x]
    BY <1>5 DEF Refs
  <2>2. CASE j = i
    <3>1. CASE b
      BY <1>2, <1>6, <1>7, <2>2, <3>1
    <3>2. CASE ~b
      <4>1. h \in Refs(i)
        BY <1>1 DEF Refs
      <4>2. PICK x \in Refs(i) : x # h
        BY <3>2, <4>1
      <4>3. arc[x].state = "dropping"
        BY <2>1, <2>2, <4>2
      <4>4. QED BY <1>9, <2>2, <4>2, <4>3
    <3>3. QED BY <3>1, <3>2
  <2>3. CASE j # i
    <3>1. h \notin Refs(j)
      BY <2>3 DEF Refs
    <3>2. QED BY <1>7, <1>9, <2>1, <2>3, <3>1 DEF ArcInv, DownWhenUnused
  <2>4. QED BY <2>2, <2>3
<1>15. QED BY <1>10, <1>11, <1>12, <1>13, <1>14 DEF ArcInv

\* The Arc of a dropped handle goes: it did not count as one that can be used.
LEMMA DropEndStep ==
  ASSUME ArcInv, NEW h \in Arcs, DropEnd(h)
  PROVE  ArcInv'
<1> DEFINE a == [pool |-> 0, state |-> "none"]
<1>1. arc[h].state = "dropping" /\ arc' = [arc EXCEPT ![h] = a]
        /\ UNCHANGED <<options, pools, raced>>
  BY DEF DropEnd
<1>2. a \in Arc /\ a.state = "none"
  BY DEF Arc
<1> HIDE DEF a
<1>3. arc \in [Arcs -> Arc] /\ arc'[h] = a /\ \A x \in Arcs \ {h} : arc'[x] = arc[x]
  BY <1>1 DEF ArcInv, ArcTypes
<1>4. ArcTypes'
  BY <1>1, <1>2, <1>3 DEF ArcInv, ArcTypes
<1>5. CacheOK'
  <2> SUFFICES ASSUME live # {}, NEW j \in DOMAIN pools, pools[j].cached
               PROVE  arc'[pools[j].key] = Held(j)
    BY <1>1 DEF CacheOK, Held, live
  <2>1. pools[j].key \in Keys /\ arc[pools[j].key] = Held(j) /\ Held(j).state = "held"
    BY Known DEF ArcInv, CacheOK, Pool, Held
  <2>2. QED BY <1>1, <1>3, <2>1 DEF Arcs
<1>6. OnePoolPerKey'
  BY <1>1 DEF ArcInv, OnePoolPerKey
<1>7. LiveNotDown'
  BY <1>1, <1>2, <1>3 DEF ArcInv, LiveNotDown
<1>8. DownWhenUnused'
  <2> SUFFICES ASSUME NEW j \in DOMAIN pools, \A x \in Refs(j)' : arc'[x].state = "dropping"
               PROVE  pools[j].down \/ j \in raced
    BY <1>1 DEF DownWhenUnused
  <2>1. \A x \in Refs(j) \ {h} : x \in Refs(j)' /\ arc'[x] = arc[x]
    BY <1>3 DEF Refs
  <2>2. QED BY <1>1, <2>1 DEF ArcInv, DownWhenUnused
<1>9. QED BY <1>4, <1>5, <1>6, <1>7, <1>8 DEF ArcInv

\* A step that leaves the handles alone.
LEMMA HandlesSame ==
  ASSUME ArcInv, UNCHANGED <<pools, arc, raced>>, live' # {} => live # {}
  PROVE  ArcInv'
<1>1. \A i : Refs(i)' = Refs(i)
  BY DEF Refs
<1>2. ArcTypes' /\ OnePoolPerKey' /\ LiveNotDown'
  BY DEF ArcInv, ArcTypes, OnePoolPerKey, LiveNotDown
<1>3. CacheOK'
  BY DEF ArcInv, CacheOK, Held
<1>4. DownWhenUnused'
  BY <1>1 DEF ArcInv, DownWhenUnused
<1>5. QED BY <1>2, <1>3, <1>4 DEF ArcInv

-----------------------------------------------------------------------------
(* The inductive invariant.                                                *)

\* A registry with no pools and no handles satisfies it.
LEMMA InitIInv == Init => IInv
<1> SUFFICES ASSUME Init PROVE IInv
  OBVIOUS
<1>1. RegistryTypes /\ BuildingFree
  BY RegistryAssumption DEF Init, RegistryTypes, BuildingFree, live, building
<1>2. [pool |-> 0, state |-> "none"] \in Arc
  BY DEF Arc
<1>3. ArcTypes
  BY <1>2 DEF Init, ArcTypes
<1>4. DOMAIN pools = {}
  BY DEF Init
<1>5. \A h \in Arcs : arc[h].state # "held"
  BY DEF Init
<1>6. CacheOK /\ OnePoolPerKey /\ LiveNotDown /\ DownWhenUnused
  BY <1>4, <1>5 DEF CacheOK, OnePoolPerKey, LiveNotDown, DownWhenUnused
<1>7. QED BY <1>1, <1>3, <1>6 DEF IInv, ArcInv

\* The steps that leave the handles alone: clones, options, find and its builder.
LEMMA BuilderSteps ==
  ASSUME IInv,
         \/ \E r \in Registries :
              \/ \E q \in Registries : CloneRegistry(r, q)
              \/ \E o \in PoolOptions : WithPoolOptions(r, o)
              \/ \E a \in Alpns, h \in Handles : Find(r, a, h)
              \/ DropRegistry(r)
         \/ \E h \in Handles :
              \/ \E t \in Times : TimeoutEach(h, t)
              \/ \E o \in PoolOptions : BuilderPoolOptions(h, o)
              \/ DropBuilder(h)
  PROVE  IInv'
<1> USE DEF RegistryTypes, live, building
<1>1. RegistryTypes /\ BuildingFree /\ ArcInv
  BY DEF IInv
<1>2. ASSUME NEW r \in Registries, NEW q \in Registries, CloneRegistry(r, q) PROVE IInv'
  <2>1. UNCHANGED <<pools, arc, builder, raced>> /\ r \in live
          /\ options' = [x \in live \cup {q} |-> IF x = q THEN options[r] ELSE options[x]]
    BY <1>2 DEF CloneRegistry
  <2>2. RegistryTypes' /\ BuildingFree'
    BY <1>1, <2>1 DEF BuildingFree
  <2>3. QED BY <1>1, <2>1, <2>2, HandlesSame DEF IInv
<1>3. ASSUME NEW r \in Registries, NEW o \in PoolOptions, WithPoolOptions(r, o) PROVE IInv'
  <2>1. UNCHANGED <<pools, arc, builder, raced>> /\ r \in live
          /\ options' = [options EXCEPT ![r] = o]
    BY <1>3 DEF WithPoolOptions
  <2>2. RegistryTypes' /\ BuildingFree'
    BY <1>1, <2>1 DEF BuildingFree
  <2>3. QED BY <1>1, <2>1, <2>2, HandlesSame DEF IInv
<1>4. ASSUME NEW r \in Registries, DropRegistry(r) PROVE IInv'
  <2>1. UNCHANGED <<pools, arc, builder, raced>> /\ r \in live /\ ~Borrowed(r)
          /\ options' = [x \in live \ {r} |-> options[x]]
    BY <1>4 DEF DropRegistry, Restrict
  <2>2. RegistryTypes' /\ BuildingFree'
    BY <1>1, <2>1 DEF BuildingFree, Borrowed
  <2>3. QED BY <1>1, <2>1, <2>2, HandlesSame DEF IInv
<1>5. ASSUME NEW r \in Registries, NEW a \in Alpns, NEW h \in Handles, Find(r, a, h) PROVE IInv'
  <2> DEFINE new == [by |-> r, key |-> [alpn |-> a, options |-> options[r]]]
  <2>1. UNCHANGED <<options, pools, arc, raced>> /\ r \in live /\ arc[h].state = "none"
          /\ builder' = [g \in building \cup {h} |-> IF g = h THEN new ELSE builder[g]]
    BY <1>5 DEF Find, Free
  <2>2. new \in Builder /\ new.by = r
    BY <1>1, <2>1 DEF Builder, Keys
  <2> HIDE DEF new
  <2>3. RegistryTypes' /\ BuildingFree'
    BY <1>1, <2>1, <2>2 DEF BuildingFree
  <2>4. QED BY <1>1, <2>1, <2>3, HandlesSame DEF IInv
<1>6. ASSUME NEW h \in building, NEW o \in PoolOptions, UNCHANGED <<options, pools, arc, raced>>,
             builder' = [builder EXCEPT ![h].key.options = o]
      PROVE  IInv'
  <2> DEFINE b == [builder[h] EXCEPT !.key = [builder[h].key EXCEPT !.options = o]]
  <2>1. builder' = [builder EXCEPT ![h] = b]
    BY <1>6
  <2>2. builder[h] \in Builder /\ builder[h].key \in Keys
    BY <1>1, <1>6 DEF Builder
  <2>3. b \in Builder /\ b.by = builder[h].by
    BY <2>2 DEF Builder, Keys
  <2> HIDE DEF b
  <2>4. RegistryTypes' /\ BuildingFree'
    BY <1>1, <1>6, <2>1, <2>3 DEF BuildingFree
  <2>5. QED BY <1>1, <1>6, <2>4, HandlesSame DEF IInv
<1>7. ASSUME NEW h \in Handles, NEW o \in PoolOptions, BuilderPoolOptions(h, o) PROVE IInv'
  BY <1>6, <1>7 DEF BuilderPoolOptions
<1>8. ASSUME NEW h \in Handles, NEW t \in Times, TimeoutEach(h, t) PROVE IInv'
  <2> DEFINE o == [builder[h].key.options EXCEPT !.connect = t]
  <2>1. h \in building /\ UNCHANGED <<options, pools, arc, raced>>
    BY <1>8 DEF TimeoutEach
  <2>2. builder[h].key.options \in PoolOptions
    BY <1>1, <2>1 DEF Builder, Keys
  <2>3. o \in PoolOptions
    BY <2>2 DEF PoolOptions
  <2>4. builder' = [builder EXCEPT ![h].key.options = o]
    BY <1>8 DEF TimeoutEach
  <2> HIDE DEF o
  <2>5. QED BY <1>6, <2>1, <2>3, <2>4
<1>9. ASSUME NEW h \in Handles, DropBuilder(h) PROVE IInv'
  <2>1. UNCHANGED <<options, pools, arc, raced>>
          /\ builder' = [g \in building \ {h} |-> builder[g]]
    BY <1>9 DEF DropBuilder, Restrict
  <2>2. RegistryTypes' /\ BuildingFree'
    BY <1>1, <2>1 DEF BuildingFree
  <2>3. QED BY <1>1, <2>1, <2>2, HandlesSame DEF IInv
<1>10. QED BY <1>2, <1>3, <1>4, <1>5, <1>7, <1>8, <1>9

\* The steps that change handles: pool, start, new, clone and the two of a drop.
LEMMA HandleSteps ==
  ASSUME IInv,
         \/ \E r \in Registries, a \in Alpns, h \in Handles : GetPool(r, a, h)
         \/ \E h \in Handles : \/ StartLocator(h) \/ (\E k \in Keys : OwnPool(k, h))
                               \/ \E g \in Handles : Clone(h, g)
         \/ \E h \in Arcs : DropBegin(h) \/ DropEnd(h)
  PROVE  IInv'
<1> USE DEF RegistryTypes, live, building
<1>1. RegistryTypes /\ BuildingFree /\ ArcInv /\ Handles \subseteq Arcs
        /\ arc \in [Arcs -> Arc] /\ \A h \in Handles : h \notin Keys
  BY RegistryAssumption DEF IInv, ArcInv, ArcTypes, Arcs
<1>2. ASSUME NEW g \in Handles, Free(g), UNCHANGED <<options, builder>>,
             \A x \in Handles \ {g} : arc'[x] = arc[x]
      PROVE  RegistryTypes' /\ BuildingFree'
  BY <1>1, <1>2 DEF BuildingFree, Free
<1>3. ASSUME NEW r \in Registries, NEW a \in Alpns, NEW h \in Handles, GetPool(r, a, h)
      PROVE  IInv'
  <2> DEFINE k == [alpn |-> a, options |-> options[r]]
  <2>1. r \in live /\ Free(h) /\ PoolForAlpn(k, h) /\ UNCHANGED <<options, builder, raced>>
    BY <1>3 DEF GetPool
  <2>2. k \in Keys
    BY <1>1, <2>1 DEF Keys
  <2> HIDE DEF k
  <2>3. \A x \in Handles \ {h} : arc'[x] = arc[x]
    BY <1>1, <2>1, <2>2 DEF PoolForAlpn
  <2>4. ArcInv'
    BY <1>1, <2>1, <2>2, PoolForAlpnStep DEF Free
  <2>5. QED BY <1>2, <2>1, <2>3, <2>4 DEF IInv
<1>4. ASSUME NEW h \in Handles, StartLocator(h) PROVE IInv'
  <2> DEFINE k == builder[h].key
  <2>1. h \in building /\ PoolForAlpn(k, h) /\ UNCHANGED <<options, raced>>
          /\ builder' = [g \in building \ {h} |-> builder[g]]
    BY <1>4 DEF StartLocator, Restrict
  <2>2. k \in Keys /\ builder[h].by \in live /\ arc[h].state = "none"
    BY <1>1, <2>1 DEF Builder, BuildingFree
  <2> HIDE DEF k
  <2>3. \A x \in Handles \ {h} : arc'[x] = arc[x]
    BY <1>1, <2>1, <2>2 DEF PoolForAlpn
  <2>4. ArcInv'
    BY <1>1, <2>1, <2>2, PoolForAlpnStep
  <2>5. RegistryTypes' /\ BuildingFree'
    BY <1>1, <2>1, <2>3 DEF BuildingFree
  <2>6. QED BY <2>4, <2>5 DEF IInv
<1>5. ASSUME NEW h \in Handles, NEW k \in Keys, OwnPool(k, h) PROVE IInv'
  <2>1. Free(h) /\ NewPool(k, FALSE) /\ arc' = [arc EXCEPT ![h] = Held(Len(pools) + 1)]
          /\ UNCHANGED <<options, builder, raced>>
    BY <1>5 DEF OwnPool
  <2>2. ArcInv'
    BY <1>1, <2>1, OwnPoolStep DEF Free
  <2>3. QED BY <1>1, <1>2, <2>1, <2>2 DEF IInv
<1>6. ASSUME NEW h \in Handles, NEW g \in Handles, Clone(h, g) PROVE IInv'
  <2>1. arc[h].state = "held" /\ Free(g) /\ arc' = [arc EXCEPT ![g] = arc[h]]
          /\ UNCHANGED <<options, pools, builder, raced>>
    BY <1>6 DEF Clone
  <2>2. ArcInv'
    BY <1>1, <2>1, HandleCopied DEF Free
  <2>3. QED BY <1>1, <1>2, <2>1, <2>2 DEF IInv
<1>7. ASSUME NEW h \in Arcs, DropBegin(h) \/ DropEnd(h) PROVE IInv'
  <2>1. UNCHANGED <<options, builder>> /\ arc[h].state # "none"
          /\ \A x \in Arcs \ {h} : arc'[x] = arc[x]
    BY <1>1, <1>7 DEF DropBegin, DropEnd
  <2>2. RegistryTypes' /\ BuildingFree'
    BY <1>1, <2>1 DEF BuildingFree
  <2>3. QED BY <1>1, <1>7, <2>2, DropBeginStep, DropEndStep DEF IInv
<1>8. QED BY <1>3, <1>4, <1>5, <1>6, <1>7

\* Every step keeps the invariant.
LEMMA NextIInv ==
  ASSUME IInv, [Next]_vars
  PROVE  IInv'
<1>1. CASE UNCHANGED vars
  <2>1. UNCHANGED <<options, pools, arc, builder, raced>>
    BY <1>1 DEF vars
  <2>2. QED
    BY <2>1, HandlesSame DEF IInv, RegistryTypes, BuildingFree, live, building
<1>2. CASE Next
  BY <1>2, BuilderSteps, HandleSteps DEF Next
<1>3. QED BY <1>1, <1>2

\* The invariant is an invariant of the specification.
LEMMA InvariantIInv == Spec => []IInv
BY InitIInv, NextIInv, PTL DEF Spec

-----------------------------------------------------------------------------
(* The theorems.                                                           *)

\* The types of the registries, the pools, their handles and the builders; a handle
\* always names a pool and a builder a registry that exist.
THEOREM TypeCorrect == Spec => []TypeOK
<1>1. IInv => TypeOK
  BY DEF IInv, RegistryTypes, ArcInv, ArcTypes, TypeOK
<1>2. QED BY <1>1, InvariantIInv, PTL

\* pool_for_alpn makes at most one pool for a service and its options.
THEOREM CacheIsExact == Spec => []OnePoolPerKey
<1>1. IInv => OnePoolPerKey
  BY DEF IInv, ArcInv
<1>2. QED BY <1>1, InvariantIInv, PTL

\* Drop for ConnectionPool never shuts a pool down while a handle to it can be used.
THEOREM UsablePoolIsUp == Spec => []LiveNotDown
<1>1. IInv => LiveNotDown
  BY DEF IInv, ArcInv
<1>2. QED BY <1>1, InvariantIInv, PTL

\* A pool whose handles are all gone was shut down, or two of its handles were dropped
\* at once: the race of Drop with itself is the only way to leave one running.
THEOREM LastDropShutsDown == Spec => []DownAtLast
<1>1. IInv => DownAtLast
  BY DEF IInv, ArcInv, DownWhenUnused, DownAtLast
<1>2. QED BY <1>1, InvariantIInv, PTL
=============================================================================
