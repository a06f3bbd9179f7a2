------------------------------ MODULE Registry ------------------------------
(***************************************************************************)
(* The ServiceRegistry of swarm/registry.rs: a cache of connection pools,  *)
(* one per ALPN and pool options, shared by the registry's clones, and the *)
(* handles to those pools that pool(), find() and clone() give out.  What  *)
(* a pool does is module ConnectionPool, whose Close is shutdown() here;   *)
(* the streams of find() are modules Backends and Locator.                 *)
(*                                                                         *)
(* A handle is an Arc.  Its drop is two steps, between which other threads *)
(* run: Drop::drop reads the count and may shut the pool down, and then    *)
(* the count is decremented.                                               *)
(***************************************************************************)
EXTENDS Naturals, Sequences, Functions

CONSTANTS
  Registries,   \* ServiceRegistry values: one to begin with, and clones of it
  First,        \* the one to begin with
  Handles,      \* places for ConnectionPool handles outside of the cache
  Alpns,        \* services
  Times,        \* connect timeouts
  Rests,        \* what else PoolOptions sets: the idle timeout and the limit
  MaxPools      \* bound: pools made per behaviour

PoolOptions == [connect : Times, rest : Rests]

\* PoolKey.
Keys == [alpn : Alpns, options : PoolOptions]

\* The cache's handles are named by their keys.
Arcs == Handles \cup Keys

ASSUME RegistryAssumption ==
  First \in Registries /\ MaxPools \in Nat /\ Handles \cap Keys = {}

VARIABLES
  options,   \* the registries that exist, with their pool_options
  pools,     \* the pools made so far
  arc,       \* the handles: the pool's number and what is happening to the handle
  builder,   \* the LocatorBuilders, by the handle that the locator is to get
  raced      \* history: pools of which two handles were being dropped at once

vars == <<options, pools, arc, builder, raced>>

live == DOMAIN options
building == DOMAIN builder

Pool == [key : Keys, cached : BOOLEAN, down : BOOLEAN]
Arc == [pool : Nat, state : {"none", "held", "dropping"}]
Builder == [by : Registries, key : Keys]

\* The handles that count towards strong_count.
Refs(i) == {h \in Arcs : arc[h].pool = i /\ arc[h].state # "none"}

Free(h) == arc[h].state = "none" /\ h \notin building

\* A builder borrows its registry, which can be cloned then, but neither changed nor
\* dropped.
Borrowed(r) == \E h \in building : builder[h].by = r

\* ServiceRegistry::new.
Init ==
  /\ options \in [{First} -> PoolOptions]
  /\ pools = <<>> /\ arc = [h \in Arcs |-> [pool |-> 0, state |-> "none"]]
  /\ builder = << >>
  /\ raced = {}

-----------------------------------------------------------------------------
(* The registry.                                                           *)

CloneRegistry(r, q) ==
  /\ r \in live /\ q \notin live
  /\ options' = [x \in live \cup {q} |-> IF x = q THEN options[r] ELSE options[x]]
  /\ UNCHANGED <<pools, arc, builder, raced>>

WithPoolOptions(r, o) ==
  /\ r \in live /\ ~Borrowed(r) /\ options' = [options EXCEPT ![r] = o]
  /\ UNCHANGED <<pools, arc, builder, raced>>

Held(i) == [pool |-> i, state |-> "held"]

\* ConnectionPool::new.
NewPool(k, cached) ==
  /\ Len(pools) < MaxPools
  /\ pools' = Append(pools, [key |-> k, cached |-> cached, down |-> FALSE])

\* Mutant of PoolForAlpn: insert in place of entry.
PoolForAlpnInsert(k, h) ==
  /\ NewPool(k, TRUE)
  /\ arc' = [arc EXCEPT ![k] = Held(Len(pools) + 1), ![h] = Held(Len(pools) + 1)]

\* pool_for_alpn: under the lock, the cached handle is cloned, or made first.
PoolForAlpn(k, h) ==
  \/ /\ arc[k].state = "held"
     /\ arc' = [arc EXCEPT ![h] = arc[k]] /\ UNCHANGED pools
  \/ /\ arc[k].state = "none" /\ NewPool(k, TRUE)
     /\ arc' = [arc EXCEPT ![k] = Held(Len(pools) + 1), ![h] = Held(Len(pools) + 1)]

\* ServiceRegistry::pool.
GetPool(r, a, h) ==
  /\ r \in live /\ Free(h) /\ PoolForAlpn([alpn |-> a, options |-> options[r]], h)
  /\ UNCHANGED <<options, builder, raced>>

\* A registry is dropped.
DropRegistry(r) ==
  /\ r \in live /\ ~Borrowed(r) /\ options' = Restrict(options, live \ {r})
  /\ UNCHANGED <<pools, arc, builder, raced>>

-----------------------------------------------------------------------------
(* The locator's builder.                                                  *)

Find(r, a, h) ==
  /\ r \in live /\ Free(h)
  /\ LET new == [by |-> r, key |-> [alpn |-> a, options |-> options[r]]]
     IN  builder' = [g \in building \cup {h} |-> IF g = h THEN new ELSE builder[g]]
  /\ UNCHANGED <<options, pools, arc, raced>>

\* timeout_each: the locator's timeout (module Locator), and the pool's for the connect.
TimeoutEach(h, t) ==
  /\ h \in building /\ builder' = [builder EXCEPT ![h].key.options.connect = t]
  /\ UNCHANGED <<options, pools, arc, raced>>

\* pool_options of the builder, which takes the place of the registry's.
BuilderPoolOptions(h, o) ==
  /\ h \in building /\ builder' = [builder EXCEPT ![h].key.options = o]
  /\ UNCHANGED <<options, pools, arc, raced>>

\* start(), and first(), which calls it: the locator's task gets the handle.
StartLocator(h) ==
  /\ h \in building /\ PoolForAlpn(builder[h].key, h)
  /\ builder' = Restrict(builder, building \ {h})
  /\ UNCHANGED <<options, raced>>

\* A builder that is dropped.
DropBuilder(h) ==
  /\ h \in building /\ builder' = Restrict(builder, building \ {h})
  /\ UNCHANGED <<options, pools, arc, raced>>

-----------------------------------------------------------------------------
(* Handles.                                                                *)

\* Locator::spawn, or a user's own ConnectionPool::new and for_service.
OwnPool(k, h) ==
  /\ Free(h) /\ NewPool(k, FALSE) /\ arc' = [arc EXCEPT ![h] = Held(Len(pools) + 1)]
  /\ UNCHANGED <<options, builder, raced>>

\* clone(), as push_attempt does for each attempt.
Clone(h, g) ==
  /\ arc[h].state = "held" /\ Free(g) /\ arc' = [arc EXCEPT ![g] = arc[h]]
  /\ UNCHANGED <<options, pools, builder, raced>>

\* The cache goes with its last registry, one handle after the other.
Droppable(h) ==
  h \in Keys => live = {} /\ \A k \in Keys : arc[k].state # "dropping"

\* Mutant of Last: every dropped handle shuts the pool down.
LastAlways(h) == TRUE

\* Mutant of Last: the count is taken to be without the handle itself.
LastOther(h) == Refs(arc[h].pool) = {}

\* strong_count == 1, read through handle h.
Last(h) == Refs(arc[h].pool) = {h}

\* Drop for ConnectionPool.
DropBegin(h) ==
  LET i == arc[h].pool
  IN  /\ arc[h].state = "held" /\ Droppable(h)
      /\ arc' = [arc EXCEPT ![h].state = "dropping"]
      /\ pools' = [pools EXCEPT ![i].down = @ \/ Last(h)]
      /\ raced' = IF \E g \in Refs(i) : arc[g].state = "dropping" THEN raced \cup {i} ELSE raced
      /\ UNCHANGED <<options, builder>>

\* The Arc itself is dropped.
DropEnd(h) ==
  /\ arc[h].state = "dropping" /\ arc' = [arc EXCEPT ![h] = [pool |-> 0, state |-> "none"]]
  /\ UNCHANGED <<options, pools, builder, raced>>

Next ==
  \/ \E r \in Registries :
       \/ \E q \in Registries : CloneRegistry(r, q)
       \/ \E o \in PoolOptions : WithPoolOptions(r, o)
       \/ \E a \in Alpns, h \in Handles : GetPool(r, a, h) \/ Find(r, a, h)
       \/ DropRegistry(r)
  \/ \E h \in Handles :
       \/ \E t \in Times : TimeoutEach(h, t)
       \/ \E o \in PoolOptions : BuilderPoolOptions(h, o)
       \/ StartLocator(h) \/ DropBuilder(h)
       \/ \E k \in Keys : OwnPool(k, h)
       \/ \E g \in Handles : Clone(h, g)
  \/ \E h \in Arcs : DropBegin(h) \/ DropEnd(h)

Spec == Init /\ [][Next]_vars

-----------------------------------------------------------------------------
(* Properties.                                                             *)

\* Every variable has its type; a handle that exists is one of a pool that exists, and
\* a builder that exists is one of a registry that exists.
TypeOK ==
  /\ live \subseteq Registries /\ options \in [live -> PoolOptions]
  /\ pools \in Seq(Pool) /\ arc \in [Arcs -> Arc]
  /\ building \subseteq Handles /\ builder \in [building -> Builder]
  /\ raced \subseteq Nat
  /\ \A h \in Arcs : arc[h].state # "none" => arc[h].pool \in DOMAIN pools
  /\ \A h \in building : builder[h].by \in live

\* The registry makes one pool for a service and its options, whichever clone is
\* asked, by pool() or by find(), and however the options changed in between.
OnePoolPerKey ==
  \A i, j \in DOMAIN pools :
    pools[i].cached /\ pools[j].cached /\ pools[i].key = pools[j].key => i = j

\* No handle that somebody can still use belongs to a pool that was shut down: the
\* test of strong_count in Drop never errs on that side, whatever is cloned and
\* dropped by other threads between the test and the decrement.
LiveNotDown ==
  \A h \in Arcs : arc[h].state = "held" => ~pools[arc[h].pool].down

\* The pool of the last handle is shut down, unless two of its handles were being
\* dropped at the same time: then each may see the other, and neither does it.
DownAtLast ==
  \A i \in DOMAIN pools : Refs(i) = {} => pools[i].down \/ i \in raced
=============================================================================
