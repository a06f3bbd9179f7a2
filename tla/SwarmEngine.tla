---------------------------- MODULE SwarmEngine ----------------------------
(***************************************************************************)
(* The peer stream of src/swarm/engine.rs: the feeds of every discovery    *)
(* backend whose scope applies, merged by SelectAll, without the local     *)
(* endpoint and without repetitions.  Its one operation is poll_next,      *)
(* which the locator calls; each turn of its loop is a step here, and      *)
(* between turns any feed may be pending.                                  *)
(***************************************************************************)
EXTENDS Naturals, Sequences, FiniteSets

CONSTANTS
  Peers,      \* remote EndpointIds
  Local,      \* local_id
  Fault,      \* an Err item of a feed
  Feeds,      \* the feeds the backends return
  FeedLists,  \* the items a feed may yield: a set of sequences over Item
  Alpn,       \* the service looked for
  Scopes      \* the scopes of feeds: "Any" or an ALPN

Item == Peers \cup {Local, Fault}

ASSUME ItemAssumption ==
  /\ Local \notin Peers /\ Fault \notin Peers /\ Local # Fault
  /\ FeedLists \subseteq Seq(Item)

VARIABLES
  feeds,    \* what each feed will still yield
  scope,    \* each feed's scope
  endless,  \* feeds that never end (mDNS, peer exchange, DHT polling)
  seen      \* SwarmEngine.seen

engineVars == <<feeds, scope, endless, seen>>

ScopeMatches(f) == scope[f] = "Any" \/ scope[f] = Alpn

\* SwarmEngine::new keeps the feeds whose scope matches.
Merged == {f \in Feeds : ScopeMatches(f)}

EngineInit ==
  /\ feeds \in [Feeds -> FeedLists] /\ scope \in [Feeds -> Scopes]
  /\ endless \in SUBSET Feeds /\ seen = {}

\* Mutant of Skipped: nothing is remembered.
SkippedLocalOnly(x) == x = Local

Skipped(x) == x = Local \/ x \in seen

Take(f) == f \in Merged /\ feeds[f] # <<>> /\ feeds' = [feeds EXCEPT ![f] = Tail(@)]

\* A turn of the loop that goes round again.
Skip(f) ==
  /\ Take(f) /\ Skipped(Head(feeds[f]))
  /\ UNCHANGED <<scope, endless, seen>>

\* poll_next returns a new peer.
YieldPeer(f, p) ==
  /\ Take(f) /\ p = Head(feeds[f]) /\ p # Fault /\ ~Skipped(p)
  /\ seen' = seen \cup {p}
  /\ UNCHANGED <<scope, endless>>

\* poll_next returns a feed's error.
YieldFault(f) ==
  /\ Take(f) /\ Head(feeds[f]) = Fault
  /\ UNCHANGED <<scope, endless, seen>>

\* poll_next returns None: SelectAll has dropped every feed.
Exhausted == \A f \in Merged : feeds[f] = <<>> /\ f \notin endless

\* The remote peers that the feeds that apply have left to offer.
Offered == (UNION {{feeds[f][i] : i \in 1 .. Len(feeds[f])} : f \in Merged}) \cap Peers
=============================================================================
