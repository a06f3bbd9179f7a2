-------------------------- MODULE DiscoveryProofs ---------------------------
(***************************************************************************)
(* Proofs about discovery, in two independent parts.                       *)
(*                                                                         *)
(* Backends, for any streams, services, peers, groups and capacity of the  *)
(* broadcast channel: where a yielded peer comes from, and what a slow     *)
(* stream may lose.                                                        *)
(*                                                                         *)
(* DhtFeed, for any length of a minute, intervals, shards, replicas and    *)
(* durations of the DHT's operations that meet TimesAssumption: publisher  *)
(* and feed meet within two minutes and a pass, and the burst finds what   *)
(* lasts.  The operators of DhtFeed's specification have names of their    *)
(* own (FeedInit, FeedNext, FeedSpec).                                     *)
(***************************************************************************)
EXTENDS Backends, DhtFeed, FiniteSetTheorems, TLAPS

\* The receiver is between the place where it was subscribed and the end.
PlaceOK(st) ==
  /\ st.since <= st.next /\ st.next <= Len(sent) + 1
  /\ st.alpn # "none" => st.since >= 1
  /\ st.since = 0 => st.next = 0

\* What was lost is behind the receiver, and more than a channel's length behind the
\* end: strengthens the first half of NewestKept.
LostOK(st) == \A i \in st.lost : i < st.next /\ i + Capacity <= Len(sent)

\* The second half of NewestKept.
PassedOn(st) ==
  \A i \in Nat : st.since <= i /\ i < st.next /\ i \notin st.lost => st.seen[sent[i]] # "none"

\* The static peers still to come are of a group for the service.
StaticOK(st) ==
  \A p \in st.static : \E spec \in Specs : p \in spec.peers /\ spec.scope \in {"Any", st.alpn}

\* Provenance of one stream.  An announcement that was passed on is behind the
\* receiver, so that no later gap covers it.
SeenOK(st) ==
  \A p \in Peers :
    /\ st.seen[p] = "static" =>
         \E spec \in Specs : p \in spec.peers /\ spec.scope \in {"Any", st.alpn}
    /\ st.seen[p] = "mdns" => userData[p] # Missing /\ st.alpn \in userData[p]
    /\ st.seen[p] = "peer-exchange" =>
         \E i \in Nat : /\ st.since <= i /\ i < st.next /\ i >= 1
                        /\ sent[i] = p /\ i \notin st.lost

StreamOK(st) ==
  st \in Stream /\ PlaceOK(st) /\ LostOK(st) /\ PassedOn(st) /\ StaticOK(st) /\ SeenOK(st)

IInv ==
  /\ userData \in UserData /\ sent \in Seq(Peers)
  /\ stream \in [Streams -> Stream]
  /\ \A s \in Streams : StreamOK(stream[s])

-----------------------------------------------------------------------------
\* A stream that does not exist satisfies the invariant trivially.
LEMMA NoStreamOK == sent \in Seq(Peers) => StreamOK(NoStream)
BY BackendAssumption DEF StreamOK, Stream, PlaceOK, LostOK, PassedOn, StaticOK, SeenOK, NoStream, Sources

\* A step of one stream preserves the invariant if what it makes of it is right.
LEMMA OneStream ==
  ASSUME IInv, NEW s \in Streams, NEW st, StreamOK(st),
         stream' = [stream EXCEPT ![s] = st], UNCHANGED <<userData, sent>>
  PROVE  IInv'
<1>1. stream' \in [Streams -> Stream]
  BY DEF IInv, StreamOK
<1>2. \A t \in Streams : stream'[t] = IF t = s THEN st ELSE stream[t]
  BY DEF IInv
<1>3. \A t \in Streams : StreamOK(stream'[t])
  BY <1>2 DEF IInv
<1>4. (\A t \in Streams : StreamOK(stream[t]))'
  BY <1>3 DEF StreamOK, PlaceOK, LostOK, PassedOn, StaticOK, SeenOK
<1>5. QED BY <1>1, <1>4 DEF IInv

\* build_feeds.
LEMMA FeedsStep ==
  ASSUME IInv, NEW s \in Streams, NEW a \in Alpns, Feeds(s, a)
  PROVE  IInv'
<1> DEFINE st == [alpn |-> a, static |-> StaticPeers(a), since |-> Subscribe,
                  next |-> Subscribe, lost |-> {}, seen |-> [p \in Peers |-> "none"]]
<1>1. Subscribe = Len(sent) + 1 /\ Len(sent) \in Nat
  BY DEF IInv, Subscribe
<1>2. /\ st.alpn = a /\ st.static = StaticPeers(a) /\ st.since = Subscribe
      /\ st.next = Subscribe /\ st.lost = {} /\ st.seen = [p \in Peers |-> "none"]
  OBVIOUS
<1>3. StaticPeers(a) \subseteq Peers /\ StaticOK(st)
  BY <1>2, BackendAssumption DEF StaticPeers, StaticSpec, ScopeMatches, StaticOK
<1>4. st \in Stream
  BY <1>1, <1>3 DEF Stream
<1>5. PlaceOK(st) /\ LostOK(st) /\ PassedOn(st) /\ SeenOK(st)
  BY <1>1, <1>2 DEF PlaceOK, LostOK, PassedOn, SeenOK
<1>6. QED BY <1>3, <1>4, <1>5, OneStream DEF Feeds, StreamOK

\* What Yield does to the record of peers.
LEMMA Yielded ==
  ASSUME NEW st \in Stream, NEW p \in Peers, NEW source \in Sources
  PROVE  /\ Yield(st, p, source) \in Stream
         /\ Yield(st, p, source).alpn = st.alpn /\ Yield(st, p, source).static = st.static
         /\ Yield(st, p, source).since = st.since /\ Yield(st, p, source).next = st.next
         /\ Yield(st, p, source).lost = st.lost
         /\ \A q \in Peers : Yield(st, p, source).seen[q] =
              IF q = p /\ st.seen[p] = "none" THEN source ELSE st.seen[q]
BY DEF Yield, Stream

\* A peer that is yielded keeps the invariant if its source vouches for it.
LEMMA YieldOK ==
  ASSUME IInv, NEW st, StreamOK(st), NEW p \in Peers, NEW source \in Sources,
         source = "static" =>
           \E spec \in Specs : p \in spec.peers /\ spec.scope \in {"Any", st.alpn},
         source = "mdns" => userData[p] # Missing /\ st.alpn \in userData[p],
         source = "peer-exchange" =>
           \E i \in Nat : /\ st.since <= i /\ i < st.next /\ i >= 1
                          /\ sent[i] = p /\ i \notin st.lost
  PROVE  StreamOK(Yield(st, p, source))
<1> DEFINE y == Yield(st, p, source)
<1>1. /\ y \in Stream /\ y.alpn = st.alpn /\ y.static = st.static /\ y.since = st.since
      /\ y.next = st.next /\ y.lost = st.lost
      /\ \A q \in Peers : y.seen[q] = IF q = p /\ st.seen[p] = "none" THEN source ELSE st.seen[q]
  BY Yielded DEF StreamOK
<1> HIDE DEF y
<1>2. PlaceOK(y) /\ LostOK(y) /\ StaticOK(y)
  BY <1>1 DEF StreamOK, PlaceOK, LostOK, StaticOK
<1>3. PassedOn(y)
  <2> SUFFICES ASSUME NEW i \in Nat, st.since <= i, i < st.next, i \notin st.lost
               PROVE  y.seen[sent[i]] # "none"
    BY <1>1 DEF PassedOn
  <2>1. st.seen[sent[i]] # "none"
    BY DEF StreamOK, PassedOn
  <2>2. sent[i] \in Peers
    BY DEF IInv, StreamOK, PlaceOK, Stream
  <2>3. QED BY <2>1, <2>2, <1>1 DEF Sources
<1>4. SeenOK(y)
  <2> SUFFICES ASSUME NEW q \in Peers
               PROVE  /\ y.seen[q] = "static" => \E spec \in Specs :
                           q \in spec.peers /\ spec.scope \in {"Any", st.alpn}
                      /\ y.seen[q] = "mdns" => userData[q] # Missing /\ st.alpn \in userData[q]
                      /\ y.seen[q] = "peer-exchange" =>
                           \E i \in Nat : /\ st.since <= i /\ i < st.next /\ i >= 1
                                          /\ sent[i] = q /\ i \notin st.lost
    BY <1>1 DEF SeenOK
  <2>1. CASE q = p /\ st.seen[p] = "none"
    <3>1. y.seen[q] = source
      BY <1>1, <2>1
    <3>2. QED BY <2>1, <3>1
  <2>2. CASE ~(q = p /\ st.seen[p] = "none")
    <3>1. y.seen[q] = st.seen[q]
      BY <1>1, <2>2
    <3>2. QED BY <3>1 DEF StreamOK, SeenOK
  <2>3. QED BY <2>1, <2>2
<1>5. QED BY <1>1, <1>2, <1>3, <1>4 DEF StreamOK, y

\* static_feed.
LEMMA StaticStep ==
  ASSUME IInv, NEW s \in Streams, NEW p \in Peers, StaticNext(s, p)
  PROVE  IInv'
<1> DEFINE st == [stream[s] EXCEPT !.static = @ \ {p}]
<1>1. StreamOK(stream[s]) /\ stream[s] \in Stream
  BY DEF IInv, StreamOK
<1>2. /\ st \in Stream /\ st.alpn = stream[s].alpn /\ st.static = stream[s].static \ {p}
      /\ st.since = stream[s].since /\ st.next = stream[s].next
      /\ st.lost = stream[s].lost /\ st.seen = stream[s].seen
  BY <1>1 DEF Stream
<1>3. StreamOK(st)
  <2> HIDE DEF st
  <2>1. QED BY <1>1, <1>2 DEF StreamOK, PlaceOK, LostOK, PassedOn, StaticOK, SeenOK
<1>4. \E spec \in Specs : p \in spec.peers /\ spec.scope \in {"Any", st.alpn}
  BY <1>1, <1>2 DEF StaticNext, StreamOK, StaticOK
<1>5. StreamOK(Yield(st, p, "static"))
  <2> HIDE DEF st
  <2>1. QED BY <1>3, <1>4, YieldOK DEF Sources
<1>6. stream' = [stream EXCEPT ![s] = Yield(st, p, "static")]
  BY DEF StaticNext
<1>7. QED BY <1>5, <1>6, OneStream DEF StaticNext

\* mdns_feed: only a match is yielded.
LEMMA MdnsStep ==
  ASSUME IInv, NEW s \in Streams, NEW p \in Peers, MdnsEvent(s, p)
  PROVE  IInv'
<1>1. StreamOK(stream[s])
  BY DEF IInv
<1>2. userData[p] # Missing /\ stream[s].alpn \in userData[p]
  BY DEF MdnsEvent, Classify
<1>3. StreamOK(Yield(stream[s], p, "mdns"))
  BY <1>1, <1>2, YieldOK DEF Sources
<1>4. QED BY <1>3, OneStream DEF MdnsEvent

\* peer_exchange_feed: the receiver moves past the item it yields.
LEMMA ReceiveStep ==
  ASSUME IInv, NEW s \in Streams, Receive(s)
  PROVE  IInv'
<1> DEFINE st == stream[s]
           m == [st EXCEPT !.next = @ + 1]
           p == sent[st.next]
<1>1. StreamOK(st) /\ st \in Stream
  BY DEF IInv, StreamOK
<1>2. /\ st.next >= 1 /\ st.next <= Len(sent) /\ st.since <= st.next
      /\ st.next \in Nat /\ st.since \in Nat /\ Len(sent) \in Nat
  BY <1>1 DEF Receive, Live, IInv, StreamOK, PlaceOK, Stream
<1>3. p \in Peers /\ st.next \notin st.lost
  BY <1>1, <1>2 DEF IInv, StreamOK, LostOK
<1>4. /\ m \in Stream /\ m.alpn = st.alpn /\ m.static = st.static /\ m.since = st.since
      /\ m.next = st.next + 1 /\ m.lost = st.lost /\ m.seen = st.seen
  BY <1>1 DEF Stream
<1> DEFINE y == Yield(m, p, "peer-exchange")
<1>5. /\ y \in Stream /\ y.alpn = st.alpn /\ y.static = st.static /\ y.since = st.since
      /\ y.next = st.next + 1 /\ y.lost = st.lost
      /\ \A q \in Peers : y.seen[q] =
           IF q = p /\ st.seen[p] = "none" THEN "peer-exchange" ELSE st.seen[q]
  <2>1. "peer-exchange" \in Sources
    BY DEF Sources
  <2> HIDE DEF m, p, st
  <2>2. QED BY <1>3, <1>4, <2>1, Yielded
<1>6. stream' = [stream EXCEPT ![s] = y]
  BY DEF Receive
<1> HIDE DEF st, m, y
<1>7. PlaceOK(y) /\ StaticOK(y)
  BY <1>1, <1>2, <1>5 DEF StreamOK, PlaceOK, StaticOK
<1>8. LostOK(y)
  BY <1>1, <1>2, <1>5 DEF StreamOK, LostOK, Stream
<1>9. PassedOn(y)
  <2> SUFFICES ASSUME NEW i \in Nat, st.since <= i, i < st.next + 1, i \notin st.lost
               PROVE  y.seen[sent[i]] # "none"
    BY <1>5 DEF PassedOn
  <2>1. CASE i = st.next
    BY <2>1, <1>3, <1>5
  <2>2. CASE i < st.next
    <3>1. st.seen[sent[i]] # "none"
      BY <2>2, <1>1 DEF StreamOK, PassedOn
    <3>2. sent[i] \in Peers
      BY <2>2, <1>1, <1>2 DEF IInv, StreamOK, PlaceOK
    <3>3. QED BY <3>1, <3>2, <1>5
  <2>3. QED BY <2>1, <2>2, <1>2
<1>10. SeenOK(y)
  <2> SUFFICES ASSUME NEW q \in Peers
               PROVE  /\ y.seen[q] = "static" => \E spec \in Specs :
                           q \in spec.peers /\ spec.scope \in {"Any", st.alpn}
                      /\ y.seen[q] = "mdns" => userData[q] # Missing /\ st.alpn \in userData[q]
                      /\ y.seen[q] = "peer-exchange" =>
                           \E i \in Nat : /\ st.since <= i /\ i < st.next + 1 /\ i >= 1
                                          /\ sent[i] = q /\ i \notin st.lost
    BY <1>5 DEF SeenOK
  <2>1. CASE q = p /\ st.seen[p] = "none"
    <3>1. y.seen[q] = "peer-exchange"
      BY <1>5, <2>1
    <3>2. QED BY <2>1, <3>1, <1>2, <1>3
  <2>2. CASE ~(q = p /\ st.seen[p] = "none")
    <3>1. y.seen[q] = st.seen[q]
      BY <1>5, <2>2
    <3>2. QED BY <3>1, <1>1, <1>2 DEF StreamOK, SeenOK
  <2>3. QED BY <2>1, <2>2
<1>11. StreamOK(y)
  BY <1>5, <1>7, <1>8, <1>9, <1>10 DEF StreamOK
<1>12. QED BY <1>6, <1>11, OneStream DEF Receive

\* The gap lies between the receiver and the oldest item that is left, so that nothing
\* that was passed on is in it and the last Capacity items are not.
LEMMA LaggedStep ==
  ASSUME IInv, NEW s \in Streams, Lagged(s)
  PROVE  IInv'
<1> DEFINE st == stream[s]
           oldest == Len(sent) - Capacity + 1
           y == [st EXCEPT !.next = oldest, !.lost = @ \cup (st.next .. oldest - 1)]
<1>1. StreamOK(st) /\ st \in Stream
  BY DEF IInv, StreamOK
<1>2. /\ oldest \in Nat /\ st.next < oldest /\ oldest <= Len(sent) /\ Len(sent) \in Nat
      /\ st.next \in Nat /\ st.since \in Nat /\ st.since <= st.next /\ Capacity \in Nat
      /\ st.next >= 1
  BY <1>1, BackendAssumption DEF Lagged, Lags, Live, IInv, StreamOK, PlaceOK, Stream
<1>3. /\ y.alpn = st.alpn /\ y.static = st.static /\ y.since = st.since
      /\ y.next = oldest /\ y.lost = st.lost \cup (st.next .. oldest - 1) /\ y.seen = st.seen
  BY <1>1 DEF Stream
<1>4. y \in Stream
  <2>1. st.lost \cup (st.next .. oldest - 1) \in SUBSET Nat
    BY <1>1, <1>2 DEF Stream
  <2> HIDE DEF oldest, st
  <2>2. QED BY <1>1, <1>2, <2>1 DEF Stream
<1>5. stream' = [stream EXCEPT ![s] = y]
  BY <1>1 DEF Lagged, IInv, Stream
<1> HIDE DEF st, y
<1>6. PlaceOK(y) /\ StaticOK(y)
  BY <1>1, <1>2, <1>3 DEF StreamOK, PlaceOK, StaticOK
<1>7. LostOK(y)
  BY <1>1, <1>2, <1>3 DEF StreamOK, LostOK, Stream
<1>8. PassedOn(y)
  BY <1>1, <1>2, <1>3 DEF StreamOK, PassedOn
<1>9. SeenOK(y)
  BY <1>1, <1>2, <1>3 DEF StreamOK, SeenOK
<1>10. QED BY <1>4, <1>5, <1>6, <1>7, <1>8, <1>9, OneStream DEF StreamOK, Lagged

\* ingest_peers adds at the end: what streams have done with earlier items stays.
LEMMA IngestStep ==
  ASSUME IInv, NEW p \in Peers, Ingest(p)
  PROVE  IInv'
<1>1. /\ sent' \in Seq(Peers) /\ Len(sent') \in Nat /\ Len(sent) \in Nat /\ Len(sent) <= Len(sent')
      /\ \A i \in 1 .. Len(sent) : sent'[i] = sent[i]
  BY DEF Ingest, IInv
<1>2. ASSUME NEW s \in Streams PROVE StreamOK(stream[s])'
  <2>1. /\ StreamOK(stream[s]) /\ stream[s] \in Stream
        /\ stream' = stream /\ userData' = userData
    BY DEF IInv, Ingest, StreamOK
  <2>2. /\ stream[s].since \in Nat /\ stream[s].next \in Nat /\ stream[s].lost \subseteq Nat
        /\ \A i \in Nat : stream[s].since <= i /\ i < stream[s].next => i \in 1 .. Len(sent)
    BY <2>1, <1>1 DEF StreamOK, PlaceOK, Stream
  <2>3. PlaceOK(stream[s])' /\ LostOK(stream[s])' /\ StaticOK(stream[s])'
    BY <2>1, <2>2, <1>1, BackendAssumption DEF StreamOK, PlaceOK, LostOK, StaticOK
  <2>4. PassedOn(stream[s])'
    BY <2>1, <2>2, <1>1 DEF StreamOK, PassedOn
  <2>5. SeenOK(stream[s])'
    BY <2>1, <2>2, <1>1 DEF StreamOK, SeenOK
  <2>6. QED BY <2>1, <2>3, <2>4, <2>5 DEF StreamOK
<1>3. QED BY <1>1, <1>2 DEF IInv, Ingest

-----------------------------------------------------------------------------
\* No stream exists at first.
LEMMA InitIInv == Init => IInv
BY NoStreamOK DEF Init, IInv, StreamOK

\* Every operation of Backends preserves the invariant.
LEMMA NextIInv == IInv /\ [Next]_vars => IInv'
<1> SUFFICES ASSUME IInv, [Next]_vars PROVE IInv'
  OBVIOUS
<1>1. ASSUME NEW s \in Streams, NEW a \in Alpns, Feeds(s, a) PROVE IInv'
  BY <1>1, FeedsStep
<1>2. ASSUME NEW s \in Streams, NEW p \in Peers, StaticNext(s, p) PROVE IInv'
  BY <1>2, StaticStep
<1>3. ASSUME NEW s \in Streams, NEW p \in Peers, MdnsEvent(s, p) PROVE IInv'
  BY <1>3, MdnsStep
<1>4. ASSUME NEW s \in Streams, Receive(s) PROVE IInv'
  BY <1>4, ReceiveStep
<1>5. ASSUME NEW s \in Streams, Lagged(s) PROVE IInv'
  BY <1>5, LaggedStep
<1>6. ASSUME NEW s \in Streams, DropStream(s) PROVE IInv'
  <2>1. StreamOK(NoStream)
    BY NoStreamOK DEF IInv
  <2>2. QED BY <1>6, <2>1, OneStream DEF DropStream
<1>7. ASSUME NEW p \in Peers, Ingest(p) PROVE IInv'
  BY <1>7, IngestStep
<1>8. CASE UNCHANGED vars
  BY <1>8 DEF vars, IInv, StreamOK, PlaceOK, LostOK, PassedOn, StaticOK, SeenOK
<1>9. QED BY <1>1, <1>2, <1>3, <1>4, <1>5, <1>6, <1>7, <1>8 DEF Next

\* The inductive invariant holds throughout.
LEMMA InvariantIInv == Spec => []IInv
BY InitIInv, NextIInv, PTL DEF Spec

\* The types of Backends; a receiver stays between its subscription and the end.
THEOREM TypeCorrect == Spec => []TypeOK
<1>1. IInv => TypeOK
  <2> SUFFICES ASSUME IInv, NEW s \in Streams
               PROVE  stream[s].next \in stream[s].since .. Len(sent) + 1
    BY DEF IInv, TypeOK
  <2>1. PlaceOK(stream[s]) /\ stream[s] \in Stream /\ Len(sent) \in Nat
    BY DEF IInv, StreamOK
  <2>2. QED BY <2>1 DEF PlaceOK, Stream
<1>2. QED BY <1>1, InvariantIInv, PTL

\* A peer is yielded only with a source that vouches for it (the feeds of
\* swarm/peers.rs and the classification of mDNS user data), for any groups, user data
\* and order of announcements.
THEOREM SourceVouches == Spec => []Provenance
<1>1. IInv => Provenance
  <2> SUFFICES ASSUME IInv, NEW s \in Streams, NEW p \in Peers
               PROVE  /\ stream[s].seen[p] = "static" =>
                           \E spec \in Specs : p \in spec.peers /\ spec.scope \in {"Any", stream[s].alpn}
                      /\ stream[s].seen[p] = "mdns" =>
                           userData[p] # Missing /\ stream[s].alpn \in userData[p]
                      /\ stream[s].seen[p] = "peer-exchange" =>
                           \E i \in stream[s].since .. Len(sent) : sent[i] = p /\ i \notin stream[s].lost
    BY DEF Provenance
  <2>1. SeenOK(stream[s]) /\ PlaceOK(stream[s]) /\ stream[s] \in Stream /\ Len(sent) \in Nat
    BY DEF IInv, StreamOK
  <2>2. QED BY <2>1 DEF SeenOK, PlaceOK, Stream
<1>2. QED BY <1>1, InvariantIInv, PTL

\* Whatever the capacity of the broadcast channel, a slow stream of peer_exchange_feed
\* loses only announcements with Capacity later ones, and everything else that is
\* behind it has been passed on.
THEOREM OnlyOldestLost == Spec => []NewestKept
<1>1. IInv => NewestKept
  <2> SUFFICES ASSUME IInv, NEW s \in Streams
               PROVE  /\ \A i \in stream[s].lost : i + Capacity <= Len(sent)
                      /\ \A i \in (stream[s].since .. stream[s].next - 1) \ stream[s].lost :
                           stream[s].seen[sent[i]] # "none"
    BY DEF NewestKept
  <2>1. LostOK(stream[s]) /\ PassedOn(stream[s]) /\ stream[s] \in Stream
    BY DEF IInv, StreamOK
  <2>2. QED BY <2>1 DEF LostOK, PassedOn, Stream
<1>2. QED BY <1>1, InvariantIInv, PTL

-----------------------------------------------------------------------------
(* The DHT feed: the inductive invariant.                                  *)

DhtAd == [shard : Shards, minute : Nat, at : Nat]

\* The types of DhtFeed's variables.
FeedTypes ==
  /\ now \in Nat /\ ads \in SUBSET DhtAd /\ found \in BOOLEAN
  /\ plan \in [publish : PublishIntervals, poll : PollIntervals, shards : SUBSET Shards]
  /\ Cardinality(plan.shards) = Replicas
  /\ pub \in [pc : {"off", "putting", "idle", "stopped"}, todo : SUBSET Shards, at : Nat,
              next : Nat \cup {Never}]
  /\ feed \in [pc : {"off", "burst", "wait", "poll"}, offset : {0, 0 - 1}, minute : Nat,
               todo : SUBSET Shards, by : Nat, next : Nat]
  /\ since \in [pub : Nat \cup {Never}, feed : Nat \cup {Never}, turned : BOOLEAN,
                known : SUBSET Nat]

\* An ad is in the bucket of the minute in which it was made.
AdsOK == \A a \in ads : a.minute = MinuteOf(a.at) /\ a.at <= now

\* The bucket of minute m has an ad.
Has(m) == \E a \in ads : a.minute = m

\* The ticks that are left to a round when some shards are done.
Spent(todo) == (Replicas - Cardinality(todo)) * PutTime

\* When the last round was due; the end of the first round counts as one.
Round == pub.next - plan.publish

\* A round is in time: it began when it was due, each of its puts takes its time at
\* most, and all of them are over before the next round is due.
PubOK ==
  /\ pub.next = Never <=> since.pub = Never
  /\ since.pub # Never => since.pub <= Round
  /\ pub.pc = "off" => since.pub = Never
  /\ pub.pc = "putting" =>
       /\ pub.todo # {} /\ pub.todo \subseteq plan.shards
       /\ pub.at <= now /\ now <= pub.at + PutTime /\ \A a \in ads : a.at <= pub.at
       /\ pub.next # Never =>
            /\ since.pub < Round /\ Round <= pub.at /\ pub.at <= Round + Spent(pub.todo)
            /\ pub.todo = plan.shards => pub.at = Round
            /\ pub.todo # plan.shards => Has(MinuteOf(Round))
  /\ pub.pc = "idle" =>
       /\ pub.next # Never /\ now <= pub.next
       /\ since.pub < Round => Has(MinuteOf(Round))

\* Every minute that began after the first round gets an ad in its first round.
MinutesCovered ==
  RoomInMinute /\ pub.pc # "stopped" /\ since.pub # Never =>
    \A m \in Nat : since.pub < m * Minute /\ m * Minute + plan.publish <= Round => Has(m)

\* When the feed's last pass began.
Began == feed.by - PassTime

\* A pass takes its time at most, and the next one is due an interval after it at the
\* latest; in between the feed waits for it, or was late and does not wait.
FeedOK ==
  /\ feed.pc = "off" <=> since.feed = Never
  /\ feed.pc # "off" =>
       /\ since.feed <= Began /\ Began <= now /\ feed.next <= Began + plan.poll
  /\ feed.pc \in {"burst", "poll"} => now <= feed.by
  /\ feed.pc = "wait" => now <= feed.by \/ now <= feed.next
  /\ feed.pc = "burst" /\ feed.offset = 0 =>
       Began = since.feed /\ feed.minute = MinuteOf(since.feed)
  /\ feed.pc = "burst" => Began <= since.feed + PassTime
  /\ feed.pc = "poll" => feed.minute = MinuteOf(Began)

\* From when on minute m certainly has an ad.
CoveredBy(m) == m * Minute + plan.publish + Replicas * PutTime

\* The pass has yet to ask a shard that has an ad of minute m.
Pending(m) == \E a \in ads : a.minute = m /\ a.shard \in feed.todo

\* The feed passes no minute by: until it has found the peer its last pass began before
\* the minute's ad was certain, or it goes on and will come to the ad.
NotPassed(m) ==
  \/ found
  \/ feed.pc \in {"burst", "wait"} /\ Began < CoveredBy(m)
  \/ /\ feed.pc = "poll" /\ Began < CoveredBy(m) + plan.poll
     /\ Began >= CoveredBy(m) => Pending(m)

NonePassed ==
  RoomInMinute /\ pub.pc # "stopped" /\ since.pub # Never /\ since.feed # Never =>
    \A m \in Nat : since.pub < m * Minute /\ since.feed + 2 * PassTime < m * Minute => NotPassed(m)

\* An ad of minute m that does not expire during the burst, in one of the shards S.
Lasting(m, S) ==
  \E a \in ads : a.minute = m /\ a.shard \in S /\ a.at + TTL > since.feed + 2 * PassTime

\* What the burst has found or will come to.
BurstOK ==
  /\ feed.pc = "burst" /\ feed.offset = 0 =>
       /\ \A m \in since.known : Lasting(m, Shards)
       /\ feed.minute \in since.known => found \/ Lasting(feed.minute, feed.todo)
  /\ feed.pc = "burst" /\ feed.offset # 0 =>
       /\ MinuteOf(since.feed) \in since.known => found
       /\ ~since.turned /\ MinuteOf(since.feed) - 1 \in since.known =>
            /\ feed.minute = MinuteOf(since.feed) - 1
            /\ found \/ Lasting(feed.minute, feed.todo)
  /\ BurstCovers

FeedInv ==
  FeedTypes /\ AdsOK /\ PubOK /\ MinutesCovered /\ FeedOK /\ NonePassed /\ BurstOK

-----------------------------------------------------------------------------
(* Arithmetic.                                                             *)

\* The minute of a time.
LEMMA MinuteBounds ==
  ASSUME NEW t \in Nat
  PROVE  /\ MinuteOf(t) \in Nat
         /\ MinuteOf(t) * Minute <= t /\ t < MinuteOf(t) * Minute + Minute
<1>1. Minute \in Nat \ {0}
  BY TimesAssumption
<1>2. QED
  BY <1>1, Z3 DEF MinuteOf

\* A time is in one minute only.
LEMMA MinuteUnique ==
  ASSUME NEW t \in Nat, NEW m \in Nat, m * Minute <= t, t < m * Minute + Minute
  PROVE  MinuteOf(t) = m
<1> DEFINE q == MinuteOf(t)
<1>1. Minute \in Nat /\ Minute > 0
  BY TimesAssumption
<1>2. q \in Nat /\ q * Minute <= t /\ t < q * Minute + Minute
  BY MinuteBounds
<1> HIDE DEF q
<1>3. ASSUME q < m PROVE FALSE
  <2>1. PICK d \in Nat : m = q + 1 + d
    <3>1. m - q - 1 \in Nat /\ m = q + 1 + (m - q - 1)
      BY <1>2, <1>3
    <3>2. QED
      BY <3>1
  <2>2. m * Minute = q * Minute + Minute + d * Minute
    BY <1>1, <1>2, <2>1
  <2>3. d * Minute >= 0
    BY <1>1, <2>1
  <2>4. QED
    BY <1>1, <1>2, <2>2, <2>3
<1>4. ASSUME m < q PROVE FALSE
  <2>1. PICK d \in Nat : q = m + 1 + d
    <3>1. q - m - 1 \in Nat /\ q = m + 1 + (q - m - 1)
      BY <1>2, <1>4
    <3>2. QED
      BY <3>1
  <2>2. q * Minute = m * Minute + Minute + d * Minute
    BY <1>1, <1>2, <2>1
  <2>3. d * Minute >= 0
    BY <1>1, <2>1
  <2>4. QED
    BY <1>1, <1>2, <2>2, <2>3
<1>5. q = m
  BY <1>2, <1>3, <1>4
<1>6. QED
  BY <1>5 DEF q

\* A product of a minute's number is a time.
LEMMA MinuteStart ==
  ASSUME NEW m \in Nat
  PROVE  m * Minute \in Nat /\ (m + 1) * Minute = m * Minute + Minute
BY TimesAssumption

\* How long a round takes.
LEMMA RoundTime ==
  /\ Replicas * PutTime \in Nat
  /\ \A i \in PublishIntervals : Replicas * PutTime < i
<1>1. Cardinality(Shards) \in Nat
  BY FS_CardinalityType, TimesAssumption
<1>2. QED
  BY <1>1, TimesAssumption

\* With each put a round has spent one PutTime more, and it has spent Replicas of
\* them when all are done.
LEMMA SpentSteps ==
  ASSUME NEW S \in SUBSET Shards, Cardinality(S) = Replicas, NEW todo \in SUBSET S
  PROVE  /\ Spent(todo) \in Int
         /\ todo = S => Spent(todo) = 0
         /\ \A s \in todo : Spent(todo \ {s}) = Spent(todo) + PutTime
         /\ todo # {} => Spent(todo) + PutTime <= Replicas * PutTime
<1>1. IsFiniteSet(Shards) /\ IsFiniteSet(S) /\ IsFiniteSet(todo)
  BY FS_Subset, TimesAssumption
<1>2. PICK c \in Nat : c = Cardinality(todo)
  BY <1>1, FS_CardinalityType
<1>3. Replicas \in Nat /\ PutTime \in Nat
  BY <1>1, FS_CardinalityType, TimesAssumption
<1>4. ASSUME NEW s \in todo PROVE Cardinality(todo \ {s}) = c - 1
  BY <1>1, <1>2, FS_RemoveElement
<1>5. todo # {} => c >= 1
  <2>1. todo # {} => Cardinality(todo) # 0
    BY <1>1, FS_EmptySet
  <2>2. QED
    BY <1>2, <2>1
<1>6. Spent(todo) = (Replicas - c) * PutTime
  BY <1>2 DEF Spent
<1>7. (Replicas - c) * PutTime \in Int
  BY <1>2, <1>3
<1>8. ASSUME NEW s \in todo PROVE Spent(todo \ {s}) = Spent(todo) + PutTime
  <2>1. Spent(todo \ {s}) = (Replicas - (c - 1)) * PutTime
    BY <1>4 DEF Spent
  <2>2. (Replicas - (c - 1)) * PutTime = (Replicas - c) * PutTime + PutTime
    BY <1>2, <1>3
  <2>3. QED
    BY <1>6, <2>1, <2>2
<1>9. ASSUME todo # {} PROVE Spent(todo) + PutTime <= Replicas * PutTime
  <2>1. PICK d \in Nat : c = 1 + d
    <3>1. c - 1 \in Nat /\ c = 1 + (c - 1)
      BY <1>2, <1>5, <1>9
    <3>2. QED
      BY <3>1
  <2>2. (Replicas - c) * PutTime + PutTime = Replicas * PutTime - d * PutTime
    BY <1>3, <2>1
  <2>3. d * PutTime \in Nat /\ Replicas * PutTime \in Nat
    BY <1>3, <2>1
  <2>4. QED
    BY <1>6, <2>2, <2>3
<1>10. todo = S => Spent(todo) = 0
  <2>1. todo = S => c = Replicas
    BY <1>2
  <2>2. (Replicas - Replicas) * PutTime = 0
    BY <1>3
  <2>3. QED
    BY <1>6, <2>1, <2>2
<1>11. QED
  BY <1>6, <1>7, <1>8, <1>9, <1>10

-----------------------------------------------------------------------------
(* The publisher.                                                          *)

\* The initial states satisfy the invariant.
LEMMA InitFeedInv == FeedInit => FeedInv
<1> SUFFICES ASSUME FeedInit PROVE FeedInv
  OBVIOUS
<1>1. FeedTypes
  <2>1. PICK i \in PublishIntervals, j \in PollIntervals, s \in SUBSET Shards :
          plan = [publish |-> i, poll |-> j, shards |-> s] /\ Cardinality(s) = Replicas
    BY DEF FeedInit
  <2>2. /\ plan \in [publish : PublishIntervals, poll : PollIntervals, shards : SUBSET Shards]
        /\ Cardinality(plan.shards) = Replicas
    BY <2>1
  <2>3. now \in Nat /\ ads \in SUBSET DhtAd /\ found \in BOOLEAN
    BY DEF FeedInit
  <2>4. pub \in [pc : {"off", "putting", "idle", "stopped"}, todo : SUBSET Shards, at : Nat,
                 next : Nat \cup {Never}]
    BY DEF FeedInit
  <2>5. feed \in [pc : {"off", "burst", "wait", "poll"}, offset : {0, 0 - 1}, minute : Nat,
                  todo : SUBSET Shards, by : Nat, next : Nat]
    BY DEF FeedInit
  <2>6. since \in [pub : Nat \cup {Never}, feed : Nat \cup {Never}, turned : BOOLEAN,
                   known : SUBSET Nat]
    BY DEF FeedInit
  <2>7. QED
    BY <2>2, <2>3, <2>4, <2>5, <2>6 DEF FeedTypes
<1>2. AdsOK /\ MinutesCovered /\ NonePassed
  BY DEF FeedInit, AdsOK, MinutesCovered, NonePassed
<1>3. PubOK
  BY DEF FeedInit, PubOK
<1>4. FeedOK
  BY DEF FeedInit, FeedOK
<1>5. BurstOK
  BY DEF FeedInit, BurstOK, BurstCovers
<1>6. QED
  BY <1>1, <1>2, <1>3, <1>4, <1>5 DEF FeedInv

\* The plan's intervals and what is between them.
LEMMA PlanTypes ==
  ASSUME FeedTypes
  PROVE  /\ plan.publish \in Nat /\ plan.publish > Replicas * PutTime
         /\ plan.poll \in Nat /\ plan.poll > PassTime
         /\ plan.shards \in SUBSET Shards /\ Cardinality(plan.shards) = Replicas
         /\ Replicas * PutTime \in Nat /\ PassTime \in Nat /\ PutTime \in Nat
         /\ Minute \in Nat /\ Minute > 0 /\ TTL \in Nat /\ TTL >= 2 * Minute
<1>1. plan.publish \in PublishIntervals /\ plan.poll \in PollIntervals
      /\ plan.shards \in SUBSET Shards /\ Cardinality(plan.shards) = Replicas
  BY DEF FeedTypes
<1>2. plan.publish \in Nat /\ plan.publish > Replicas * PutTime /\ Replicas * PutTime \in Nat
  <2>1. plan.publish \in Nat
    BY <1>1, TimesAssumption
  <2>2. Replicas * PutTime \in Nat /\ Replicas * PutTime < plan.publish
    BY <1>1, RoundTime
  <2>3. QED
    BY <2>1, <2>2
<1>3. plan.poll \in Nat /\ plan.poll > PassTime
  BY <1>1, TimesAssumption
<1>4. PassTime \in Nat /\ PutTime \in Nat /\ Minute \in Nat /\ Minute > 0
      /\ TTL \in Nat /\ TTL >= 2 * Minute
  BY TimesAssumption
<1>5. QED
  BY <1>1, <1>2, <1>3, <1>4

\* The types of the publisher's fields and of the history.
LEMMA PubTypes ==
  ASSUME FeedTypes
  PROVE  /\ pub.pc \in {"off", "putting", "idle", "stopped"} /\ pub.todo \in SUBSET Shards
         /\ pub.at \in Nat /\ pub.next \in Nat \cup {Never}
         /\ pub = [pc |-> pub.pc, todo |-> pub.todo, at |-> pub.at, next |-> pub.next]
         /\ since.pub \in Nat \cup {Never} /\ since.feed \in Nat \cup {Never}
         /\ since.turned \in BOOLEAN /\ since.known \in SUBSET Nat
         /\ now \in Nat /\ ads \in SUBSET DhtAd
BY DEF FeedTypes

\* The types of the feed's fields.
LEMMA FeedFieldTypes ==
  ASSUME FeedTypes
  PROVE  /\ feed.pc \in {"off", "burst", "wait", "poll"} /\ feed.offset \in {0, 0 - 1}
         /\ feed.minute \in Nat /\ feed.todo \in SUBSET Shards
         /\ feed.by \in Nat /\ feed.next \in Nat /\ found \in BOOLEAN
BY DEF FeedTypes

\* A minute that began after the first round and no later than the last round that
\* was due has an ad, if that round is over.
LEMMA CoveredIdle ==
  ASSUME FeedTypes, PubOK, MinutesCovered, RoomInMinute, pub.pc = "idle", since.pub # Never,
         NEW m \in Nat, since.pub < m * Minute, m * Minute <= Round
  PROVE  Has(m)
<1> USE PlanTypes, PubTypes
<1>1. pub.next # Never
  BY DEF PubOK
<1>2. PICK r \in Int : r = Round
  BY <1>1 DEF Round, Never
<1>3. PICK x \in Nat : x = m * Minute
  BY MinuteStart
<1>4. since.pub \in Nat
  BY DEF Never
<1>5. CASE x + plan.publish <= r
  BY <1>2, <1>3, <1>5 DEF MinutesCovered
<1>6. CASE r < x + plan.publish
  <2>1. plan.publish <= Minute
    BY DEF RoomInMinute
  <2>2. r \in Nat /\ x <= r /\ r < x + Minute
    BY <1>2, <1>3, <1>6, <2>1
  <2>3. MinuteOf(r) = m
    BY <1>3, <2>2, MinuteUnique
  <2>4. since.pub < r
    BY <1>2, <1>3, <1>4
  <2>5. QED
    BY <1>2, <2>3, <2>4 DEF PubOK
<1>7. QED
  BY <1>2, <1>3, <1>5, <1>6

\* A minute that began after the first round certainly has an ad from CoveredBy on.
LEMMA Covered ==
  ASSUME FeedTypes, PubOK, MinutesCovered, RoomInMinute, pub.pc # "stopped", since.pub # Never,
         NEW m \in Nat, since.pub < m * Minute, now >= CoveredBy(m)
  PROVE  Has(m)
<1> USE PlanTypes, PubTypes
<1>1. pub.next \in Nat
  BY DEF PubOK
<1>2. PICK r \in Int : r = Round
  BY <1>1 DEF Round
<1>3. PICK x \in Nat : x = m * Minute
  BY MinuteStart
<1>4. PICK w \in Nat : w = Replicas * PutTime
  OBVIOUS
<1>5. now >= x + plan.publish + w
  BY <1>3, <1>4 DEF CoveredBy
<1>6. CASE pub.pc = "idle"
  <2>1. now <= r + plan.publish
    BY <1>1, <1>2, <1>6 DEF PubOK, Round
  <2>2. x <= r
    BY <1>5, <2>1
  <2>3. QED
    BY <1>2, <1>3, <1>6, <2>2, CoveredIdle
<1>7. CASE pub.pc = "putting"
  <2>1. pub.todo # {} /\ pub.todo \in SUBSET plan.shards /\ now <= pub.at + PutTime
        /\ pub.at <= r + Spent(pub.todo)
    BY <1>1, <1>2, <1>7 DEF PubOK, Never
  <2>2. Spent(pub.todo) \in Int /\ Spent(pub.todo) + PutTime <= w
    BY <1>4, <2>1, SpentSteps
  <2>3. now <= r + w
    BY <1>2, <1>4, <2>1, <2>2
  <2>4. x + plan.publish <= r
    BY <1>2, <1>3, <1>4, <1>5, <2>3
  <2>5. QED
    BY <1>2, <1>3, <2>4 DEF MinutesCovered
<1>8. pub.pc # "off"
  BY DEF PubOK
<1>9. QED
  BY <1>6, <1>7, <1>8

\* What a step of the feed leaves alone.
LEMMA PubFrame ==
  ASSUME AdsOK, PubOK, MinutesCovered, UNCHANGED <<now, plan, pub, ads>>, since'.pub = since.pub
  PROVE  AdsOK' /\ PubOK' /\ MinutesCovered'
<1>1. AdsOK'
  BY DEF AdsOK
<1>2. Round' = Round /\ (\A m : Has(m)' <=> Has(m)) /\ \A S : Spent(S)' = Spent(S)
  BY DEF Round, Has, Spent
<1>3. PubOK'
  BY <1>2 DEF PubOK
<1>4. MinutesCovered'
  BY <1>2 DEF MinutesCovered, RoomInMinute
<1>5. QED
  BY <1>1, <1>3, <1>4

\* What a step of the publisher that writes nothing leaves alone.
LEMMA FeedFrame ==
  ASSUME FeedOK, NonePassed, BurstOK, UNCHANGED <<now, plan, ads, feed, found, since>>,
         pub'.pc # "stopped" /\ since.pub # Never => pub.pc # "stopped"
  PROVE  FeedOK' /\ NonePassed' /\ BurstOK'
<1>1. Began' = Began /\ (\A m : CoveredBy(m)' = CoveredBy(m)) /\ (\A m : Pending(m)' <=> Pending(m))
      /\ (\A m, S : Lasting(m, S)' <=> Lasting(m, S))
  BY DEF Began, CoveredBy, Pending, Lasting
<1>2. FeedOK'
  BY <1>1 DEF FeedOK
<1>3. \A m : NotPassed(m)' <=> NotPassed(m)
  BY <1>1 DEF NotPassed
<1>4. NonePassed'
  BY <1>3 DEF NonePassed, RoomInMinute
<1>5. BurstOK'
  BY <1>1 DEF BurstOK, BurstCovers
<1>6. QED
  BY <1>2, <1>4, <1>5

\* The first round begins.
LEMMA PubStartInv == FeedInv /\ PubStart => FeedInv'
<1> SUFFICES ASSUME FeedInv, PubStart PROVE FeedInv'
  OBVIOUS
<1> USE DEF FeedInv
<1> USE PlanTypes, PubTypes
<1>1. /\ pub' = [pc |-> "putting", todo |-> plan.shards, at |-> now, next |-> Never]
      /\ UNCHANGED <<now, plan, ads, feed, found, since>> /\ pub.pc = "off"
  BY DEF PubStart, PublishAll
<1>2. FeedTypes'
  BY <1>1 DEF FeedTypes
<1>3. AdsOK' /\ since.pub = Never
  BY <1>1 DEF AdsOK, PubOK
<1>4. PubOK'
  <2>1. plan.shards # {}
    <3>1. Replicas # 0
      BY TimesAssumption
    <3>2. QED
      BY <3>1, FS_EmptySet
  <2>2. \A a \in ads : a.at <= now
    BY DEF AdsOK
  <2>3. QED
    BY <1>1, <1>3, <2>1, <2>2 DEF PubOK, Never
<1>5. MinutesCovered'
  BY <1>1, <1>3 DEF MinutesCovered
<1>6. FeedOK' /\ NonePassed' /\ BurstOK'
  BY <1>1, <1>3, FeedFrame
<1>7. QED
  BY <1>2, <1>3, <1>4, <1>5, <1>6

\* A later round begins when it is due, no later: the one before is over, so that every
\* minute up to it has its ad.
LEMMA PubTickInv == FeedInv /\ PubTick => FeedInv'
<1> SUFFICES ASSUME FeedInv, PubTick PROVE FeedInv'
  OBVIOUS
<1> USE DEF FeedInv
<1> USE PlanTypes, PubTypes
<1>1. /\ pub' = [pc |-> "putting", todo |-> plan.shards, at |-> now, next |-> pub.next + plan.publish]
      /\ UNCHANGED <<now, plan, ads, feed, found, since>> /\ pub.pc = "idle" /\ now >= pub.next
  BY DEF PubTick, PublishAll
<1>2. /\ pub.next \in Nat /\ now = pub.next /\ since.pub # Never
      /\ since.pub <= Round
  BY <1>1 DEF PubOK, Never
<1>3. PICK n \in Nat : n = pub.next + plan.publish
  BY <1>2
<1>4. /\ pub'.pc = "putting" /\ pub'.todo = plan.shards /\ pub'.at = now /\ pub'.next = n
  BY <1>1, <1>3
<1>5. FeedTypes'
  <2>1. pub' \in [pc : {"off", "putting", "idle", "stopped"}, todo : SUBSET Shards, at : Nat,
              next : Nat \cup {Never}]
    BY <1>1, <1>3
  <2>2. QED
    BY <1>1, <2>1 DEF FeedTypes
<1>6. AdsOK'
  BY <1>1 DEF AdsOK
<1>7. Round' = now /\ Round = now - plan.publish
  BY <1>1, <1>2, <1>3, <1>4 DEF Round
<1>8. PubOK'
  <2>1. plan.shards # {}
    <3>1. Replicas # 0
      BY TimesAssumption
    <3>2. QED
      BY <3>1, FS_EmptySet
  <2>2. \A a \in ads : a.at <= now
    BY DEF AdsOK
  <2>3. Spent(plan.shards)' = 0
    <3>1. Spent(plan.shards) = 0
      BY SpentSteps
    <3>2. QED
      BY <1>1, <3>1 DEF Spent
  <2>4. Spent(pub.todo)' = 0
    BY <1>1, <1>4, <2>3
  <2>5. since.pub < now
    BY <1>2, <1>7 DEF Never
  <2>6. pub'.next # Never
    BY <1>3, <1>4 DEF Never
  <2>7. (pub.next = Never <=> since.pub = Never)' /\ (since.pub # Never => since.pub <= Round)'
        /\ (pub.pc = "off" => since.pub = Never)' /\ (pub.pc # "idle")'
    BY <1>1, <1>2, <1>4, <1>7, <2>5, <2>6
  <2>8. /\ (pub.todo # {} /\ pub.todo \subseteq plan.shards)'
        /\ (pub.at <= now /\ now <= pub.at + PutTime /\ \A a \in ads : a.at <= pub.at)'
        /\ (since.pub < Round /\ Round <= pub.at /\ pub.at <= Round + Spent(pub.todo))'
        /\ (pub.todo = plan.shards => pub.at = Round)'
        /\ (pub.todo = plan.shards)'
    BY <1>1, <1>4, <1>7, <2>1, <2>2, <2>4, <2>5
  <2>9. QED
    BY <2>7, <2>8 DEF PubOK
<1>9. MinutesCovered'
  <2>1. SUFFICES ASSUME RoomInMinute, NEW m \in Nat, since.pub < m * Minute,
                        m * Minute + plan.publish <= now
                 PROVE  Has(m)'
    BY <1>1, <1>7 DEF MinutesCovered, RoomInMinute
  <2>2. m * Minute <= Round
    BY <1>7, <2>1, MinuteStart
  <2>3. Has(m)
    BY <1>1, <1>2, <2>1, <2>2, CoveredIdle
  <2>4. QED
    BY <1>1, <2>3 DEF Has
<1>10. FeedOK' /\ NonePassed' /\ BurstOK'
  BY <1>1, FeedFrame
<1>11. QED
  BY <1>5, <1>6, <1>8, <1>9, <1>10

\* The publisher stops: nothing is claimed of the minutes from then on.
LEMMA PubStopInv == FeedInv /\ PubStop => FeedInv'
<1> SUFFICES ASSUME FeedInv, PubStop PROVE FeedInv'
  OBVIOUS
<1> USE DEF FeedInv
<1>1. /\ pub' = [pub EXCEPT !.pc = "stopped"]
      /\ UNCHANGED <<now, plan, ads, feed, found, since>> /\ pub.pc = "idle"
  BY DEF PubStop
<1>2. pub' = [pc |-> "stopped", todo |-> pub.todo, at |-> pub.at, next |-> pub.next]
  BY <1>1, PubTypes
<1>3. FeedTypes'
  BY <1>1, <1>2, PubTypes DEF FeedTypes
<1>4. AdsOK'
  BY <1>1 DEF AdsOK
<1>5. Round' = Round
  BY <1>1, <1>2 DEF Round
<1>6. PubOK'
  BY <1>1, <1>2, <1>5 DEF PubOK
<1>7. MinutesCovered'
  BY <1>2 DEF MinutesCovered
<1>8. FeedOK' /\ NonePassed' /\ BurstOK'
  BY <1>1, <1>2, FeedFrame
<1>9. QED
  BY <1>3, <1>4, <1>6, <1>7, <1>8

\* Put writes one ad, which takes the place of an older one in the same bucket.
LEMMA PutAds ==
  ASSUME FeedInv, NEW s \in Shards, Put(s)
  PROVE  /\ AdsOK' /\ ads' \in SUBSET DhtAd /\ \E b \in ads' : b.minute = MinuteOf(pub.at)
         /\ \A a \in ads : \E b \in ads' : b.shard = a.shard /\ b.minute = a.minute /\ b.at >= a.at
         /\ \A b \in ads' : b.at <= now
         /\ pub.at <= now /\ now <= pub.at + PutTime
<1> USE DEF FeedInv
<1> USE PlanTypes, PubTypes
<1>1. PICK m : m = MinuteOf(pub.at)
  OBVIOUS
<1>2. m \in Nat
  BY <1>1, MinuteBounds
<1>3. PICK e \in DhtAd : e = [shard |-> s, minute |-> m, at |-> pub.at]
  BY <1>2 DEF DhtAd
<1>4. e.shard = s /\ e.minute = m /\ e.at = pub.at
  BY <1>3
<1>5. ads' = {a \in ads : a.shard # s \/ a.minute # m} \cup {e}
  BY <1>1, <1>3 DEF Put
<1>6. /\ \A a \in ads : a.at <= pub.at /\ a \in DhtAd /\ a.minute = MinuteOf(a.at)
      /\ pub.at <= now /\ now <= pub.at + PutTime /\ now' = now
  BY DEF Put, PubOK, AdsOK
<1>7. ads' \in SUBSET DhtAd /\ e \in ads'
  BY <1>3, <1>5
<1>8. \A b \in ads' : b.at <= now
  BY <1>4, <1>5, <1>6 DEF DhtAd
<1>9. AdsOK'
  BY <1>1, <1>4, <1>5, <1>6, <1>8 DEF AdsOK, MinuteOf
<1>10. \A a \in ads : \E b \in ads' : b.shard = a.shard /\ b.minute = a.minute /\ b.at >= a.at
  <2>1. SUFFICES ASSUME NEW a \in ads
                 PROVE  \E b \in ads' : b.shard = a.shard /\ b.minute = a.minute /\ b.at >= a.at
    OBVIOUS
  <2>2. CASE a.shard # s \/ a.minute # m
    BY <1>5, <1>6, <2>2 DEF DhtAd
  <2>3. CASE a.shard = s /\ a.minute = m
    BY <1>4, <1>6, <1>7, <2>3
  <2>4. QED
    BY <2>2, <2>3
<1>11. \E b \in ads' : b.minute = MinuteOf(pub.at)
  BY <1>1, <1>4, <1>7
<1>12. QED
  BY <1>6, <1>7, <1>8, <1>9, <1>10, <1>11

\* Once a minute has an ad it keeps one, and an ad that lasts is replaced by one that
\* lasts longer.
LEMMA PutKeeps ==
  ASSUME FeedInv, NEW s \in Shards, Put(s), feed' = feed, since'.feed = since.feed
  PROVE  /\ \A m : Has(m) => Has(m)'
         /\ \A m : Pending(m) => Pending(m)'
         /\ \A m, S : Lasting(m, S) => Lasting(m, S)'
<1> USE DEF FeedInv
<1>1. /\ \A a \in ads : \E b \in ads' : b.shard = a.shard /\ b.minute = a.minute /\ b.at >= a.at
      /\ ads \in SUBSET DhtAd /\ ads' \in SUBSET DhtAd
  BY PutAds, PubTypes
<1>2. (\A m : Has(m) => Has(m)') /\ (\A m : Pending(m) => Pending(m)')
  BY <1>1 DEF Has, Pending
<1>3. ASSUME NEW m, NEW S, Lasting(m, S) PROVE Lasting(m, S)'
  <2>1. PICK a \in ads : a.minute = m /\ a.shard \in S /\ a.at + TTL > since.feed + 2 * PassTime
    BY <1>3 DEF Lasting
  <2>2. PICK b \in ads' : b.shard = a.shard /\ b.minute = a.minute /\ b.at >= a.at
    BY <1>1
  <2>3. a.at \in Nat /\ b.at \in Nat /\ TTL \in Nat /\ PassTime \in Nat /\ since.feed \in Int
    BY <1>1, PlanTypes, PubTypes DEF DhtAd, Never
  <2>4. b.at + TTL > since.feed + 2 * PassTime
    BY <2>1, <2>2, <2>3
  <2>5. QED
    BY <2>1, <2>2, <2>4 DEF Lasting
<1>4. QED
  BY <1>2, <1>3

\* The feed's part of the invariant when an ad is written.
LEMMA PutFeed ==
  ASSUME FeedInv, NEW s \in Shards, Put(s), UNCHANGED <<now, plan, feed, found>>,
         pub'.pc # "stopped", since'.feed = since.feed, since'.turned = since.turned,
         since'.known = since.known,
         since'.pub = since.pub \/ (since.pub = Never /\ since'.pub = now)
  PROVE  FeedOK' /\ NonePassed' /\ BurstOK'
<1> USE DEF FeedInv
<1>1. /\ \A m : Pending(m) => Pending(m)'
      /\ \A m, S : Lasting(m, S) => Lasting(m, S)'
  BY PutKeeps
<1>2. Began' = Began /\ \A m : CoveredBy(m)' = CoveredBy(m)
  BY DEF Began, CoveredBy
<1>3. FeedOK'
  BY <1>2 DEF FeedOK
<1>4. \A m : NotPassed(m) => NotPassed(m)'
  BY <1>1, <1>2 DEF NotPassed
<1>5. NonePassed'
  <2>1. SUFFICES ASSUME RoomInMinute, since'.pub # Never, since.feed # Never, NEW m \in Nat,
                        since'.pub < m * Minute, since.feed + 2 * PassTime < m * Minute
                 PROVE  NotPassed(m)'
    BY DEF NonePassed, RoomInMinute
  <2>2. CASE since'.pub = since.pub
    <3>1. pub.pc # "stopped"
      BY DEF Put
    <3>2. NotPassed(m)
      BY <2>1, <2>2, <3>1 DEF NonePassed
    <3>3. QED
      BY <1>4, <3>2
  <2>3. CASE since'.pub = now
    <3>1. PICK x \in Nat : x = m * Minute
      BY MinuteStart
    <3>2. feed.pc # "off" /\ Began <= now /\ Began \in Int
      BY <2>1, PlanTypes, FeedFieldTypes DEF FeedOK, Began
    <3>3. CoveredBy(m) \in Int /\ CoveredBy(m) >= x
      BY <3>1, PlanTypes DEF CoveredBy
    <3>4. now \in Nat /\ now < x
      BY <2>1, <2>3, <3>1, PubTypes
    <3>5. Began < CoveredBy(m) /\ Began < CoveredBy(m) + plan.poll /\ ~(Began >= CoveredBy(m))
      BY <3>2, <3>3, <3>4, PlanTypes
    <3>6. NotPassed(m)
      BY <3>2, <3>5, FeedFieldTypes DEF NotPassed
    <3>7. QED
      BY <1>4, <3>6
  <2>4. QED
    BY <2>2, <2>3
<1>6. BurstOK'
  <2>1. (feed.pc = "burst" /\ feed.offset = 0 =>
           /\ \A m \in since.known : Lasting(m, Shards)
           /\ feed.minute \in since.known => found \/ Lasting(feed.minute, feed.todo))'
    BY <1>1 DEF BurstOK
  <2>2. (feed.pc = "burst" /\ feed.offset # 0 =>
           /\ MinuteOf(since.feed) \in since.known => found
           /\ ~since.turned /\ MinuteOf(since.feed) - 1 \in since.known =>
                /\ feed.minute = MinuteOf(since.feed) - 1
                /\ found \/ Lasting(feed.minute, feed.todo))'
    BY <1>1 DEF BurstOK
  <2>3. BurstCovers'
    BY DEF BurstOK, BurstCovers
  <2>4. QED
    BY <2>1, <2>2, <2>3 DEF BurstOK
<1>7. QED
  BY <1>3, <1>5, <1>6

\* The last put of a round ends in time; the first round fixes the timetable.
LEMMA PutLast ==
  ASSUME FeedInv, NEW s \in Shards, Put(s), pub.todo = {s}
  PROVE  FeedInv'
<1> USE DEF FeedInv
<1> USE PlanTypes, PubTypes
<1>1. PICK n : n = IF pub.next = Never THEN now + plan.publish ELSE pub.next
  OBVIOUS
<1>2. PICK p : p = IF since.pub = Never THEN now ELSE since.pub
  OBVIOUS
<1>3. /\ pub' = [pc |-> "idle", todo |-> {}, at |-> 0, next |-> n]
      /\ since' = [since EXCEPT !.pub = p]
      /\ UNCHANGED <<now, plan, feed, found>> /\ pub.pc = "putting"
  BY <1>1, <1>2 DEF Put
<1>4. n \in Nat /\ p \in Nat
  BY <1>1, <1>2
<1>5. /\ since'.pub = p /\ since'.feed = since.feed /\ since'.turned = since.turned
      /\ since'.known = since.known
      /\ since' \in [pub : Nat \cup {Never}, feed : Nat \cup {Never}, turned : BOOLEAN,
                     known : SUBSET Nat]
  BY <1>3, <1>4 DEF FeedTypes
<1>6. pub'.pc = "idle" /\ pub'.next = n
  BY <1>3
<1>7. AdsOK' /\ ads' \in SUBSET DhtAd
  BY PutAds
<1>8. FeedTypes'
  BY <1>3, <1>4, <1>5, <1>7 DEF FeedTypes
<1>9. FeedOK' /\ NonePassed' /\ BurstOK'
  <2>1. since'.pub = since.pub \/ (since.pub = Never /\ since'.pub = now)
    BY <1>2, <1>5
  <2>2. QED
    BY <1>3, <1>5, <1>6, <2>1, PutFeed
<1>10. \A m : Has(m) => Has(m)'
  BY <1>3, <1>5, PutKeeps
<1>11. n # Never /\ p # Never
  BY <1>4 DEF Never
<1>12. Round' = n - plan.publish
  BY <1>3, <1>6 DEF Round
<1>13. CASE pub.next = Never
  <2>1. since.pub = Never /\ n = now + plan.publish /\ p = now
    BY <1>1, <1>2, <1>13 DEF PubOK
  <2>2. Round' = now
    BY <1>12, <2>1
  <2>3. (pub.next = Never <=> since.pub = Never)' /\ (since.pub # Never => since.pub <= Round)'
        /\ (now <= pub.next)' /\ ~(since.pub < Round)'
    BY <1>3, <1>5, <1>6, <1>11, <2>1, <2>2
  <2>4. PubOK'
    BY <1>6, <1>11, <2>3 DEF PubOK
  <2>5. MinutesCovered'
    <3>1. SUFFICES ASSUME NEW m \in Nat, now < m * Minute, m * Minute + plan.publish <= now
                   PROVE  FALSE
      BY <1>3, <1>5, <2>1, <2>2 DEF MinutesCovered
    <3>2. QED
      BY <3>1, MinuteStart
  <2>6. QED
    BY <1>7, <1>8, <1>9, <2>4, <2>5
<1>14. CASE pub.next # Never
  <2>1. since.pub # Never /\ n = pub.next /\ p = since.pub
    BY <1>1, <1>2, <1>14 DEF PubOK
  <2>2. Round' = Round
    BY <1>12, <2>1 DEF Round
  <2>3. /\ since.pub < Round /\ pub.at <= Round + Spent(pub.todo) /\ now <= pub.at + PutTime
        /\ pub.todo \in SUBSET plan.shards
        /\ pub.todo = plan.shards => pub.at = Round
        /\ pub.todo # plan.shards => Has(MinuteOf(Round))
    BY <1>3, <1>14 DEF PubOK
  <2>4. now <= pub.next
    <3>1. Spent(pub.todo) \in Int /\ Spent(pub.todo) + PutTime <= Replicas * PutTime
      BY <2>3, SpentSteps
    <3>2. PICK w \in Nat : w = Replicas * PutTime
      OBVIOUS
    <3>3. pub.next \in Nat /\ plan.publish > w
      BY <1>14, <3>2
    <3>4. QED
      BY <2>3, <3>1, <3>2, <3>3 DEF Round
  <2>5. \E b \in ads' : b.minute = MinuteOf(Round)
    <3>1. CASE pub.todo = plan.shards
      BY <2>3, <3>1, PutAds
    <3>2. CASE pub.todo # plan.shards
      BY <2>3, <3>2, <1>10 DEF Has
    <3>3. QED
      BY <3>1, <3>2
  <2>6. Has(MinuteOf(Round))'
    BY <2>2, <2>5 DEF Has, MinuteOf
  <2>7. (pub.next = Never <=> since.pub = Never)' /\ (since.pub # Never => since.pub <= Round)'
        /\ (now <= pub.next)'
    <3>1. Round \in Int
      BY <1>14 DEF Round
    <3>2. since.pub <= Round
      BY <2>1, <2>3, <3>1
    <3>3. QED
      BY <1>3, <1>5, <1>6, <1>11, <2>1, <2>2, <2>4, <3>2
  <2>8. PubOK'
    BY <1>6, <1>11, <2>6, <2>7 DEF PubOK
  <2>9. MinutesCovered'
    BY <1>3, <1>5, <1>10, <2>1, <2>2 DEF MinutesCovered, RoomInMinute
  <2>10. QED
    BY <1>7, <1>8, <1>9, <2>8, <2>9
<1>15. QED
  BY <1>13, <1>14

\* Any other put: the round goes on.
LEMMA PutMore ==
  ASSUME FeedInv, NEW s \in Shards, Put(s), pub.todo # {s}
  PROVE  FeedInv'
<1> USE DEF FeedInv
<1> USE PlanTypes, PubTypes
<1>1. /\ pub' = [pub EXCEPT !.todo = pub.todo \ {s}, !.at = now] /\ s \in pub.todo
      /\ UNCHANGED <<now, plan, feed, found, since>> /\ pub.pc = "putting"
  BY DEF Put
<1>2. PICK rest \in SUBSET Shards : rest = pub.todo \ {s}
  OBVIOUS
<1>3. pub' = [pc |-> "putting", todo |-> rest, at |-> now, next |-> pub.next]
  BY <1>1, <1>2
<1>4. pub'.pc = "putting" /\ pub'.todo = rest /\ pub'.at = now /\ pub'.next = pub.next
  BY <1>3
<1>5. AdsOK' /\ ads' \in SUBSET DhtAd /\ \A b \in ads' : b.at <= now
  BY PutAds
<1>6. FeedTypes'
  BY <1>1, <1>3, <1>5 DEF FeedTypes
<1>7. FeedOK' /\ NonePassed' /\ BurstOK'
  BY <1>1, <1>4, PutFeed
<1>8. \A m : Has(m) => Has(m)'
  BY <1>1, PutKeeps
<1>9. Round' = Round
  BY <1>1, <1>4 DEF Round
<1>10. MinutesCovered'
  BY <1>1, <1>8, <1>9 DEF MinutesCovered, RoomInMinute
<1>11. rest # {} /\ rest \subseteq plan.shards /\ rest # plan.shards
  BY <1>1, <1>2 DEF PubOK
<1>12. ASSUME pub.next # Never
       PROVE  /\ since.pub < Round /\ Round <= now /\ now <= Round + Spent(rest)
              /\ Has(MinuteOf(Round))'
  <2>1. /\ since.pub < Round /\ Round <= pub.at /\ pub.at <= Round + Spent(pub.todo)
        /\ pub.at <= now /\ now <= pub.at + PutTime
        /\ pub.todo \in SUBSET plan.shards
        /\ pub.todo = plan.shards => pub.at = Round
        /\ pub.todo # plan.shards => Has(MinuteOf(Round))
    BY <1>1, <1>12 DEF PubOK
  <2>2. Spent(pub.todo) \in Int /\ Spent(rest) = Spent(pub.todo) + PutTime
    BY <1>1, <1>2, <2>1, SpentSteps
  <2>3. Round \in Int
    BY <1>12 DEF Round
  <2>4. Round <= now /\ now <= Round + Spent(rest)
    BY <2>1, <2>2, <2>3
  <2>5. \E b \in ads' : b.minute = MinuteOf(Round)
    <3>1. CASE pub.todo = plan.shards
      BY <2>1, <3>1, PutAds
    <3>2. CASE pub.todo # plan.shards
      BY <2>1, <3>2, <1>8 DEF Has
    <3>3. QED
      BY <3>1, <3>2
  <2>6. Has(MinuteOf(Round))'
    BY <1>9, <2>5 DEF Has, MinuteOf
  <2>7. QED
    BY <2>1, <2>4, <2>6
<1>13. PubOK'
  <2>1. Spent(pub.todo)' = Spent(rest)
    BY <1>4 DEF Spent
  <2>2. (pub.next = Never <=> since.pub = Never)' /\ (since.pub # Never => since.pub <= Round)'
    BY <1>1, <1>4, <1>9 DEF PubOK
  <2>3. (/\ pub.todo # {} /\ pub.todo \subseteq plan.shards
         /\ pub.at <= now /\ now <= pub.at + PutTime /\ \A a \in ads : a.at <= pub.at)'
    BY <1>1, <1>4, <1>5, <1>11
  <2>4. (pub.next # Never =>
            /\ since.pub < Round /\ Round <= pub.at /\ pub.at <= Round + Spent(pub.todo)
            /\ pub.todo = plan.shards => pub.at = Round
            /\ pub.todo # plan.shards => Has(MinuteOf(Round)))'
    BY <1>1, <1>4, <1>9, <1>11, <1>12, <2>1
  <2>5. (pub.pc # "off" /\ pub.pc # "idle")'
    BY <1>4
  <2>6. QED
    BY <2>2, <2>3, <2>4, <2>5 DEF PubOK
<1>14. QED
  BY <1>5, <1>6, <1>7, <1>10, <1>13

\* The put of one shard.
LEMMA PutInv == ASSUME NEW s \in Shards PROVE FeedInv /\ Put(s) => FeedInv'
BY PutLast, PutMore

-----------------------------------------------------------------------------
(* The feed and the clock.                                                 *)

\* The burst begins.
LEMMA FeedStartInv == FeedInv /\ FeedStart => FeedInv'
<1> SUFFICES ASSUME FeedInv, FeedStart PROVE FeedInv'
  OBVIOUS
<1> USE DEF FeedInv
<1> USE PlanTypes, PubTypes, FeedFieldTypes
<1>1. PICK known : known = {a.minute : a \in {b \in ads : b.at + TTL > now + 2 * PassTime}}
  OBVIOUS
<1>2. known \in SUBSET Nat
  BY <1>1 DEF DhtAd
<1>3. ApplyOffset(MinuteOf(now), 0) = MinuteOf(now) /\ MinuteOf(now) \in Nat
  BY MinuteBounds DEF ApplyOffset
<1>4. PICK m0 \in Nat : m0 = MinuteOf(now)
  BY <1>3
<1>5. /\ feed' = [pc |-> "burst", offset |-> 0, minute |-> m0, todo |-> Shards,
                  by |-> now + PassTime, next |-> now + plan.poll]
      /\ since' = [since EXCEPT !.feed = now, !.known = known]
      /\ UNCHANGED <<now, plan, pub, ads, found>> /\ feed.pc = "off"
  BY <1>1, <1>3, <1>4 DEF FeedStart, Pass
<1>6. /\ since'.pub = since.pub /\ since'.feed = now /\ since'.turned = since.turned
      /\ since'.known = known
      /\ since' \in [pub : Nat \cup {Never}, feed : Nat \cup {Never}, turned : BOOLEAN,
                     known : SUBSET Nat]
  BY <1>2, <1>5 DEF FeedTypes
<1>7. /\ feed'.pc = "burst" /\ feed'.offset = 0 /\ feed'.minute = m0 /\ feed'.todo = Shards
      /\ feed'.by = now + PassTime /\ feed'.next = now + plan.poll
  BY <1>5
<1>8. FeedTypes'
  <2>1. feed' \in [pc : {"off", "burst", "wait", "poll"}, offset : {0, 0 - 1}, minute : Nat,
                   todo : SUBSET Shards, by : Nat, next : Nat]
    BY <1>5
  <2>2. QED
    BY <1>5, <1>6, <2>1 DEF FeedTypes
<1>9. AdsOK' /\ PubOK' /\ MinutesCovered'
  BY <1>5, <1>6, PubFrame
<1>10. Began' = now
  BY <1>7 DEF Began
<1>11. FeedOK'
  <2>1. now # Never
    BY DEF Never
  <2>2. MinuteOf(since.feed)' = m0
    BY <1>4, <1>6 DEF MinuteOf
  <2>3. QED
    BY <1>5, <1>6, <1>7, <1>10, <2>1, <2>2 DEF FeedOK
<1>12. NonePassed'
  <2>1. SUFFICES ASSUME NEW m \in Nat, now + 2 * PassTime < m * Minute
                 PROVE  NotPassed(m)'
    BY <1>6 DEF NonePassed
  <2>2. PICK x \in Nat : x = m * Minute
    BY MinuteStart
  <2>3. CoveredBy(m)' >= x /\ CoveredBy(m)' \in Int
    BY <1>5, <2>2 DEF CoveredBy
  <2>4. now < CoveredBy(m)'
    BY <2>1, <2>2, <2>3
  <2>5. QED
    BY <1>7, <1>10, <2>4 DEF NotPassed
<1>13. BurstOK'
  <2>1. \A m \in known : Lasting(m, Shards)'
    <3>1. SUFFICES ASSUME NEW m \in known PROVE Lasting(m, Shards)'
      OBVIOUS
    <3>2. PICK a \in ads : a.minute = m /\ a.at + TTL > now + 2 * PassTime
      BY <1>1
    <3>3. a.shard \in Shards
      BY DEF DhtAd
    <3>4. QED
      BY <1>5, <1>6, <3>2, <3>3 DEF Lasting
  <2>2. m0 \in known => Lasting(feed.minute, feed.todo)'
    <3>1. m0 \in known => Lasting(m0, Shards)'
      BY <2>1
    <3>2. QED
      BY <1>7, <3>1 DEF Lasting
  <2>3. BurstCovers'
    BY <1>7 DEF BurstCovers
  <2>4. QED
    BY <1>6, <1>7, <2>1, <2>2, <2>3 DEF BurstOK
<1>14. QED
  BY <1>8, <1>9, <1>11, <1>12, <1>13

\* While a poll is on, its pass that began in time for minute m looks at minute m and
\* comes to the minute's ad before that expires.
LEMMA PollReaches ==
  ASSUME FeedInv, RoomInMinute, NEW m \in Nat, feed.pc = "poll",
         CoveredBy(m) <= Began, Began < CoveredBy(m) + plan.poll,
         NEW a \in ads, a.minute = m
  PROVE  feed.minute = m /\ now < a.at + TTL
<1> USE DEF FeedInv
<1> USE PlanTypes, PubTypes, FeedFieldTypes
<1>1. PICK x \in Nat : x = m * Minute
  BY MinuteStart
<1>2. PICK w \in Nat : w = Replicas * PutTime
  OBVIOUS
<1>3. PICK b \in Int : b = Began
  BY DEF Began
<1>4. /\ x + plan.publish + w <= b /\ b < x + plan.publish + w + plan.poll
      /\ plan.poll + plan.publish + w <= Minute
  BY <1>1, <1>2, <1>3 DEF CoveredBy, RoomInMinute
<1>5. b \in Nat /\ x <= b /\ b < x + Minute
  BY <1>4
<1>6. MinuteOf(b) = m
  BY <1>1, <1>5, MinuteUnique
<1>7. feed.minute = m
  BY <1>3, <1>6 DEF FeedOK
<1>8. now <= b + PassTime
  BY <1>3 DEF FeedOK, Began
<1>9. a.at \in Nat /\ a.minute = MinuteOf(a.at)
  BY DEF AdsOK, DhtAd
<1>10. x <= a.at
  BY <1>1, <1>9, MinuteBounds
<1>11. now < a.at + TTL
  BY <1>4, <1>5, <1>8, <1>9, <1>10
<1>12. QED
  BY <1>7, <1>11

\* One shard is asked: either it has the ad, or the ad is in another one still to come.
LEMMA QueryShardInv == ASSUME NEW s \in Shards PROVE FeedInv /\ QueryShard(s) => FeedInv'
<1> SUFFICES ASSUME FeedInv, QueryShard(s) PROVE FeedInv'
  OBVIOUS
<1> USE DEF FeedInv
<1> USE PlanTypes, PubTypes, FeedFieldTypes
<1>1. PICK rest \in SUBSET Shards : rest = feed.todo \ {s}
  OBVIOUS
<1>2. /\ feed' = [feed EXCEPT !.todo = rest] /\ found' = (found \/ Answer(s))
      /\ UNCHANGED <<now, plan, pub, ads, since>> /\ feed.pc \in {"burst", "poll"}
  BY <1>1 DEF QueryShard
<1>3. /\ feed'.pc = feed.pc /\ feed'.offset = feed.offset /\ feed'.minute = feed.minute
      /\ feed'.todo = rest /\ feed'.by = feed.by /\ feed'.next = feed.next
      /\ feed' \in [pc : {"off", "burst", "wait", "poll"}, offset : {0, 0 - 1}, minute : Nat,
                    todo : SUBSET Shards, by : Nat, next : Nat]
  BY <1>2 DEF FeedTypes
<1>4. FeedTypes'
  BY <1>2, <1>3 DEF FeedTypes
<1>5. AdsOK' /\ PubOK' /\ MinutesCovered'
  BY <1>2, PubFrame
<1>6. Began' = Began /\ \A m : CoveredBy(m)' = CoveredBy(m)
  BY <1>2, <1>3 DEF Began, CoveredBy
<1>7. FeedOK'
  BY <1>2, <1>3, <1>6 DEF FeedOK
<1>8. NonePassed'
  <2>1. SUFFICES ASSUME RoomInMinute, pub.pc # "stopped", since.pub # Never, since.feed # Never,
                        NEW m \in Nat, since.pub < m * Minute,
                        since.feed + 2 * PassTime < m * Minute
                 PROVE  NotPassed(m)'
    BY <1>2 DEF NonePassed, RoomInMinute
  <2>2. NotPassed(m)
    BY <2>1 DEF NonePassed
  <2>3. CASE found' \/ feed.pc = "burst" \/ ~(Began >= CoveredBy(m))
    BY <1>2, <1>3, <1>6, <2>2, <2>3 DEF NotPassed
  <2>4. CASE ~found' /\ feed.pc = "poll" /\ Began >= CoveredBy(m)
    <3>1. ~found /\ ~Answer(s) /\ Pending(m) /\ Began < CoveredBy(m) + plan.poll
      BY <1>2, <2>2, <2>4 DEF NotPassed
    <3>2. PICK a \in ads : a.minute = m /\ a.shard \in feed.todo
      BY <3>1 DEF Pending
    <3>3. CoveredBy(m) <= Began
      BY <2>4, MinuteStart DEF CoveredBy, Began
    <3>4. feed.minute = m /\ now < a.at + TTL
      BY <2>1, <2>4, <3>1, <3>2, <3>3, PollReaches
    <3>5. a.shard # s
      BY <3>1, <3>2, <3>4 DEF Answer
    <3>6. Pending(m)'
      BY <1>1, <1>2, <1>3, <3>2, <3>5 DEF Pending
    <3>7. QED
      BY <1>2, <1>3, <1>6, <2>4, <3>1, <3>6 DEF NotPassed
  <2>5. QED
    BY <1>2, <2>3, <2>4
<1>9. ASSUME feed.pc = "burst", Lasting(feed.minute, feed.todo)
      PROVE  found' \/ Lasting(feed.minute, feed.todo)'
  <2>1. PICK a \in ads : /\ a.minute = feed.minute /\ a.shard \in feed.todo
                         /\ a.at + TTL > since.feed + 2 * PassTime
    BY <1>9 DEF Lasting
  <2>2. CASE a.shard # s
    BY <1>1, <1>2, <1>3, <2>1, <2>2 DEF Lasting
  <2>3. CASE a.shard = s
    <3>1. since.feed \in Nat
      BY <1>9 DEF FeedOK
    <3>2. now <= since.feed + 2 * PassTime
      BY <1>9, <3>1 DEF FeedOK, Began
    <3>3. a.at \in Nat
      BY DEF DhtAd
    <3>4. now < a.at + TTL
      BY <2>1, <3>1, <3>2, <3>3
    <3>5. Answer(s)
      BY <2>1, <2>3, <3>4 DEF Answer
    <3>6. QED
      BY <1>2, <3>5
  <2>4. QED
    BY <2>2, <2>3
<1>10. BurstOK'
  <2>1. (feed.pc = "burst" /\ feed.offset = 0 =>
           /\ \A m \in since.known : Lasting(m, Shards)
           /\ feed.minute \in since.known => found \/ Lasting(feed.minute, feed.todo))'
    <3>1. SUFFICES ASSUME feed.pc = "burst", feed.offset = 0
                   PROVE  /\ \A m \in since.known : Lasting(m, Shards)'
                          /\ feed.minute \in since.known =>
                               found' \/ Lasting(feed.minute, feed.todo)'
      BY <1>2, <1>3
    <3>2. \A m \in since.known : Lasting(m, Shards)
      BY <3>1 DEF BurstOK
    <3>3. \A m \in since.known : Lasting(m, Shards)'
      BY <1>2, <3>2 DEF Lasting
    <3>4. feed.minute \in since.known => found \/ Lasting(feed.minute, feed.todo)
      BY <3>1 DEF BurstOK
    <3>5. QED
      BY <1>2, <1>9, <3>1, <3>3, <3>4
  <2>2. (feed.pc = "burst" /\ feed.offset # 0 =>
           /\ MinuteOf(since.feed) \in since.known => found
           /\ ~since.turned /\ MinuteOf(since.feed) - 1 \in since.known =>
                /\ feed.minute = MinuteOf(since.feed) - 1
                /\ found \/ Lasting(feed.minute, feed.todo))'
    <3>1. SUFFICES ASSUME feed.pc = "burst", feed.offset # 0
                   PROVE  /\ MinuteOf(since.feed) \in since.known => found'
                          /\ ~since.turned /\ MinuteOf(since.feed) - 1 \in since.known =>
                               /\ feed.minute = MinuteOf(since.feed) - 1
                               /\ found' \/ Lasting(feed.minute, feed.todo)'
      BY <1>2, <1>3 DEF MinuteOf
    <3>2. /\ MinuteOf(since.feed) \in since.known => found
          /\ ~since.turned /\ MinuteOf(since.feed) - 1 \in since.known =>
               /\ feed.minute = MinuteOf(since.feed) - 1
               /\ found \/ Lasting(feed.minute, feed.todo)
      BY <3>1 DEF BurstOK
    <3>3. QED
      BY <1>2, <1>9, <3>1, <3>2
  <2>3. BurstCovers'
    BY <1>2, <1>3 DEF BurstOK, BurstCovers, MinuteOf
  <2>4. QED
    BY <2>1, <2>2, <2>3 DEF BurstOK
<1>11. QED
  BY <1>4, <1>5, <1>7, <1>8, <1>10

\* The burst goes on to the minute before.
LEMMA BurstGoesOn ==
  ASSUME FeedInv, NextPass, feed.pc = "burst", feed.offset = 0
  PROVE  FeedInv'
<1> USE DEF FeedInv
<1> USE PlanTypes, PubTypes, FeedFieldTypes
<1>1. PICK m0 \in Nat : m0 = MinuteOf(now)
  BY MinuteBounds
<1>2. PICK m1 \in Nat : m1 = ApplyOffset(m0, 0 - 1) /\ (m0 >= 1 => m1 = m0 - 1)
  <2>1. ApplyOffset(m0, 0 - 1) \in Nat /\ (m0 >= 1 => ApplyOffset(m0, 0 - 1) = m0 - 1)
    BY DEF ApplyOffset
  <2>2. QED
    BY <2>1
<1>3. PICK t \in BOOLEAN : t = (m0 # feed.minute)
  OBVIOUS
<1>4. /\ feed' = [pc |-> "burst", offset |-> 0 - 1, minute |-> m1, todo |-> Shards,
                  by |-> now + PassTime, next |-> feed.next]
      /\ since' = [since EXCEPT !.turned = t]
      /\ UNCHANGED <<now, plan, pub, ads, found>> /\ feed.todo = {}
  BY <1>1, <1>2, <1>3 DEF NextPass, Pass
<1>5. /\ since'.pub = since.pub /\ since'.feed = since.feed /\ since'.turned = t
      /\ since'.known = since.known
      /\ since' \in [pub : Nat \cup {Never}, feed : Nat \cup {Never}, turned : BOOLEAN,
                     known : SUBSET Nat]
  BY <1>4 DEF FeedTypes
<1>6. /\ feed'.pc = "burst" /\ feed'.offset = 0 - 1 /\ feed'.minute = m1 /\ feed'.todo = Shards
      /\ feed'.by = now + PassTime /\ feed'.next = feed.next
  BY <1>4
<1>7. FeedTypes'
  <2>1. feed' \in [pc : {"off", "burst", "wait", "poll"}, offset : {0, 0 - 1}, minute : Nat,
                   todo : SUBSET Shards, by : Nat, next : Nat]
    BY <1>4
  <2>2. QED
    BY <1>4, <1>5, <2>1 DEF FeedTypes
<1>8. AdsOK' /\ PubOK' /\ MinutesCovered'
  BY <1>4, <1>5, PubFrame
<1>9. Began' = now
  BY <1>6 DEF Began
<1>10. /\ since.feed \in Nat /\ since.feed <= now /\ now <= since.feed + PassTime
       /\ feed.next <= now + plan.poll /\ feed.minute = MinuteOf(since.feed)
  BY DEF FeedOK, Began
<1>11. FeedOK'
  <2>1. since.feed # Never
    BY <1>10 DEF Never
  <2>2. QED
    BY <1>4, <1>5, <1>6, <1>9, <1>10, <2>1 DEF FeedOK
<1>12. NonePassed'
  <2>1. SUFFICES ASSUME NEW m \in Nat, since.feed + 2 * PassTime < m * Minute
                 PROVE  NotPassed(m)'
    BY <1>5 DEF NonePassed
  <2>2. PICK x \in Nat : x = m * Minute
    BY MinuteStart
  <2>3. CoveredBy(m)' >= x /\ CoveredBy(m)' \in Int
    BY <1>4, <2>2 DEF CoveredBy
  <2>4. now < CoveredBy(m)'
    BY <1>10, <2>1, <2>2, <2>3
  <2>5. QED
    BY <1>6, <1>9, <2>4 DEF NotPassed
<1>13. BurstOK'
  <2>1. feed.minute \in since.known => found
    BY <1>4 DEF BurstOK, Lasting
  <2>2. ASSUME ~t, feed.minute - 1 \in since.known
        PROVE  m1 = feed.minute - 1 /\ Lasting(feed.minute, feed.todo)'
    <3>1. m1 = feed.minute - 1
      <4>1. m0 = feed.minute
        BY <1>3, <2>2
      <4>2. feed.minute - 1 \in Nat
        BY <2>2
      <4>3. QED
        BY <1>2, <4>1, <4>2
    <3>2. Lasting(m1, Shards)
      BY <2>2, <3>1 DEF BurstOK
    <3>3. Lasting(feed.minute, feed.todo)'
      BY <1>4, <1>5, <1>6, <3>2 DEF Lasting
    <3>4. QED
      BY <3>1, <3>3
  <2>3. MinuteOf(since.feed)' = feed.minute
    BY <1>5, <1>10 DEF MinuteOf
  <2>4. BurstCovers'
    BY <1>6 DEF BurstCovers
  <2>5. found' = found
    BY <1>4
  <2>6. QED
    BY <1>5, <1>6, <2>1, <2>2, <2>3, <2>4, <2>5 DEF BurstOK
<1>14. QED
  BY <1>7, <1>8, <1>11, <1>12, <1>13

\* A pass that is over leaves the feed to its timer.
LEMMA PassEnds ==
  ASSUME FeedInv, NextPass, ~(feed.pc = "burst" /\ feed.offset = 0)
  PROVE  FeedInv'
<1> USE DEF FeedInv
<1> USE PlanTypes, PubTypes, FeedFieldTypes
<1>1. /\ feed' = [feed EXCEPT !.pc = "wait"] /\ feed.pc \in {"burst", "poll"}
      /\ UNCHANGED <<now, plan, pub, ads, found, since>> /\ feed.todo = {}
  BY DEF NextPass
<1>2. /\ feed'.pc = "wait" /\ feed'.offset = feed.offset /\ feed'.minute = feed.minute
      /\ feed'.todo = feed.todo /\ feed'.by = feed.by /\ feed'.next = feed.next
      /\ feed' \in [pc : {"off", "burst", "wait", "poll"}, offset : {0, 0 - 1}, minute : Nat,
                    todo : SUBSET Shards, by : Nat, next : Nat]
  BY <1>1 DEF FeedTypes
<1>3. FeedTypes'
  BY <1>1, <1>2 DEF FeedTypes
<1>4. AdsOK' /\ PubOK' /\ MinutesCovered'
  BY <1>1, PubFrame
<1>5. Began' = Began /\ \A m : CoveredBy(m)' = CoveredBy(m)
  BY <1>1, <1>2 DEF Began, CoveredBy
<1>6. FeedOK'
  BY <1>1, <1>2, <1>5 DEF FeedOK
<1>7. NonePassed'
  <2>1. SUFFICES ASSUME RoomInMinute, pub.pc # "stopped", since.pub # Never, since.feed # Never,
                        NEW m \in Nat, since.pub < m * Minute,
                        since.feed + 2 * PassTime < m * Minute
                 PROVE  NotPassed(m)'
    BY <1>1 DEF NonePassed, RoomInMinute
  <2>2. NotPassed(m)
    BY <2>1 DEF NonePassed
  <2>3. ~Pending(m)
    BY <1>1 DEF Pending
  <2>4. ~(Began >= CoveredBy(m)) => Began < CoveredBy(m)
    BY MinuteStart DEF Began, CoveredBy
  <2>5. found \/ Began < CoveredBy(m)
    BY <1>1, <2>2, <2>3, <2>4 DEF NotPassed
  <2>6. QED
    BY <1>1, <1>2, <1>5, <2>5 DEF NotPassed
<1>8. BurstOK'
  <2>1. ASSUME feed.pc = "burst", since.known \cap ({MinuteOf(since.feed)}
                 \cup {m \in {MinuteOf(since.feed) - 1} : ~since.turned}) # {}
        PROVE  found
    <3>1. ~Lasting(feed.minute, feed.todo)
      BY <1>1 DEF Lasting
    <3>2. /\ MinuteOf(since.feed) \in since.known => found
          /\ ~since.turned /\ MinuteOf(since.feed) - 1 \in since.known => found
      BY <2>1, <3>1 DEF BurstOK
    <3>3. QED
      BY <2>1, <3>2
  <2>2. BurstCovers'
    BY <1>1, <1>2, <2>1 DEF BurstOK, BurstCovers, MinuteOf
  <2>3. QED
    BY <1>2, <2>2 DEF BurstOK
<1>9. QED
  BY <1>3, <1>4, <1>6, <1>7, <1>8

\* A pass is over.
LEMMA NextPassInv == FeedInv /\ NextPass => FeedInv'
BY BurstGoesOn, PassEnds

\* A poll begins, an interval at most after the pass before: the first one from
\* CoveredBy on is in the same minute and its ad is there.
LEMMA PollInv == FeedInv /\ Poll => FeedInv'
<1> SUFFICES ASSUME FeedInv, Poll PROVE FeedInv'
  OBVIOUS
<1> USE DEF FeedInv
<1> USE PlanTypes, PubTypes, FeedFieldTypes
<1>1. ApplyOffset(MinuteOf(now), 0) = MinuteOf(now) /\ MinuteOf(now) \in Nat
  BY MinuteBounds DEF ApplyOffset
<1>2. PICK m0 \in Nat : m0 = MinuteOf(now)
  BY <1>1
<1>3. /\ feed' = [pc |-> "poll", offset |-> 0, minute |-> m0, todo |-> Shards,
                  by |-> now + PassTime, next |-> feed.next + plan.poll]
      /\ UNCHANGED <<now, plan, pub, ads, found, since>> /\ feed.pc = "wait" /\ now >= feed.next
  BY <1>1, <1>2 DEF Poll, Pass
<1>4. /\ feed'.pc = "poll" /\ feed'.offset = 0 /\ feed'.minute = m0 /\ feed'.todo = Shards
      /\ feed'.by = now + PassTime /\ feed'.next = feed.next + plan.poll
  BY <1>3
<1>5. FeedTypes'
  <2>1. feed' \in [pc : {"off", "burst", "wait", "poll"}, offset : {0, 0 - 1}, minute : Nat,
                   todo : SUBSET Shards, by : Nat, next : Nat]
    BY <1>3
  <2>2. QED
    BY <1>3, <2>1 DEF FeedTypes
<1>6. AdsOK' /\ PubOK' /\ MinutesCovered'
  BY <1>3, PubFrame
<1>7. Began' = now /\ \A m : CoveredBy(m)' = CoveredBy(m)
  BY <1>3, <1>4 DEF Began, CoveredBy
<1>8. /\ since.feed \in Nat /\ since.feed <= now /\ Began <= now
      /\ now <= Began + plan.poll
  BY <1>3 DEF FeedOK, Began
<1>9. FeedOK'
  <2>1. since.feed # Never
    BY <1>8 DEF Never
  <2>2. MinuteOf(Began)' = m0
    BY <1>2, <1>7 DEF MinuteOf
  <2>3. QED
    BY <1>3, <1>4, <1>7, <1>8, <2>1, <2>2 DEF FeedOK
<1>10. NonePassed'
  <2>1. SUFFICES ASSUME RoomInMinute, pub.pc # "stopped", since.pub # Never, since.feed # Never,
                        NEW m \in Nat, since.pub < m * Minute,
                        since.feed + 2 * PassTime < m * Minute
                 PROVE  NotPassed(m)'
    BY <1>3 DEF NonePassed, RoomInMinute
  <2>2. NotPassed(m)
    BY <2>1 DEF NonePassed
  <2>3. CASE found
    BY <1>3, <2>3 DEF NotPassed
  <2>4. CASE ~found
    <3>1. Began < CoveredBy(m)
      BY <1>3, <2>2, <2>4 DEF NotPassed
    <3>2. Began \in Int /\ CoveredBy(m) \in Int
      BY MinuteStart DEF Began, CoveredBy
    <3>3. now < CoveredBy(m) + plan.poll
      BY <1>8, <3>1, <3>2
    <3>4. ASSUME now >= CoveredBy(m) PROVE Pending(m)'
      <4>1. PICK a \in ads : a.minute = m
        BY <2>1, <3>4, Covered DEF Has
      <4>2. a.shard \in Shards
        BY DEF DhtAd
      <4>3. QED
        BY <1>3, <1>4, <4>1, <4>2 DEF Pending
    <3>5. plan' = plan
      BY <1>3
    <3>6. QED
      BY <1>4, <1>7, <3>3, <3>4, <3>5 DEF NotPassed
  <2>5. QED
    BY <2>3, <2>4
<1>11. BurstOK'
  <2>1. BurstCovers'
    BY <1>3, <1>4 DEF BurstOK, BurstCovers, MinuteOf
  <2>2. QED
    BY <1>4, <2>1 DEF BurstOK
<1>12. QED
  BY <1>5, <1>6, <1>9, <1>10, <1>11

\* Time goes on while nothing is due.
LEMMA TickInv == FeedInv /\ Tick => FeedInv'
<1> SUFFICES ASSUME FeedInv, Tick PROVE FeedInv'
  OBVIOUS
<1> USE DEF FeedInv
<1> USE PlanTypes, PubTypes, FeedFieldTypes
<1>1. now' = now + 1 /\ UNCHANGED <<plan, pub, ads, feed, found, since>> /\ ~Due
  BY DEF Tick
<1>2. FeedTypes'
  BY <1>1 DEF FeedTypes
<1>3. AdsOK'
  BY <1>1 DEF AdsOK, MinuteOf, DhtAd
<1>4. /\ Round' = Round /\ Began' = Began /\ (\A m : Has(m)' <=> Has(m))
      /\ (\A S : Spent(S)' = Spent(S)) /\ (\A m : CoveredBy(m)' = CoveredBy(m))
      /\ (\A m : Pending(m)' <=> Pending(m)) /\ (\A m, S : Lasting(m, S)' <=> Lasting(m, S))
      /\ (\A t : MinuteOf(t)' = MinuteOf(t))
  BY <1>1 DEF Round, Began, Has, Spent, CoveredBy, Pending, Lasting, MinuteOf
<1>5. PubOK'
  <2>1. pub.pc = "idle" => now' <= pub.next
    BY <1>1 DEF PubOK, Due, Never
  <2>2. pub.pc = "putting" => pub.at <= now' /\ now' <= pub.at + PutTime
    BY <1>1 DEF PubOK, Due
  <2>3. QED
    BY <1>1, <1>4, <2>1, <2>2 DEF PubOK
<1>6. MinutesCovered'
  BY <1>1, <1>4 DEF MinutesCovered, RoomInMinute
<1>7. FeedOK'
  <2>1. feed.pc # "off" => Began <= now'
    BY <1>1 DEF FeedOK, Began
  <2>2. feed.pc \in {"burst", "poll"} => now' <= feed.by
    BY <1>1 DEF FeedOK, Due
  <2>3. feed.pc = "wait" => now' <= feed.next
    BY <1>1 DEF FeedOK, Due
  <2>4. QED
    BY <1>1, <1>4, <2>1, <2>2, <2>3 DEF FeedOK
<1>8. NonePassed'
  BY <1>1, <1>4 DEF NonePassed, NotPassed, RoomInMinute
<1>9. BurstOK'
  BY <1>1, <1>4 DEF BurstOK, BurstCovers
<1>10. QED
  BY <1>2, <1>3, <1>5, <1>6, <1>7, <1>8, <1>9

\* A step that changes nothing.
LEMMA FeedStutter == FeedInv /\ UNCHANGED feedVars => FeedInv'
<1> SUFFICES ASSUME FeedInv, UNCHANGED feedVars PROVE FeedInv'
  OBVIOUS
<1> USE DEF FeedInv, feedVars
<1>1. FeedTypes'
  BY DEF FeedTypes
<1>2. AdsOK' /\ PubOK' /\ MinutesCovered'
  BY PubFrame
<1>3. FeedOK' /\ NonePassed' /\ BurstOK'
  BY FeedFrame
<1>4. QED
  BY <1>1, <1>2, <1>3

\* The inductive invariant of DhtFeed: rounds end before the next is due, every minute
\* gets an ad in its first round, and no poll passes a minute by.
THEOREM FeedInvariant == FeedSpec => []FeedInv
<1>1. FeedInv /\ [FeedNext]_feedVars => FeedInv'
  BY PubStartInv, PubTickInv, PubStopInv, PutInv, FeedStartInv, QueryShardInv, NextPassInv,
     PollInv, TickInv, FeedStutter DEF FeedNext
<1>2. QED
  BY InitFeedInv, <1>1, PTL DEF FeedSpec

\* The first minute that begins after both is passed by within two minutes of them.
LEMMA FoundInTime == FeedInv => FeedFinds
<1> SUFFICES ASSUME FeedInv, RoomInMinute, since.pub # Never, since.feed # Never,
                    pub.pc # "stopped", now >= since.pub + 2 * Minute + PassTime,
                    now >= since.feed + 2 * Minute + 3 * PassTime, ~found
             PROVE  FALSE
  BY PubTypes, FeedFieldTypes DEF FeedInv, FeedFinds
<1> USE DEF FeedInv
<1> USE PlanTypes, PubTypes, FeedFieldTypes
<1>1. since.pub \in Nat /\ since.feed \in Nat
  BY DEF Never
<1>2. PICK X \in Nat : /\ X >= since.pub /\ X >= since.feed + 2 * PassTime
                       /\ now >= X + 2 * Minute + PassTime
  <2>1. CASE since.pub >= since.feed + 2 * PassTime
    BY <1>1, <2>1
  <2>2. CASE since.pub < since.feed + 2 * PassTime
    <3>1. since.feed + 2 * PassTime \in Nat
      BY <1>1
    <3>2. now >= (since.feed + 2 * PassTime) + 2 * Minute + PassTime
      BY <1>1
    <3>3. QED
      BY <1>1, <2>2, <3>1, <3>2
  <2>3. QED
    BY <1>1, <2>1, <2>2
<1>3. PICK m \in Nat : m * Minute > X /\ m * Minute <= X + Minute
  <2>1. PICK q \in Nat : q = MinuteOf(X)
    BY MinuteBounds
  <2>2. q * Minute <= X /\ X < q * Minute + Minute
    BY <2>1, MinuteBounds
  <2>3. (q + 1) * Minute = q * Minute + Minute /\ q * Minute \in Nat
    BY MinuteStart
  <2>4. (q + 1) * Minute > X /\ (q + 1) * Minute <= X + Minute
    BY <2>2, <2>3
  <2>5. QED
    BY <2>4
<1>4. PICK x \in Nat : x = m * Minute
  BY MinuteStart
<1>5. NotPassed(m)
  BY <1>1, <1>2, <1>3, <1>4 DEF NonePassed
<1>6. PICK w \in Nat : w = Replicas * PutTime
  OBVIOUS
<1>7. PICK b \in Int : b = Began
  BY DEF Began
<1>8. CoveredBy(m) = x + plan.publish + w /\ plan.poll + plan.publish + w <= Minute
  BY <1>4, <1>6 DEF CoveredBy, RoomInMinute
<1>9. b < x + plan.publish + w + plan.poll
  BY <1>5, <1>7, <1>8 DEF NotPassed
<1>10. b + PassTime < X + 2 * Minute + PassTime
  BY <1>3, <1>4, <1>8, <1>9
<1>11. CASE feed.pc \in {"burst", "poll"}
  <2>1. now <= b + PassTime
    BY <1>7, <1>11 DEF FeedOK, Began
  <2>2. QED
    BY <1>2, <1>10, <2>1
<1>12. CASE feed.pc = "wait"
  <2>1. b < x + plan.publish + w
    BY <1>5, <1>7, <1>8, <1>12 DEF NotPassed
  <2>2. now <= b + plan.poll
    BY <1>7, <1>12 DEF FeedOK, Began
  <2>3. QED
    BY <1>2, <1>3, <1>4, <1>8, <2>1, <2>2
<1>13. feed.pc # "off"
  BY DEF FeedOK
<1>14. QED
  BY <1>11, <1>12, <1>13

\* With room in the minute, a peer that publishes and a feed that polls meet within two
\* minutes and a pass, for every phase and every interval, number of shards and
\* replicas, and duration of a put and of a pass that meet TimesAssumption.
THEOREM FeedFindsPeer == FeedSpec => []FeedFinds
BY FeedInvariant, FoundInTime, PTL

\* The two passes of the burst find every ad of the current minute that lasts, and of
\* the minute before unless the minute turns between them.
THEOREM BurstCoversTwoMinutes == FeedSpec => []BurstCovers
<1>1. FeedInv => BurstCovers
  BY DEF FeedInv, BurstOK
<1>2. QED
  BY FeedInvariant, <1>1, PTL
=============================================================================
