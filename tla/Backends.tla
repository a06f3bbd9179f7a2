------------------------------ MODULE Backends ------------------------------
(***************************************************************************)
(* The discovery backends of swarm/discovery.rs and the feeds they make    *)
(* (swarm/peers.rs): static lists, mDNS events and the peer-exchange       *)
(* broadcast channel, merged per stream as the registry's discover() and   *)
(* find() do.  The DHT's feed is module DhtFeed, the polling of the        *)
(* merged stream by a locator is module Locator.                           *)
(***************************************************************************)
EXTENDS Naturals, Sequences

CONSTANTS
  Streams,    \* the streams that discover() and find() make
  Alpns,      \* services
  Peers,      \* remote EndpointIds
  Specs,      \* the StaticBackend's groups: records [scope, peers]
  Missing,    \* an endpoint without user data
  UserData,   \* what the peers may publish through mDNS: functions to Metadata
  Capacity,   \* of the broadcast channel: 128 in the code
  MaxIngest   \* bound: announcements per behaviour

Metadata == SUBSET Alpns \cup {Missing}
StaticSpec == [scope : Alpns \cup {"Any"}, peers : SUBSET Peers]
Sources == {"static", "mdns", "peer-exchange"}

ASSUME BackendAssumption ==
  /\ Capacity \in Nat \ {0} /\ MaxIngest \in Nat
  /\ UserData \subseteq [Peers -> Metadata]
  /\ Specs \subseteq StaticSpec

VARIABLES
  userData,  \* what each peer publishes through mDNS
  sent,      \* the broadcast channel: every peer sent while it had a receiver
  stream     \* the merged streams

vars == <<userData, sent, stream>>

\* A stream that does not exist, or no longer.
NoStream == [alpn |-> "none", static |-> {}, since |-> 0, next |-> 0, lost |-> {},
             seen |-> [p \in Peers |-> "none"]]

\* A stream: its service, the static peers to come, where its receiver was subscribed
\* and is now, what it lost, and the source of each peer it has yielded.
Stream == [alpn : Alpns \cup {"none"}, static : SUBSET Peers, since : Nat, next : Nat,
           lost : SUBSET Nat, seen : [Peers -> Sources \cup {"none"}]]

Live(s) == stream[s].alpn # "none"

Init ==
  /\ userData \in UserData
  /\ sent = <<>> /\ stream = [s \in Streams |-> NoStream]

-----------------------------------------------------------------------------
ScopeMatches(scope, alpn) == scope = "Any" \/ scope = alpn

\* StaticBackend::feeds, as far as the engine keeps them.
StaticPeers(alpn) ==
  UNION {spec.peers : spec \in {x \in Specs : ScopeMatches(x.scope, alpn)}}

\* PeerExchangeBackend::feeds: a receiver sees what is sent from now on.
Subscribe == Len(sent) + 1

\* build_feeds, with SwarmEngine::new: the groups whose scope matches, an mDNS
\* subscription, and a receiver of the broadcast channel.
Feeds(s, alpn) ==
  /\ ~Live(s)
  /\ stream' = [stream EXCEPT ![s] =
       [alpn |-> alpn, static |-> StaticPeers(alpn), since |-> Subscribe, next |-> Subscribe,
        lost |-> {}, seen |-> [p \in Peers |-> "none"]]]
  /\ UNCHANGED <<userData, sent>>

\* The stream is dropped, and its receiver with it.
DropStream(s) ==
  /\ Live(s) /\ stream' = [stream EXCEPT ![s] = NoStream]
  /\ UNCHANGED <<userData, sent>>

\* The engine passes a peer on once, tagged with the source that was first.
Yield(st, p, source) == [st EXCEPT !.seen[p] = IF @ = "none" THEN source ELSE @]

\* static_feed: one item.
StaticNext(s, p) ==
  /\ Live(s) /\ p \in stream[s].static
  /\ LET st == [stream[s] EXCEPT !.static = @ \ {p}]
     IN  stream' = [stream EXCEPT ![s] = Yield(st, p, "static")]
  /\ UNCHANGED <<userData, sent>>

\* Mutant of Classify: no metadata is no obstacle.
ClassifyLenient(data, alpn) ==
  IF data = Missing \/ alpn \in data THEN "Match" ELSE "Mismatch"

\* classify_user_data_alpn.
Classify(data, alpn) ==
  CASE data = Missing -> "Missing"
    [] data # Missing /\ alpn \in data -> "Match"
    [] OTHER -> "Mismatch"

\* mdns_feed: a Discovered event; any but a match is skipped.
MdnsEvent(s, p) ==
  /\ Live(s) /\ Classify(userData[p], stream[s].alpn) = "Match"
  /\ stream' = [stream EXCEPT ![s] = Yield(stream[s], p, "mdns")]
  /\ UNCHANGED <<userData, sent>>

\* ingest_peers, for one peer.  send fails when there is no receiver, and the
\* failure is ignored.
Ingest(p) ==
  /\ Len(sent) < MaxIngest
  /\ sent' = IF \E s \in Streams : Live(s) THEN Append(sent, p) ELSE sent
  /\ UNCHANGED <<userData, stream>>

Lags(s) == stream[s].next + Capacity <= Len(sent)

\* peer_exchange_feed: the next item.
Receive(s) ==
  /\ Live(s) /\ stream[s].next <= Len(sent) /\ ~Lags(s)
  /\ LET st == [stream[s] EXCEPT !.next = @ + 1]
     IN  stream' = [stream EXCEPT ![s] = Yield(st, sent[stream[s].next], "peer-exchange")]
  /\ UNCHANGED <<userData, sent>>

\* Mutant of Lagged: the receiver skips to the end.
LaggedToEnd(s) ==
  /\ Live(s) /\ Lags(s)
  /\ stream' = [stream EXCEPT ![s].next = Len(sent) + 1,
                              ![s].lost = @ \cup (stream[s].next .. Len(sent))]
  /\ UNCHANGED <<userData, sent>>

\* Mutant of Lagged: the error ends the feed.
LaggedEnds(s) ==
  /\ Live(s) /\ Lags(s) /\ UNCHANGED vars

\* The receiver is told Lagged, which filter_map drops, and goes on with the oldest
\* item that is still there.
Lagged(s) ==
  /\ Live(s) /\ Lags(s)
  /\ LET oldest == Len(sent) - Capacity + 1
         st == [stream[s] EXCEPT !.next = oldest,
                                 !.lost = @ \cup (stream[s].next .. oldest - 1)]
     IN  stream' = [stream EXCEPT ![s] = st]
  /\ UNCHANGED <<userData, sent>>

Next ==
  \/ \E s \in Streams : \/ \E a \in Alpns : Feeds(s, a)
                        \/ \E p \in Peers : StaticNext(s, p) \/ MdnsEvent(s, p)
                        \/ Receive(s) \/ Lagged(s) \/ DropStream(s)
  \/ \E p \in Peers : Ingest(p)

\* A stream that somebody polls is polled whenever an item is ready.
Fairness == \A s \in Streams : WF_vars(Receive(s)) /\ WF_vars(Lagged(s))

Spec == Init /\ [][Next]_vars /\ Fairness

-----------------------------------------------------------------------------
(* Properties.                                                             *)

\* Every variable has its type; a receiver is never before the place where it was
\* subscribed, nor past the end.
TypeOK ==
  /\ userData \in UserData /\ sent \in Seq(Peers)
  /\ stream \in [Streams -> Stream]
  /\ \A s \in Streams : stream[s].next \in stream[s].since .. Len(sent) + 1

\* What a source stands for when the stream tags a peer with it, and so what the
\* peer's trust rests on: a static group for the service, metadata that names the
\* service, or an announcement made since the stream began.  In particular no feed
\* offers a peer that is known to serve something else only.
Provenance ==
  \A s \in Streams, p \in Peers :
    LET st == stream[s]
    IN  /\ st.seen[p] = "static" =>
             \E spec \in Specs : p \in spec.peers /\ spec.scope \in {"Any", st.alpn}
        /\ st.seen[p] = "mdns" => userData[p] # Missing /\ st.alpn \in userData[p]
        /\ st.seen[p] = "peer-exchange" =>
             \E i \in st.since .. Len(sent) : sent[i] = p /\ i \notin st.lost

\* A slow stream loses announcements silently, but only the oldest ones: the last
\* Capacity of them since it began are never lost, and what is not lost and not
\* ahead of it has been passed on.
NewestKept ==
  \A s \in Streams :
    LET st == stream[s]
    IN  /\ \A i \in st.lost : i + Capacity <= Len(sent)
        /\ \A i \in (st.since .. st.next - 1) \ st.lost : st.seen[sent[i]] # "none"

\* A stream that goes on being polled ends up with the newest announcement, however
\* far it has fallen behind: a gap does not end the feed.
Announced(s, p) == sent # <<>> /\ sent[Len(sent)] = p /\ Live(s) /\ stream[s].since <= Len(sent)
NewestArrives ==
  \A s \in Streams, p \in Peers :
    Announced(s, p) ~> (~Announced(s, p) \/ stream[s].seen[p] # "none")
=============================================================================
