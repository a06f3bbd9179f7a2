------------------------------ MODULE DhtShard ------------------------------
(***************************************************************************)
(* Publishers that announce themselves in one shard bucket of one service  *)
(* and minute: publish_shard and read_shard_state of                       *)
(* src/swarm/dht/publisher.rs, and query_shard of dht/resolver.rs.  Each   *)
(* publisher reads the bucket, merges its ad into it and puts it back with *)
(* a compare-and-swap on the sequence number, and starts over when it was  *)
(* overtaken.                                                              *)
(*                                                                         *)
(* The DHT (mainline) is external.  A get is answered by some of the       *)
(* nodes that hold the bucket, each with the version it has, which may be  *)
(* an old one; a put is decided by the nodes that hold the newest version. *)
(* With a cas, that version must have that sequence number; a lower        *)
(* sequence number than the stored one is refused, an equal one may be     *)
(* accepted or refused.                                                    *)
(***************************************************************************)
EXTENDS DhtBucket

CONSTANTS
  Offset,      \* how far each node's clock is ahead
  MinuteLen,   \* seconds of a minute
  TTL,         \* DHT_AD_TTL_SECS
  Retries,     \* DHT_PUBLISH_RETRIES
  MaxTime,     \* bound on the environment: the clock
  MaxVersions  \* bound on the environment: publications

ASSUME ShardAssumption ==
  /\ Offset \in [Nodes -> Nat] /\ MinuteLen \in Nat \ {0} /\ TTL \in Nat
  /\ Retries \in Nat \ {0} /\ MaxTime \in Nat /\ MaxVersions \in Nat

VARIABLES
  now,       \* time since the minute of this bucket began
  versions,  \* what has been stored under the bucket's key, the newest last
  pub        \* each node's publish_shard

vars == <<now, versions, pub>>

\* A MutableItem; by and cas say whose it is and what it replaced (history).
Item == [seq : Nat, ads : Seq(Ad), by : Nodes, cas : Nat]

\* latestSeq 0 is None.  since and misread are history: the versions there were at
\* the start, and the attempts whose read did not see the newest version.
Publisher ==
  [pc : {"idle", "reading", "putting"}, publishedAt : Nat, attempt : Nat,
   ads : Seq(Ad), latestSeq : Nat, since : Nat, misread : Nat]

\* Between two calls nothing is kept: publish_all only logs what they return.
Idle == [pc |-> "idle", publishedAt |-> 0, attempt |-> 0, ads |-> <<>>, latestSeq |-> 0,
         since |-> 0, misread |-> 0]

Init == now = 0 /\ versions = <<>> /\ pub = [n \in Nodes |-> Idle]

Clock(n) == now + Offset[n]

LocalAd(n) ==
  [node |-> n, publishedAt |-> pub[n].publishedAt, expiresAt |-> pub[n].publishedAt + TTL]

CurrentSeq == IF versions = <<>> THEN 0 ELSE Last(versions).seq

-----------------------------------------------------------------------------
(* publish_shard.                                                          *)

\* The publisher's turn comes in this minute, by its own clock.
Begin(n) ==
  /\ pub[n].pc = "idle" /\ Clock(n) < MinuteLen
  /\ Len(versions) + Cardinality({m \in Nodes : pub[m].pc # "idle"}) < MaxVersions
  /\ pub' = [pub EXCEPT ![n] = [Idle EXCEPT !.pc = "reading", !.publishedAt = Clock(n),
                                            !.since = Len(versions)]]
  /\ UNCHANGED <<now, versions>>

\* Mutant of LatestSeq: that of the first reply.
FirstSeq(replies) == IF replies = {} THEN 0 ELSE versions[Min(replies)].seq

\* The highest sequence number among the replies, if any.
LatestSeq(replies) == IF replies = {} THEN 0 ELSE Max({versions[i].seq : i \in replies})

\* The buckets in the replies; a version that nobody answers with adds nothing.
Buckets(replies) == [i \in DOMAIN versions |-> IF i \in replies THEN versions[i].ads ELSE <<>>]

\* The merged ads; time stands still at published_at.
ReadShardState(n, replies) == MergeValid(Buckets(replies), pub[n].publishedAt)

\* The bucket with the own ad merged in, cut to size.
Updated(n, replies) == TrimToSize(Upsert(ReadShardState(n, replies), LocalAd(n)), n)

\* The bucket is read (not at all if the task that reads it fails) and updated.
Read(n, replies) ==
  LET missed == IF versions = <<>> \/ Len(versions) \in replies THEN 0 ELSE 1
  IN  /\ pub[n].pc = "reading" /\ Updated(n, replies).fits
      /\ pub' = [pub EXCEPT ![n] = [@ EXCEPT !.pc = "putting", !.ads = Updated(n, replies).ads,
                                              !.latestSeq = LatestSeq(replies),
                                              !.misread = pub[n].misread + missed]]
      /\ UNCHANGED <<now, versions>>

\* The own ad alone exceeds the bucket: publish_shard fails.
TooLarge(n, replies) ==
  /\ pub[n].pc = "reading" /\ ~Updated(n, replies).fits
  /\ pub' = [pub EXCEPT ![n] = Idle]
  /\ UNCHANGED <<now, versions>>

\* Mutant of NewItem: put_mutable(item, None).
NewItemUnchecked(n) ==
  [seq |-> pub[n].latestSeq + 1, ads |-> pub[n].ads, by |-> n, cas |-> 0]

NewItem(n) == [seq |-> pub[n].latestSeq + 1, ads |-> pub[n].ads, by |-> n, cas |-> pub[n].latestSeq]

MayStore(item) ==
  /\ item.cas # 0 => CurrentSeq = item.cas
  /\ item.seq >= CurrentSeq

MayRefuse(item) == CurrentSeq >= item.seq \/ (item.cas # 0 /\ CurrentSeq # item.cas)

\* put_mutable stores the item, and succeeds or fails because its answer is lost.
Stored(n) ==
  /\ pub[n].pc = "putting" /\ MayStore(NewItem(n))
  /\ versions' = Append(versions, NewItem(n))
  /\ pub' = [pub EXCEPT ![n] = Idle]
  /\ UNCHANGED now

\* PutMutableError::Query, and nothing is stored.
QueryFails(n) ==
  /\ pub[n].pc = "putting"
  /\ pub' = [pub EXCEPT ![n] = Idle]
  /\ UNCHANGED <<now, versions>>

\* PutMutableError::Concurrency, and an attempt is left.
Retry(n) ==
  /\ pub[n].pc = "putting" /\ MayRefuse(NewItem(n)) /\ pub[n].attempt + 1 < Retries
  /\ pub' = [pub EXCEPT ![n] = [@ EXCEPT !.pc = "reading", !.attempt = pub[n].attempt + 1,
                                          !.ads = <<>>, !.latestSeq = 0]]
  /\ UNCHANGED <<now, versions>>

\* PutMutableError::Concurrency in the last attempt.
GiveUp(n) ==
  /\ pub[n].pc = "putting" /\ MayRefuse(NewItem(n)) /\ pub[n].attempt + 1 >= Retries
  /\ pub' = [pub EXCEPT ![n] = Idle]
  /\ UNCHANGED <<now, versions>>

PublishStep(n) ==
  \/ Begin(n) \/ Stored(n) \/ QueryFails(n) \/ Retry(n) \/ GiveUp(n)
  \/ \E replies \in SUBSET DOMAIN versions : Read(n, replies) \/ TooLarge(n, replies)

Tick == now < MaxTime /\ now' = now + 1 /\ UNCHANGED <<versions, pub>>

Next == Tick \/ \E n \in Nodes : PublishStep(n)

Spec == Init /\ [][Next]_vars

-----------------------------------------------------------------------------
(* query_shard, which changes nothing: what a resolver makes of some       *)
(* replies at some time.                                                   *)

QueryShard(replies, time) == MergeValid(Buckets(replies), time)

-----------------------------------------------------------------------------
(* Properties.                                                             *)

\* What is stored under the bucket's key fits into a DHT value, has one ad of each
\* node, and has an ad of the node that put it there, first: merging and trimming
\* never cost a publisher its own place.
BucketsWellFormed ==
  \A v \in DOMAIN versions :
    LET item == versions[v]
    IN  /\ Size(item.ads) <= MaxSize
        /\ \A i, j \in DOMAIN item.ads : item.ads[i].node = item.ads[j].node => i = j
        /\ item.ads # <<>> /\ item.ads[1].node = item.by

\* The ads that are stored in some version.
StoredAds == UNION {ToSet(versions[v].ads) : v \in DOMAIN versions}

\* A bucket has an ad of the same node that is not older.
Keeps(item, ad) ==
  \E i \in DOMAIN item.ads : item.ads[i].node = ad.node /\ ~Precedes(ad, item.ads[i])

\* What a step that stores an item does to the ads that were there: see below.
KeepsAds ==
  versions' # versions /\ versions # <<>> =>
    LET item == Last(versions')
        time == pub[item.by].publishedAt
    IN  \/ item.seq = 1
        \/ \E v \in 1 .. Len(versions) - 1 : versions[v].seq = Last(versions).seq
        \/ \A ad \in ToSet(Last(versions).ads) :
             Verify(ad, time) /\ ~Keeps(item, ad) =>
               /\ \A i \in DOMAIN item.ads :
                    item.ads[i].node = item.by \/ Precedes(item.ads[i], ad)
               /\ \E b \in StoredAds :
                    /\ Verify(b, time) /\ ~Keeps(item, b) /\ ~Precedes(ad, b)
                    /\ Size(item.ads) + AdSize[b.node] > MaxSize

\* An ad that is stored and that a publisher considers valid disappears from the
\* bucket only if everything that stays, but for the publisher's own ad, is newer, and
\* a valid ad that is as new as it or newer does not fit any more; or if the first
\* publications of the minute race: two items with sequence number 1 cannot be told
\* apart.  In particular an ad is never replaced by an older one of its node, and no
\* concurrent publication is lost once a sequence number protects the bucket.
UpdateKeepsAds == [][KeepsAds]_vars

\* "DHT shard remained contended after retries" is returned only to a publisher
\* that was overtaken by another publication, or did not see the newest version, in
\* each of its attempts.
ContendedMeansOvertaken ==
  [][\A n \in Nodes : GiveUp(n) =>
       (Len(versions) - pub[n].since) + pub[n].misread >= Retries]_vars

\* Whatever replies a resolver gets and whenever: it finds a node exactly if some
\* reply has an ad of it that is valid then, and it finds the newest such ad.
ResolveIsNewest ==
  \A replies \in SUBSET DOMAIN versions, time \in {now, now + TTL} :
    LET found == QueryShard(replies, time)
        offered == {ad \in UNION {ToSet(versions[i].ads) : i \in replies} : Verify(ad, time)}
    IN  /\ ToSet(found) = {ad \in offered : \A b \in offered : b.node = ad.node => ~Precedes(b, ad)}
        /\ \A i, j \in DOMAIN found : i < j => Precedes(found[i], found[j])
=============================================================================
