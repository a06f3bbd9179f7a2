------------------------------ MODULE DhtFeed ------------------------------
(***************************************************************************)
(* Finding a peer through the DHT: the publisher's timetable (run and      *)
(* publish_all of swarm/dht/publisher.rs) against the feed's (dht_feed of  *)
(* swarm/peers.rs), over buckets named by the minute in which they were    *)
(* written.  What a bucket holds and how publishers contend for it is      *)
(* module DhtShard; here a bucket holds this publisher's ad or not, an ad  *)
(* has the tags the feed requires, and every put succeeds.                 *)
(*                                                                         *)
(* Time is counted in ticks from an arbitrary start.  A timer that is due  *)
(* fires and a DHT operation ends within its bound before time goes on.    *)
(***************************************************************************)
EXTENDS Integers, FiniteSets

CONSTANTS
  Minute,            \* ticks in a minute
  TTL,               \* DHT_AD_TTL_SECS
  Shards,            \* DHT_SHARD_COUNT of them
  Replicas,          \* DHT_REPLICA_COUNT
  Concurrency,       \* DHT_QUERY_CONCURRENCY
  PublishIntervals,  \* the publish_intervals and
  PollIntervals,     \* the poll_intervals that occur
  PutTime,           \* bound on the environment: ticks for one put
  PassTime,          \* bound on the environment: ticks for the queries of one pass
  StartBy,           \* bound: both begin within this many ticks
  Horizon            \* bound on the run, in ticks

ASSUME TimesAssumption ==
  /\ Minute \in Nat \ {0} /\ TTL \in Nat /\ TTL >= 2 * Minute
  /\ Shards \subseteq Nat /\ IsFiniteSet(Shards) /\ Replicas \in 1 .. Cardinality(Shards)
  /\ Concurrency \in Nat \ {0} /\ PutTime \in Nat /\ PassTime \in Nat
  /\ StartBy \in Nat /\ Horizon \in Nat
  /\ PublishIntervals \subseteq Nat \ {0} /\ PollIntervals \subseteq Nat \ {0}
  /\ \A i \in PollIntervals : PassTime < i
  /\ \A i \in PublishIntervals : Replicas * PutTime < i

VARIABLES
  now,     \* the clock
  plan,    \* publish_interval, poll_interval and the publisher's shards
  pub,     \* the publisher: its task and its timer
  ads,     \* the DHT: the publisher's ads, by bucket
  feed,    \* the feed: its pass over the shards and its timer
  found,   \* has the feed yielded the peer?
  since    \* history: when each began, and what the DHT held when the burst did

feedVars == <<now, plan, pub, ads, feed, found, since>>

Never == 0 - 1

\* unix_minute
MinuteOf(t) == t \div Minute

\* apply_minute_offset: an unsigned minute, which saturates at zero.
ApplyOffset(m, offset) == IF m + offset < 0 THEN 0 ELSE m + offset

FeedInit ==
  /\ now = 0
  /\ \E i \in PublishIntervals, j \in PollIntervals,
        s \in {r \in SUBSET Shards : Cardinality(r) = Replicas} :
       plan = [publish |-> i, poll |-> j, shards |-> s]
  /\ pub = [pc |-> "off", todo |-> {}, at |-> 0, next |-> Never]
  /\ ads = {}
  /\ feed = [pc |-> "off", offset |-> 0, minute |-> 0, todo |-> {}, by |-> 0, next |-> 0]
  /\ found = FALSE
  /\ since = [pub |-> Never, feed |-> Never, turned |-> FALSE, known |-> {}]

-----------------------------------------------------------------------------
(* The publisher.                                                          *)

\* publish_all takes its shards one by one; publish_shard reads the clock first.
PublishAll(next) ==
  pub' = [pc |-> "putting", todo |-> plan.shards, at |-> now, next |-> next]

\* The first round is published before the interval is created.
PubStart ==
  /\ pub.pc = "off" /\ now <= StartBy /\ PublishAll(Never)
  /\ UNCHANGED <<now, plan, ads, feed, found, since>>

PubTick ==
  /\ pub.pc = "idle" /\ now >= pub.next /\ PublishAll(pub.next + plan.publish)
  /\ UNCHANGED <<now, plan, ads, feed, found, since>>

\* The put of one shard ends: the ad is in the bucket of the minute in which
\* publish_shard began, however late that is.
Put(s) ==
  /\ pub.pc = "putting" /\ s \in pub.todo
  /\ LET m == MinuteOf(pub.at)
     IN  ads' = {a \in ads : a.shard # s \/ a.minute # m}
                  \cup {[shard |-> s, minute |-> m, at |-> pub.at]}
  /\ IF pub.todo = {s}
     THEN /\ pub' = [pc |-> "idle", todo |-> {}, at |-> 0,
                     next |-> IF pub.next = Never THEN now + plan.publish ELSE pub.next]
          /\ since' = [since EXCEPT !.pub = IF @ = Never THEN now ELSE @]
     ELSE pub' = [pub EXCEPT !.todo = @ \ {s}, !.at = now] /\ UNCHANGED since
  /\ UNCHANGED <<now, plan, feed, found>>

\* shutdown_rx.recv in the select!.
PubStop ==
  /\ pub.pc = "idle" /\ pub' = [pub EXCEPT !.pc = "stopped"]
  /\ UNCHANGED <<now, plan, ads, feed, found, since>>

-----------------------------------------------------------------------------
(* The feed.                                                               *)

Pass(pc, offset, next) ==
  feed' = [pc |-> pc, offset |-> offset, minute |-> ApplyOffset(MinuteOf(now), offset),
           todo |-> Shards, by |-> now + PassTime, next |-> next]

\* dht_feed: the interval starts, and the burst's first pass.
FeedStart ==
  /\ feed.pc = "off" /\ now <= StartBy /\ Pass("burst", 0, now + plan.poll)
  /\ since' = [since EXCEPT !.feed = now,
                  !.known = {a.minute : a \in {b \in ads : b.at + TTL > now + 2 * PassTime}}]
  /\ UNCHANGED <<now, plan, pub, ads, found>>

\* The shards in flight: buffer_unordered takes them in order.
InFlight == {s \in feed.todo : Cardinality({r \in feed.todo : r < s}) < Concurrency}

\* query_shard: the ad that is in the bucket and not expired.
Answer(s) ==
  \E a \in ads : a.shard = s /\ a.minute = feed.minute /\ now < a.at + TTL

QueryShard(s) ==
  /\ feed.pc \in {"burst", "poll"} /\ s \in InFlight
  /\ feed' = [feed EXCEPT !.todo = @ \ {s}]
  /\ found' = (found \/ Answer(s))
  /\ UNCHANGED <<now, plan, pub, ads, since>>

\* Mutant of NextPass: the burst looks at the current minute only.
NextPassOnce ==
  /\ feed.pc \in {"burst", "poll"} /\ feed.todo = {}
  /\ feed' = [feed EXCEPT !.pc = "wait"] /\ UNCHANGED since
  /\ UNCHANGED <<now, plan, pub, ads, found>>

\* The pass is over: the burst goes on to the minute before the one it is now, and
\* then the polling waits for its interval.
NextPass ==
  /\ feed.pc \in {"burst", "poll"} /\ feed.todo = {}
  /\ IF feed.pc = "burst" /\ feed.offset = 0
     THEN /\ Pass("burst", 0 - 1, feed.next)
          /\ since' = [since EXCEPT !.turned = MinuteOf(now) # feed.minute]
     ELSE feed' = [feed EXCEPT !.pc = "wait"] /\ UNCHANGED since
  /\ UNCHANGED <<now, plan, pub, ads, found>>

\* Mutant of Poll: the minute is that of the burst.
PollFrozen ==
  /\ feed.pc = "wait" /\ now >= feed.next
  /\ feed' = [feed EXCEPT !.pc = "poll", !.todo = Shards, !.by = now + PassTime,
                          !.next = feed.next + plan.poll]
  /\ UNCHANGED <<now, plan, pub, ads, found, since>>

\* interval.next(): a pass over the current minute.
Poll ==
  /\ feed.pc = "wait" /\ now >= feed.next
  /\ Pass("poll", 0, feed.next + plan.poll)
  /\ UNCHANGED <<now, plan, pub, ads, found, since>>

-----------------------------------------------------------------------------
(* The clock.                                                              *)

Due == \/ pub.pc = "idle" /\ now >= pub.next
       \/ pub.pc = "putting" /\ now >= pub.at + PutTime
       \/ feed.pc = "wait" /\ now >= feed.next
       \/ feed.pc \in {"burst", "poll"} /\ (now >= feed.by \/ feed.todo = {})

Tick ==
  /\ ~Due /\ now < Horizon /\ now' = now + 1
  /\ UNCHANGED <<plan, pub, ads, feed, found, since>>

FeedNext ==
  \/ PubStart \/ PubTick \/ PubStop \/ \E s \in Shards : Put(s)
  \/ FeedStart \/ (\E s \in Shards : QueryShard(s)) \/ NextPass \/ Poll
  \/ Tick

FeedSpec == FeedInit /\ [][FeedNext]_feedVars

-----------------------------------------------------------------------------
(* Properties.                                                             *)

\* The intervals leave room for both timetables in one minute: a publication in its
\* first part, a poll in the rest.  (The defaults, 30 s and 60 s, do not.)
RoomInMinute == plan.poll + plan.publish + Replicas * PutTime <= Minute

\* With room in the minute, a peer that publishes and a feed that polls meet within
\* two minutes and a pass of the first round's end and of the burst's, whatever their
\* phases, however slow the DHT is within its bounds, although each poll looks at the
\* current minute only and a long burst makes the first polls late.
FeedFinds ==
  (RoomInMinute /\ since.pub # Never /\ since.feed # Never /\ pub.pc # "stopped"
     /\ now >= since.pub + 2 * Minute + PassTime
     /\ now >= since.feed + 2 * Minute + 3 * PassTime) => found

\* The burst finds a peer whose ad, when it began, was in the bucket of that minute or
\* of the one before and does not expire on the way; if the minute turns between its
\* two passes, both of them look at the same minute and the one before is left out.
BurstCovers ==
  LET began == MinuteOf(since.feed)
      Covered == {began} \cup {m \in {began - 1} : ~since.turned}
  IN  (feed.pc \in {"wait", "poll"} /\ since.known \cap Covered # {}) => found

=============================================================================
