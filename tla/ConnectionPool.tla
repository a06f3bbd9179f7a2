--------------------------- MODULE ConnectionPool ---------------------------
(***************************************************************************)
(* The connection pool of src/pool.rs: one pool actor that owns the table  *)
(* of connection slots, one actor task per connection, and the callers of  *)
(* get_or_connect and open_stream.  They share three kinds of channel: the *)
(* pool's bounded queue of Msg, each connection actor's bounded mailbox of *)
(* RequestMsg, and a oneshot reply per request.                            *)
(*                                                                         *)
(* A step is what a task does between two points at which it can be        *)
(* overtaken.  Every `send(..).await` on the pool's queue is a step of its *)
(* own, because the queue may be full.  A oneshot reply and its receipt    *)
(* are one step: between them only the caller's own cancellation can       *)
(* happen, and that has the same effect before and after the receipt.      *)
(* Time is abstract: a timer that is armed may fire at any moment.         *)
(***************************************************************************)
EXTENDS Naturals, Sequences, FiniteSets

CONSTANTS
  Peers,            \* EndpointIds that callers ask for
  Callers,          \* tasks that use the pool, one operation at a time
  Ops,              \* what they call: "get" get_or_connect, "open" open_stream
  MaxConnections,   \* PoolOptions::max_connections
  PoolCapacity,     \* POOL_CHANNEL_CAPACITY
  ConnCapacity,     \* CONNECTION_CHANNEL_CAPACITY
  Retries,          \* OPEN_STREAM_RETRIES
  MaxGeneration,    \* bound on the environment: connections made in a run
  MaxLosses,        \* bound on the environment: connections lost in a run
  Reserve           \* bound on the environment: generations kept for each operation

ASSUME BoundsAssumption ==
  /\ MaxConnections \in Nat /\ PoolCapacity \in Nat \ {0}
  /\ ConnCapacity \in Nat \ {0} /\ Retries \in Nat \ {0}
  /\ MaxGeneration \in Nat /\ MaxLosses \in Nat /\ Reserve \in Nat

ASSUME CallersAssumption == IsFiniteSet(Callers) /\ Ops \subseteq {"get", "open"}

VARIABLES
  closed,       \* Shutdown.closed: the last handle has been dropped
  pool,         \* where the pool actor's task is
  queue,        \* the pool actor's mpsc channel
  connections,  \* the slot table: the generation of each peer's slot, 0 if none
  idle,         \* PoolActor.idle, oldest first
  nextGen,      \* PoolActor.next_generation
  actor,        \* the connection actors' local state, by generation
  caller,       \* the callers' local state
  losses        \* connections lost so far (bound only)

vars == <<closed, pool, queue, connections, idle, nextGen, actor, caller, losses>>

-----------------------------------------------------------------------------
(* The values that travel and that are kept.                               *)

RequestMsg(c, p) == [type |-> "Request", id |-> p, caller |-> c]
IdleMsg(p, g) == [type |-> "Idle", id |-> p, generation |-> g]
ShutdownMsg(p, g) == [type |-> "Shutdown", id |-> p, generation |-> g]

IdleEntry == [id : Peers, generation : Nat]

Msg == [type : {"Request"}, id : Peers, caller : Callers]
         \cup [type : {"Idle", "Shutdown"}, id : Peers, generation : Nat]

\* "unstarted": the OnceLock is empty.  "missed": close() fell between the
\* check at the loop's top and the creation of the Notified future, so that the
\* actor sits in its select without a wake-up.  "stopping": it will see the
\* flag or the wake-up next.  "draining": it only waits for its tasks.
PoolStates == {"unstarted", "running", "missed", "stopping", "draining", "stopped"}

\* "loop" is the select!; the "report" states are awaits of a send to the pool
\* (with what follows it), "refuse" the one that answers Closed afterwards.
ActorStates == {"connecting", "reportFailure", "loop", "reportClosed", "refuse",
                "reportIdle", "reportExpired", "exit", "stopped"}

Actor == [pc : ActorStates,
          id : Peers,
          mailbox : Seq(Callers),
          req : SUBSET Callers,                          \* popped, not yet answered
          conn : {"none", "open", "lost", "closed"},     \* closed: by this actor
          count : Nat,                                   \* ConnectionCounter.count
          permit : BOOLEAN,                              \* its Notify holds a permit
          idleActive : BOOLEAN,
          pending : BOOLEAN,                             \* shutdown_pending
          wake : BOOLEAN]                                \* shutdown_wait is ready

NewActor(p, c) ==
  [pc |-> "connecting", id |-> p, mailbox |-> <<c>>, req |-> {}, conn |-> "none",
   count |-> 0, permit |-> FALSE, idleActive |-> FALSE, pending |-> FALSE,
   wake |-> FALSE]

CallerStates == {"ready", "sending", "waiting", "opening", "invalidating",
                 "holding", "gone"}

Caller == [pc : CallerStates,
           op : {"none"} \cup Ops,
           peer : SUBSET Peers,           \* {} between operations
           attempt : Nat,                 \* of get_or_connect
           tries : Nat,                   \* of open_stream
           gen : Nat,                     \* the leased generation, 0 if none
           burned : SUBSET Nat]           \* generations this operation gave up on

\* The caller back between operations, its last one having ended well or not.
Returned ==
  [pc |-> "ready", op |-> "none", peer |-> {}, attempt |-> 0, tries |-> 0, gen |-> 0,
   burned |-> {}]

Gens == 1 .. (nextGen - 1)

\* Callers that own a ConnectionRef of generation g.
Holders(g) == {c \in Callers : caller[c].gen = g}

Busy(c) == caller[c].pc \in {"sending", "waiting", "opening", "invalidating"}

Init ==
  /\ closed = FALSE /\ pool = "unstarted" /\ queue = <<>>
  /\ connections = [p \in Peers |-> 0] /\ idle = <<>> /\ nextGen = 1
  /\ actor = <<>> /\ caller = [c \in Callers |-> Returned] /\ losses = 0

-----------------------------------------------------------------------------
(* Channels and counters.                                                  *)

PoolListens == pool \in {"unstarted", "running", "missed", "stopping"}

\* pool_tx.send(m).await by an actor: it waits for room, and fails at once (the
\* failure is ignored) when the pool has closed its receiver.
PoolSend(m) ==
  \/ /\ PoolListens /\ Len(queue) < PoolCapacity
     /\ queue' = Append(queue, m)
  \/ /\ ~PoolListens
     /\ UNCHANGED queue

\* The connection actor of generation g goes on in state a.
Become(g, a) == actor' = [actor EXCEPT ![g] = a]

\* Mutant of Dropped: the permit is left when the counter was already zero.
DroppedSilently(a) ==
  [a EXCEPT !.count = a.count - 1, !.permit = IF a.count = 0 THEN TRUE ELSE a.permit]

\* OneConnection::drop: the last lease of a connection leaves a permit behind.
Dropped(a) ==
  [a EXCEPT !.count = a.count - 1, !.permit = IF a.count = 1 THEN TRUE ELSE a.permit]

\* Mutants of HandOut: the idle timer stays armed; a lease that comes back is
\* never dropped.
HandOutKeepsTimer(a, gone) ==
  LET served == [a EXCEPT !.mailbox = Tail(a.mailbox), !.count = a.count + 1]
  IN  IF gone THEN Dropped(served) ELSE served

HandOutLeaks(a, gone) ==
  [a EXCEPT !.mailbox = Tail(a.mailbox), !.idleActive = FALSE, !.count = a.count + 1]

\* The connection actor hands out a lease: get_one, then the idle timer is
\* disarmed.  When the caller is gone the ConnectionRef comes back and is dropped.
HandOut(a, gone) ==
  LET served == [a EXCEPT !.mailbox = Tail(a.mailbox), !.idleActive = FALSE,
                          !.count = a.count + 1]
  IN  IF gone THEN Dropped(served) ELSE served

\* What a reply does to the caller that awaits it; a caller that does not wait any
\* more is gone and has dropped its receiver.
Leased(k, g) ==
  IF k.pc # "waiting" THEN k
  ELSE [k EXCEPT !.pc = IF k.op = "open" THEN "opening" ELSE "holding", !.gen = g]

\* Mutant of Failed: after Closed the loop awaits a reply without a new request.
FailedNoResend(k, error, g) ==
  CASE k.pc # "waiting" -> k
    [] k.pc = "waiting" /\ error = "Closed" /\ k.attempt + 1 < Retries ->
         [k EXCEPT !.attempt = k.attempt + 1, !.burned = k.burned \cup {g}]
    [] OTHER -> Returned

\* An Err reply: get_or_connect tries again after Closed while it has attempts
\* left and returns every other error.
Failed(k, error, g) ==
  CASE k.pc # "waiting" -> k
    [] k.pc = "waiting" /\ error = "Closed" /\ k.attempt + 1 < Retries ->
         [k EXCEPT !.pc = "sending", !.attempt = k.attempt + 1, !.burned = k.burned \cup {g}]
    [] OTHER -> Returned

-----------------------------------------------------------------------------
(* The slot table and the idle list of the pool actor.                     *)

\* retain: what is kept of the first n entries of the idle list, by recursion on n
\* (SelectSeq takes an operator, which the proofs could not look into).
KeptIdle(p) ==
  LET kept[n \in 0 .. Len(idle)] ==
        IF n = 0 THEN <<>>
        ELSE IF idle[n].id = p THEN kept[n - 1] ELSE Append(kept[n - 1], idle[n])
  IN  kept

RemoveIdle(p) == KeptIdle(p)[Len(idle)]

AddIdle(p, g) == Append(RemoveIdle(p), [id |-> p, generation |-> g])

\* Mutant of MatchesGeneration: any slot of the peer matches.
MatchesAnyGeneration(p, g) == connections[p] # 0

MatchesGeneration(p, g) == g # 0 /\ connections[p] = g

SlotsUsed(table) == Cardinality({p \in Peers : table[p] # 0})

AtLimit(table) == SlotsUsed(table) >= MaxConnections

\* The idle entries evict_idle_connection would accept: those of current slots.
Evictable(table, q) == {i \in 1 .. Len(q) : table[q[i].id] = q[i].generation}

FirstOf(S) == CHOOSE i \in S : \A j \in S : i <= j

\* Handling one message brings the pool actor back to the top of its loop.
AfterSelect == IF pool = "missed" THEN "stopping" ELSE pool

Handling(type) ==
  /\ pool \in {"running", "missed"}
  /\ queue # <<>> /\ Head(queue).type = type
  /\ queue' = Tail(queue) /\ pool' = AfterSelect

\* The slot of the request's peer has an actor that still owns its receiver.
SlotOpen(p) == connections[p] # 0 /\ actor[connections[p]].pc # "stopped"

\* The table without a slot whose actor is gone (TrySendError::Closed).
Pruned(p) == IF SlotOpen(p) THEN connections ELSE [connections EXCEPT ![p] = 0]

Forward ==
  LET m == Head(queue)
      g == connections[m.id]
  IN  /\ Handling("Request")
      /\ SlotOpen(m.id) /\ Len(actor[g].mailbox) < ConnCapacity
      /\ idle' = RemoveIdle(m.id)
      /\ Become(g, [actor[g] EXCEPT !.mailbox = Append(@, m.caller)])
      /\ UNCHANGED <<closed, connections, nextGen, caller, losses>>

\* Mutant of RejectBusy: the caller of a saturated actor is not told.
RejectBusySilently ==
  LET m == Head(queue)
  IN  /\ Handling("Request")
      /\ SlotOpen(m.id) /\ Len(actor[connections[m.id]].mailbox) >= ConnCapacity
      /\ idle' = RemoveIdle(m.id)
      /\ UNCHANGED <<closed, connections, nextGen, actor, caller, losses>>

RejectBusy ==
  LET m == Head(queue)
  IN  /\ Handling("Request")
      /\ SlotOpen(m.id) /\ Len(actor[connections[m.id]].mailbox) >= ConnCapacity
      /\ idle' = RemoveIdle(m.id)
      /\ caller' = [caller EXCEPT ![m.caller] = Failed(@, "Busy", 0)]
      /\ UNCHANGED <<closed, connections, nextGen, actor, losses>>

\* No slot and no room: evict_idle_connection has emptied the idle list in vain.
RejectTooMany ==
  LET m == Head(queue)
      table == Pruned(m.id)
  IN  /\ Handling("Request")
      /\ ~SlotOpen(m.id) /\ AtLimit(table)
      /\ Evictable(table, RemoveIdle(m.id)) = {}
      /\ idle' = <<>> /\ connections' = table
      /\ caller' = [caller EXCEPT ![m.caller] = Failed(@, "TooManyConnections", 0)]
      /\ UNCHANGED <<closed, nextGen, actor, losses>>

\* A new slot for p, in the table and the idle list that eviction leaves.
Spawn(m, table, q) ==
  /\ nextGen <= MaxGeneration
  /\ connections' = [table EXCEPT ![m.id] = nextGen]
  /\ idle' = q /\ nextGen' = nextGen + 1
  /\ actor' = [g \in 1 .. nextGen |->
                 IF g = nextGen THEN NewActor(m.id, m.caller) ELSE actor[g]]
  /\ UNCHANGED <<closed, caller, losses>>

SpawnConnection ==
  LET m == Head(queue)
  IN  /\ Handling("Request")
      /\ ~SlotOpen(m.id) /\ ~AtLimit(Pruned(m.id))
      /\ Spawn(m, Pruned(m.id), RemoveIdle(m.id))

\* At the limit: the slot that has been idle longest gives way to the new one.
EvictAndSpawn ==
  LET m == Head(queue)
      table == Pruned(m.id)
      q == RemoveIdle(m.id)
      i == FirstOf(Evictable(table, q))
  IN  /\ Handling("Request")
      /\ ~SlotOpen(m.id) /\ AtLimit(table) /\ Evictable(table, q) # {}
      /\ Spawn(m, [table EXCEPT ![q[i].id] = 0], SubSeq(q, i + 1, Len(q)))

HandleIdle ==
  LET m == Head(queue)
  IN  /\ Handling("Idle")
      /\ idle' = IF MatchesGeneration(m.id, m.generation)
                 THEN AddIdle(m.id, m.generation) ELSE idle
      /\ UNCHANGED <<closed, connections, nextGen, actor, caller, losses>>

\* Mutant of RemoveConnectionIfMatch: the idle entry stays.
RemoveConnectionOnly(p, g) ==
  IF MatchesGeneration(p, g)
  THEN connections' = [connections EXCEPT ![p] = 0] /\ UNCHANGED idle
  ELSE UNCHANGED <<connections, idle>>

RemoveConnectionIfMatch(p, g) ==
  IF MatchesGeneration(p, g)
  THEN connections' = [connections EXCEPT ![p] = 0] /\ idle' = RemoveIdle(p)
  ELSE UNCHANGED <<connections, idle>>

HandleShutdown ==
  LET m == Head(queue)
  IN  /\ Handling("Shutdown")
      /\ RemoveConnectionIfMatch(m.id, m.generation)
      /\ UNCHANGED <<closed, nextGen, actor, caller, losses>>

\* The end of PoolActor::run: the receiver is closed and the slots are dropped.
\* What is still queued is answered to nobody: no caller is waiting (see Close).
PoolStop ==
  /\ pool = "stopping" /\ pool' = "draining"
  /\ queue' = <<>> /\ connections' = [p \in Peers |-> 0] /\ idle' = <<>>
  /\ UNCHANGED <<closed, nextGen, actor, caller, losses>>

\* join_next has returned None: every connection actor has ended.
PoolJoined ==
  /\ pool = "draining" /\ \A g \in Gens : actor[g].pc = "stopped"
  /\ pool' = "stopped"
  /\ UNCHANGED <<closed, queue, connections, idle, nextGen, actor, caller, losses>>

PoolStep ==
  \/ Forward \/ RejectBusy \/ RejectTooMany \/ SpawnConnection \/ EvictAndSpawn
  \/ HandleIdle \/ HandleShutdown \/ PoolStop \/ PoolJoined

-----------------------------------------------------------------------------
(* The connection actor: run_connection.  The select! is biased, so a      *)
(* branch is taken only when no branch before it is ready.                 *)

At(g, pc) == g \in Gens /\ actor[g].pc = pc

OnlyActor == UNCHANGED <<closed, pool, queue, connections, idle, nextGen, caller, losses>>

Connected(g) ==
  /\ At(g, "connecting")
  /\ Become(g, [actor[g] EXCEPT !.pc = "loop", !.conn = "open", !.pending = closed])
  /\ OnlyActor

\* connect returned an error, or connect_timeout expired.
ConnectFailed(g) ==
  /\ At(g, "connecting")
  /\ Become(g, [actor[g] EXCEPT !.pc = "reportFailure"])
  /\ OnlyActor

ReportFailure(g) ==
  /\ At(g, "reportFailure")
  /\ PoolSend(ShutdownMsg(actor[g].id, g))
  /\ Become(g, [actor[g] EXCEPT !.pc = "loop", !.pending = closed])
  /\ UNCHANGED <<closed, pool, connections, idle, nextGen, caller, losses>>

\* Branch 1, shutdown_wait.
SeeShutdown(g) ==
  /\ At(g, "loop") /\ actor[g].wake /\ ~actor[g].pending
  /\ Become(g, [actor[g] EXCEPT !.wake = FALSE, !.pending = TRUE,
                                !.pc = IF actor[g].count = 0 THEN "exit" ELSE "loop"])
  /\ OnlyActor

\* Branch 2, the connection was closed by the peer or the network.
SeeClosed(g) ==
  /\ At(g, "loop") /\ ~actor[g].wake /\ actor[g].conn = "lost"
  /\ Become(g, [actor[g] EXCEPT !.pc = "reportClosed"])
  /\ OnlyActor

\* Branch 3, a request.
Serve(g) ==
  LET c == Head(actor[g].mailbox)
  IN  /\ At(g, "loop") /\ ~actor[g].wake /\ actor[g].mailbox # <<>>
      /\ actor[g].conn = "open"
      /\ Become(g, HandOut(actor[g], caller[c].pc # "waiting"))
      /\ caller' = [caller EXCEPT ![c] = Leased(@, g)]
      /\ UNCHANGED <<closed, pool, queue, connections, idle, nextGen, losses>>

\* Branch 3 of an actor that never had a connection.
ServeError(g) ==
  LET c == Head(actor[g].mailbox)
  IN  /\ At(g, "loop") /\ ~actor[g].wake /\ actor[g].mailbox # <<>>
      /\ actor[g].conn = "none"
      /\ Become(g, [actor[g] EXCEPT !.mailbox = Tail(@)])
      /\ caller' = [caller EXCEPT ![c] = Failed(@, "Connect", 0)]
      /\ UNCHANGED <<closed, pool, queue, connections, idle, nextGen, losses>>

\* Branch 3 when the connection is lost between the poll of branch 2 and the
\* look at close_reason().
Refuse(g) ==
  LET c == Head(actor[g].mailbox)
  IN  /\ At(g, "loop") /\ ~actor[g].wake /\ actor[g].mailbox # <<>>
      /\ actor[g].conn = "lost"
      /\ Become(g, [actor[g] EXCEPT !.pc = "refuse", !.req = {c}, !.mailbox = Tail(@)])
      /\ OnlyActor

\* Mutant of Refused: the caller is told first, then the pool (as by ReportDone).
RefusedEarly(g) ==
  /\ At(g, "refuse")
  /\ caller' = [c \in Callers |-> IF c \in actor[g].req
                                  THEN Failed(caller[c], "Closed", g) ELSE caller[c]]
  /\ Become(g, [actor[g] EXCEPT !.pc = "reportClosed", !.req = {}])
  /\ UNCHANGED <<closed, pool, queue, connections, idle, nextGen, losses>>

\* The pool is told first, then the caller.
Refused(g) ==
  /\ At(g, "refuse")
  /\ PoolSend(ShutdownMsg(actor[g].id, g))
  /\ caller' = [c \in Callers |-> IF c \in actor[g].req
                                  THEN Failed(caller[c], "Closed", g) ELSE caller[c]]
  /\ Become(g, [actor[g] EXCEPT !.pc = "exit", !.req = {}])
  /\ UNCHANGED <<closed, pool, connections, idle, nextGen, losses>>

\* Branch 4, a permit of the counter's Notify.
Notified(g) ==
  /\ At(g, "loop") /\ ~actor[g].wake /\ actor[g].conn = "open"
  /\ actor[g].mailbox = <<>> /\ actor[g].permit
  /\ Become(g, [actor[g] EXCEPT !.permit = FALSE,
                                !.pc = CASE actor[g].count # 0 -> "loop"
                                            [] actor[g].count = 0 /\ actor[g].pending -> "exit"
                                            [] OTHER -> "reportIdle"])
  /\ OnlyActor

ReportIdle(g) ==
  /\ At(g, "reportIdle")
  /\ PoolSend(IdleMsg(actor[g].id, g))
  /\ Become(g, [actor[g] EXCEPT !.pc = "loop", !.idleActive = TRUE])
  /\ UNCHANGED <<closed, pool, connections, idle, nextGen, caller, losses>>

\* Branch 5, the idle timer.
IdleExpired(g) ==
  /\ At(g, "loop") /\ ~actor[g].wake /\ actor[g].conn = "open"
  /\ actor[g].mailbox = <<>> /\ ~actor[g].permit /\ actor[g].idleActive
  /\ Become(g, [actor[g] EXCEPT !.pc = "reportExpired"])
  /\ OnlyActor

\* The sends of branches 2 and 5, which break out of the loop.
ReportDone(g) ==
  /\ At(g, "reportClosed") \/ At(g, "reportExpired")
  /\ PoolSend(ShutdownMsg(actor[g].id, g))
  /\ Become(g, [actor[g] EXCEPT !.pc = "exit"])
  /\ UNCHANGED <<closed, pool, connections, idle, nextGen, caller, losses>>

\* After the loop: the connection is closed, the locals are dropped, and with
\* the mailbox the reply senders of the requests in it.  The pool's join_next
\* sees the task end.
Exit(g) ==
  /\ At(g, "exit")
  /\ Become(g, [actor[g] EXCEPT !.pc = "stopped", !.mailbox = <<>>,
                                !.conn = IF @ = "open" THEN "closed" ELSE @,
                                !.permit = FALSE, !.idleActive = FALSE,
                                !.pending = FALSE, !.wake = FALSE])
  /\ caller' = [c \in Callers |->
                  IF \E i \in 1 .. Len(actor[g].mailbox) : actor[g].mailbox[i] = c
                  THEN Failed(caller[c], "Shutdown", g) ELSE caller[c]]
  /\ pool' = AfterSelect
  /\ UNCHANGED <<closed, queue, connections, idle, nextGen, losses>>

\* The sends, which a full queue can hold up, and the other steps.
ActorSends(g) == ReportFailure(g) \/ Refused(g) \/ ReportIdle(g) \/ ReportDone(g)

ActorMoves(g) ==
  \/ Connected(g) \/ ConnectFailed(g) \/ SeeShutdown(g) \/ SeeClosed(g) \/ Serve(g)
  \/ ServeError(g) \/ Refuse(g) \/ Notified(g) \/ IdleExpired(g) \/ Exit(g)

\* The environment: the peer or the network ends a connection.
Lose(g) ==
  /\ g \in Gens /\ actor[g].conn = "open" /\ losses < MaxLosses
  /\ Become(g, [actor[g] EXCEPT !.conn = "lost"])
  /\ losses' = losses + 1
  /\ UNCHANGED <<closed, pool, queue, connections, idle, nextGen, caller>>

-----------------------------------------------------------------------------
(* The callers.                                                            *)

OnlyCaller == UNCHANGED <<closed, pool, queue, connections, idle, nextGen, actor, losses>>

\* Bound: an operation starts only if the generations left are enough for it and
\* for those in progress, a cancelled one whose request is still queued included.
\* An operation needs one generation, and one more for each loss.
Room ==
  LET Queued(c) == \E i \in 1 .. Len(queue) : queue[i].type = "Request" /\ queue[i].caller = c
      users == Cardinality({c \in Callers : Busy(c) \/ Queued(c)}) + 1
  IN  (nextGen - 1) + users * Reserve <= MaxGeneration

\* get_or_connect or open_stream is called; Shared::tx starts the pool actor the
\* first time.  It cannot return Shutdown: the caller's handle is still alive.
Start(c, p, op) ==
  /\ caller[c].pc = "ready" /\ ~closed /\ Room
  /\ caller' = [caller EXCEPT ![c] =
                  [Returned EXCEPT !.pc = "sending", !.op = op, !.peer = {p}]]
  /\ pool' = IF pool = "unstarted" THEN "running" ELSE pool
  /\ UNCHANGED <<closed, queue, connections, idle, nextGen, actor, losses>>

SendRequest(c) ==
  /\ caller[c].pc = "sending" /\ Len(queue) < PoolCapacity
  /\ \E p \in caller[c].peer : queue' = Append(queue, RequestMsg(c, p))
  /\ caller' = [caller EXCEPT ![c].pc = "waiting"]
  /\ UNCHANGED <<closed, pool, connections, idle, nextGen, actor, losses>>

\* open_bi succeeds: the PooledStream owns the lease from now on.
OpenBi(c) ==
  /\ caller[c].pc = "opening" /\ actor[caller[c].gen].conn = "open"
  /\ caller' = [caller EXCEPT ![c].pc = "holding"]
  /\ OnlyCaller

OpenBiFails(c) ==
  /\ caller[c].pc = "opening" /\ actor[caller[c].gen].conn # "open"
  /\ caller' = [caller EXCEPT ![c].pc = "invalidating"]
  /\ OnlyCaller

\* invalidate tells the pool, then the lease is dropped and open_stream goes
\* round again or gives up.
Invalidate(c) ==
  LET k == caller[c]
  IN  /\ k.pc = "invalidating" /\ Len(queue) < PoolCapacity
      /\ \E p \in k.peer : queue' = Append(queue, ShutdownMsg(p, k.gen))
      /\ Become(k.gen, Dropped(actor[k.gen]))
      /\ caller' = [caller EXCEPT ![c] =
                      IF k.tries + 1 = Retries THEN Returned
                      ELSE [k EXCEPT !.pc = "sending", !.tries = k.tries + 1, !.attempt = 0,
                                     !.gen = 0, !.burned = k.burned \cup {k.gen}]]
      /\ UNCHANGED <<closed, pool, connections, idle, nextGen, losses>>

\* The holder drops its ConnectionRef or its stream.
Release(c) ==
  /\ caller[c].pc = "holding"
  /\ Become(caller[c].gen, Dropped(actor[caller[c].gen]))
  /\ caller' = [caller EXCEPT ![c] = Returned]
  /\ UNCHANGED <<closed, pool, queue, connections, idle, nextGen, losses>>

\* The caller's future is dropped at an await; its request may still be on its
\* way, and its lease, if it has one, is dropped with it.
Cancel(c) ==
  /\ Busy(c)
  /\ IF caller[c].gen = 0 THEN UNCHANGED actor
     ELSE Become(caller[c].gen, Dropped(actor[caller[c].gen]))
  /\ caller' = [caller EXCEPT ![c] = [Returned EXCEPT !.pc = "gone"]]
  /\ UNCHANGED <<closed, pool, queue, connections, idle, nextGen, losses>>

\* The last ConnectionPool handle is dropped, which no operation in progress
\* allows.  notify_waiters reaches the tasks that have created their Notified
\* future: a connection actor that is between two turns of its loop, or the pool
\* actor between its check and its select, misses it.
Close ==
  /\ ~closed /\ \A c \in Callers : ~Busy(c)
  /\ closed' = TRUE
  /\ pool' \in IF pool = "unstarted" THEN {"unstarted"} ELSE {"stopping", "missed"}
  /\ \E heard \in SUBSET {g \in Gens : actor[g].pc = "loop"} :
       actor' = [g \in Gens |-> [actor[g] EXCEPT !.wake = g \in heard]]
  /\ UNCHANGED <<queue, connections, idle, nextGen, caller, losses>>

CallerStep(c) ==
  \/ \E p \in Peers, op \in Ops : Start(c, p, op)
  \/ SendRequest(c) \/ OpenBi(c) \/ OpenBiFails(c) \/ Invalidate(c)
  \/ Release(c) \/ Cancel(c)

Next ==
  \/ PoolStep
  \/ \E g \in Gens : ActorSends(g) \/ ActorMoves(g) \/ Lose(g)
  \/ \E c \in Callers : CallerStep(c)
  \/ Close

Spec == Init /\ [][Next]_vars

-----------------------------------------------------------------------------
(* Invariants.                                                             *)

\* Every variable has its type; the actors are exactly the generations handed out
\* so far, and a message names the generation of the peer it is about.
TypeOK ==
  /\ closed \in BOOLEAN /\ pool \in PoolStates /\ queue \in Seq(Msg)
  /\ connections \in [Peers -> Nat] /\ idle \in Seq(IdleEntry)
  /\ nextGen \in Nat \ {0} /\ losses \in Nat
  /\ actor \in [Gens -> Actor]
  /\ caller \in [Callers -> Caller]

\* A connection's counter is the number of callers that own a ConnectionRef of it,
\* however leases are handed out, returned by a dropped receiver, invalidated,
\* released and cancelled (get_one and OneConnection::drop always pair up).
CountIsHolders == \A g \in Gens : actor[g].count = Cardinality(Holders(g))

\* A lease keeps its connection: run_connection never closes a connection whose
\* ConnectionRef somebody owns, not on idle expiry, not on eviction, not when the
\* last pool handle is dropped.  Only the peer or the network can end it.
LeaseKeepsConnection ==
  \A c \in Callers : caller[c].gen # 0 => actor[caller[c].gen].conn \in {"open", "lost"}

\* The slot table never outgrows max_connections, also when slots are replaced,
\* evicted and removed by messages that arrive late; and the idle list, which is a
\* second index of it, names each peer at most once and only with the generation that
\* its slot has now, so that eviction never frees a slot it did not mean to.
SlotsConsistent ==
  /\ SlotsUsed(connections) <= MaxConnections
  /\ \A i \in 1 .. Len(idle) : /\ idle[i].generation # 0
                               /\ connections[idle[i].id] = idle[i].generation
  /\ \A i, j \in 1 .. Len(idle) : idle[i].id = idle[j].id => i = j

\* An operation that has been told Closed, or whose stream could not be opened,
\* is never routed again to the connection it gave up on: the Shutdown message
\* that frees the slot is always ahead of the retry in the pool's queue.
RetryAvoidsDead ==
  \A c \in Callers : \A g \in caller[c].burned :
    \A i \in 1 .. Len(actor[g].mailbox) : actor[g].mailbox[i] # c

\* A request is in one place at a time: in the pool's queue, in one mailbox or in
\* the hands of one refusing actor, and only while its caller waits for the answer
\* (or is gone).  A caller that waits is therefore never forgotten.
RequestPlaces(c) ==
  {<<"queue", i>> : i \in {j \in 1 .. Len(queue) :
                             queue[j].type = "Request" /\ queue[j].caller = c}}
    \cup (UNION {{<<g, i>> : i \in {j \in 1 .. Len(actor[g].mailbox) :
                                     actor[g].mailbox[j] = c}} : g \in Gens})
    \cup {<<g, 0>> : g \in {h \in Gens : c \in actor[h].req}}

RequestNeverLost ==
  \A c \in Callers : /\ caller[c].pc = "waiting" => Cardinality(RequestPlaces(c)) = 1
                     /\ caller[c].pc \notin {"waiting", "gone"} => RequestPlaces(c) = {}

-----------------------------------------------------------------------------
(* What a step may never do.                                               *)

\* A slot loses its connection only if that connection is over (never made, lost,
\* or its actor past its loop) or if it was on the idle list and made room for a
\* new slot.  In particular a Shutdown message of an older generation does not
\* take the slot away from the live connection that replaced it.
SlotLossJustified ==
  [][\A p \in Peers :
       LET g == connections[p]
       IN  g # 0 /\ connections'[p] # g /\ pool' # "draining" =>
             \/ actor[g].conn # "open"
             \/ actor[g].pc \in {"exit", "stopped"}
             \/ /\ \E i \in 1 .. Len(idle) : idle[i] = [id |-> p, generation |-> g]
                /\ nextGen' = nextGen + 1 /\ AtLimit(connections)]_vars

-----------------------------------------------------------------------------
(* What the pool is for its users.                                         *)

\* The state of a connection, of one that has not been made yet too.
StateOf == [g \in 1 .. MaxGeneration |-> IF g \in Gens THEN actor[g].conn ELSE "none"]

LeaseOf == [c \in Callers |-> caller[c].gen]

Service == INSTANCE LeaseService
             WITH Clients <- Callers, Connections <- 1 .. MaxGeneration,
                  state <- StateOf, lease <- LeaseOf

\* The pool implements LeaseService: whatever its actors, queues and timers do, to the
\* owners of ConnectionRefs it is a service that opens connections, leases only open
\* ones, closes only those that nobody leases, and never reuses one that has ended.
ImplementsService == Service!Spec

-----------------------------------------------------------------------------
(* Liveness.  The tasks run on a scheduler that polls every task that is   *)
(* ready (weak fairness); a wait for room in a tokio mpsc channel is a     *)
(* FIFO semaphore, so that a sender cannot be overtaken for ever (strong   *)
(* fairness).  connect ends because connect_timeout bounds it and an armed *)
(* timer fires.  Nothing is assumed of the callers' own actions, of the    *)
(* peer, or of open_bi on a live connection.                               *)

Fairness ==
  /\ WF_vars(PoolStep)
  /\ \A g \in 1 .. MaxGeneration : WF_vars(ActorMoves(g)) /\ SF_vars(ActorSends(g))
  /\ \A c \in Callers : SF_vars(SendRequest(c))

FairSpec == Spec /\ Fairness

\* Every get_or_connect returns: no full queue, full mailbox, ended actor, retry or
\* race with expiry leaves a caller waiting for ever.
GetOrConnectReturns ==
  \A c \in Callers : caller[c].pc \in {"sending", "waiting"}
                       ~> caller[c].pc \notin {"sending", "waiting"}

\* An open connection that nobody leases is leased again or closed, whether it is
\* in its slot, evicted from it, or the pool has been dropped, and also if its
\* actor missed the shutdown wake-up.
OpenUnleased(g) == g \in Gens /\ actor[g].conn = "open" /\ actor[g].count = 0

UnleasedIsClosed == \A g \in 1 .. MaxGeneration : OpenUnleased(g) ~> ~OpenUnleased(g)

-----------------------------------------------------------------------------
(* What the comments of pool.rs say and the code does not do: the subject  *)
(* of a run that is expected to find a counterexample.                     *)

\* Only an idle connection is evicted for a new one (the trace message at line 545), so that
\* the connections in use, which TooManyConnections is about (line 84, "Too many
\* active connections"), stay within max_connections.
LeasedWithinLimit ==
  Cardinality({g \in Gens : actor[g].conn = "open" /\ actor[g].count > 0}) <= MaxConnections
=============================================================================
