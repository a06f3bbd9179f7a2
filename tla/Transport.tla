----------------------------- MODULE Transport -----------------------------
(***************************************************************************)
(* The server side: src/server.rs, src/transport.rs and the loop of        *)
(* src/swarm/dht/publisher.rs.  The iroh router runs one accept loop per   *)
(* connection; each stream it accepts goes through one bounded queue to    *)
(* the tonic server, or is rejected.  shutdown() signals the tonic server  *)
(* and the publisher over a broadcast channel, joins both, and only then   *)
(* stops the router.                                                       *)
(*                                                                         *)
(* The router and the tonic server are libraries: they are modelled by     *)
(* what the code asks of them.  The tonic server stops taking streams when *)
(* it sees the signal, ends when the RPCs it serves have ended, and drops  *)
(* its end of the queue at that moment.                                    *)
(***************************************************************************)
EXTENDS Naturals, Sequences, FiniteSets

CONSTANTS
  Conns,     \* incoming connections
  Streams,   \* bidirectional streams that their peers open
  Capacity   \* TransportBuilder::incoming_buffer_capacity

\* incoming_buffer_capacity(c) stores c.max(1).
ASSUME CapacityAssumption == Capacity \in Nat \ {0}

VARIABLES
  guard,      \* the TransportGuard's owner
  signal,     \* the broadcast channel: nothing yet, a message, or closed
  router,     \* the iroh router
  accept,     \* the accept loop of each connection
  stream,     \* what has become of each stream
  buffer,     \* the IrohIncoming queue
  tonic,      \* the tonic server's task
  publisher   \* the DHT publisher's task

vars == <<guard, signal, router, accept, stream, buffer, tonic, publisher>>

\* The state that spawn() returns in, with and without a publisher.
Init ==
  /\ guard = "held" /\ signal = "none" /\ router = "up"
  /\ accept = [c \in Conns |-> "none"] /\ stream = [s \in Streams |-> "none"]
  /\ buffer = <<>> /\ tonic = "serving" /\ publisher \in {"absent", "publishing"}

Serving == {s \in Streams : stream[s] = "serving"}

-----------------------------------------------------------------------------
(* The accept loop of GrpcProtocolHandler.                                 *)

\* The router calls accept for a new connection.
Connect(c) ==
  /\ router = "up" /\ accept[c] = "none"
  /\ accept' = [accept EXCEPT ![c] = "accepting"]
  /\ UNCHANGED <<guard, signal, router, stream, buffer, tonic, publisher>>

\* accept_bi returns the stream s, which the queue has a permit for.
Enqueue(c, s) ==
  /\ accept[c] = "accepting" /\ stream[s] = "none"
  /\ tonic # "stopped" /\ Len(buffer) < Capacity
  /\ buffer' = Append(buffer, s) /\ stream' = [stream EXCEPT ![s] = "buffered"]
  /\ UNCHANGED <<guard, signal, router, accept, tonic, publisher>>

\* Mutant of RejectFull: the stream is kept outside the queue.
EnqueueFull(c, s) ==
  /\ accept[c] = "accepting" /\ stream[s] = "none"
  /\ tonic # "stopped" /\ Len(buffer) >= Capacity
  /\ stream' = [stream EXCEPT ![s] = "buffered"]
  /\ UNCHANGED <<guard, signal, router, accept, buffer, tonic, publisher>>

\* TrySendError::Full.
RejectFull(c, s) ==
  /\ accept[c] = "accepting" /\ stream[s] = "none"
  /\ tonic # "stopped" /\ Len(buffer) >= Capacity
  /\ stream' = [stream EXCEPT ![s] = "rejected"]
  /\ UNCHANGED <<guard, signal, router, accept, buffer, tonic, publisher>>

\* TrySendError::Closed: the loop ends as well.
RejectClosed(c, s) ==
  /\ accept[c] = "accepting" /\ stream[s] = "none" /\ tonic = "stopped"
  /\ stream' = [stream EXCEPT ![s] = "rejected"]
  /\ accept' = [accept EXCEPT ![c] = "ended"]
  /\ UNCHANGED <<guard, signal, router, buffer, tonic, publisher>>

\* accept_bi fails: the peer or the network has closed the connection.
ConnClosed(c) ==
  /\ accept[c] = "accepting"
  /\ accept' = [accept EXCEPT ![c] = "ended"]
  /\ UNCHANGED <<guard, signal, router, stream, buffer, tonic, publisher>>

AcceptStep(c) ==
  \/ Connect(c) \/ ConnClosed(c)
  \/ \E s \in Streams : Enqueue(c, s) \/ RejectFull(c, s) \/ RejectClosed(c, s)

-----------------------------------------------------------------------------
(* serve_with_incoming_shutdown.                                           *)

TonicTake ==
  /\ tonic = "serving" /\ buffer # <<>>
  /\ buffer' = Tail(buffer) /\ stream' = [stream EXCEPT ![Head(buffer)] = "serving"]
  /\ UNCHANGED <<guard, signal, router, accept, tonic, publisher>>

\* The RPCs on a stream have ended, or its connection has.
RpcEnds(s) ==
  /\ stream[s] = "serving"
  /\ stream' = [stream EXCEPT ![s] = "done"]
  /\ UNCHANGED <<guard, signal, router, accept, buffer, tonic, publisher>>

\* shutdown_rx.recv() returns: a message, or Err because the guard is gone.
TonicSignalled ==
  /\ tonic = "serving" /\ signal # "none"
  /\ tonic' = "draining"
  /\ UNCHANGED <<guard, signal, router, accept, stream, buffer, publisher>>

\* The server's future ends; IrohIncoming and the streams queued in it are dropped.
TonicStops ==
  /\ tonic = "draining" /\ Serving = {}
  /\ tonic' = "stopped" /\ buffer' = <<>>
  /\ stream' = [s \in Streams |-> IF stream[s] = "buffered" THEN "dropped" ELSE stream[s]]
  /\ UNCHANGED <<guard, signal, router, accept, publisher>>

TonicStep == TonicTake \/ TonicSignalled \/ TonicStops

-----------------------------------------------------------------------------
(* DhtPublisher::run.  The select! of the loop is not biased.              *)

PublishEnds ==
  /\ publisher = "publishing" /\ publisher' = "waiting"
  /\ UNCHANGED <<guard, signal, router, accept, stream, buffer, tonic>>

PublishTick ==
  /\ publisher = "waiting" /\ publisher' = "publishing"
  /\ UNCHANGED <<guard, signal, router, accept, stream, buffer, tonic>>

\* Mutant of PublisherStops: only a message ends the loop.
PublisherStopsOnMessage ==
  /\ publisher = "waiting" /\ signal = "sent" /\ publisher' = "stopped"
  /\ UNCHANGED <<guard, signal, router, accept, stream, buffer, tonic>>

PublisherStops ==
  /\ publisher = "waiting" /\ signal # "none" /\ publisher' = "stopped"
  /\ UNCHANGED <<guard, signal, router, accept, stream, buffer, tonic>>

-----------------------------------------------------------------------------
(* TransportGuard.                                                         *)

TasksOver == tonic = "stopped" /\ publisher \in {"absent", "stopped"}

Shutdown ==
  /\ guard = "held" /\ guard' = "joining" /\ signal' = "sent"
  /\ UNCHANGED <<router, accept, stream, buffer, tonic, publisher>>

\* Mutant of Joined: the driver is not awaited.
NotJoined ==
  /\ guard = "joining" /\ guard' = "closing" /\ router' = "stopping"
  /\ UNCHANGED <<signal, accept, stream, buffer, tonic, publisher>>

\* driver.await returns; router.shutdown() is called.
Joined ==
  /\ guard = "joining" /\ TasksOver
  /\ guard' = "closing" /\ router' = "stopping"
  /\ UNCHANGED <<signal, accept, stream, buffer, tonic, publisher>>

\* The router owns the accept loops: it ends them, and a connection that has not
\* been accepted is not accepted any more.
EndLoops == router' = "down" /\ accept' = [c \in Conns |-> "ended"]

RouterStops ==
  /\ guard = "closing" /\ EndLoops /\ guard' = "returned"
  /\ UNCHANGED <<signal, stream, buffer, tonic, publisher>>

\* The guard is dropped without shutdown(), or shutdown() is cancelled while it
\* awaits: the sender and the router go with it, the tasks are detached.
DropGuard ==
  /\ guard \in {"held", "joining", "closing"} /\ guard' = "dropped"
  /\ signal' = IF signal = "none" THEN "closed" ELSE signal
  /\ EndLoops
  /\ UNCHANGED <<stream, buffer, tonic, publisher>>

Next ==
  \/ \E c \in Conns : AcceptStep(c)
  \/ TonicStep \/ \E s \in Streams : RpcEnds(s)
  \/ PublishEnds \/ PublishTick \/ PublisherStops
  \/ Shutdown \/ Joined \/ RouterStops \/ DropGuard

Spec == Init /\ [][Next]_vars

-----------------------------------------------------------------------------
(* Invariants.                                                             *)

StreamStates == {"none", "buffered", "serving", "done", "rejected", "dropped"}

\* Every variable has its type, and the queue never holds more than its capacity.
TypeOK ==
  /\ guard \in {"held", "joining", "closing", "returned", "dropped"}
  /\ signal \in {"none", "sent", "closed"} /\ router \in {"up", "stopping", "down"}
  /\ accept \in [Conns -> {"none", "accepting", "ended"}]
  /\ stream \in [Streams -> StreamStates]
  /\ buffer \in Seq(Streams) /\ Len(buffer) <= Capacity
  /\ tonic \in {"serving", "draining", "stopped"}
  /\ publisher \in {"absent", "publishing", "waiting", "stopped"}

\* An accepted stream that was not rejected is in the queue exactly once until the
\* server takes it or drops it with the queue: none is forgotten and none is served
\* twice, also when the server ends while streams arrive.
QueueIsExact ==
  \A s \in Streams :
    Cardinality({i \in 1 .. Len(buffer) : buffer[i] = s}) = IF stream[s] = "buffered" THEN 1 ELSE 0

\* Graceful shutdown: the router, and with it the connections, goes down in
\* shutdown() only after every RPC in service has ended and both tasks are over,
\* and no stream is left waiting when shutdown() returns.
ShutdownIsGraceful ==
  guard \in {"closing", "returned"} =>
    /\ TasksOver
    /\ \A s \in Streams : stream[s] \notin {"buffered", "serving"}

-----------------------------------------------------------------------------
(* Liveness.  The runtime polls what is ready.  The select! of the         *)
(* publisher chooses at random among its ready branches, so the signal is  *)
(* not passed over for ever (strong fairness), and a publication ends      *)
(* because the DHT's queries time out.  That RPCs end is an assumption on  *)
(* the peers and the handlers: a graceful shutdown waits for them.         *)

Fairness ==
  /\ WF_vars(TonicStep) /\ WF_vars(PublishEnds) /\ SF_vars(PublisherStops)
  /\ WF_vars(Joined) /\ WF_vars(RouterStops)
  /\ \A s \in Streams : WF_vars(RpcEnds(s))

FairSpec == Spec /\ Fairness

\* Both tasks end after the guard is dropped as after shutdown(), whatever each was
\* doing and although streams keep arriving; and shutdown() returns, unless its future
\* is dropped.
TasksEnd == guard # "held" ~> (TasksOver /\ guard \in {"returned", "dropped"})
=============================================================================
