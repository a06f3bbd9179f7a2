-------------------------- MODULE TransportProofs --------------------------
(***************************************************************************)
(* Type correctness, exactness of the queue and graceful shutdown of the   *)
(* server side, for any connections, streams and queue capacity.           *)
(*                                                                         *)
(* ShutdownIsGraceful is not inductive by itself: that no stream waits or  *)
(* is served when the driver has been joined follows from what the tonic   *)
(* server leaves behind when it stops (StoppedIsQuiet).                    *)
(***************************************************************************)
EXTENDS Transport, FiniteSetTheorems, TLAPS

\* A tonic server that has stopped leaves no stream in its queue or in service.
StoppedIsQuiet == tonic = "stopped" => \A s \in Streams : stream[s] \notin {"buffered", "serving"}

GracefulInv == TypeOK /\ StoppedIsQuiet /\ ShutdownIsGraceful

\* The state that spawn() returns in satisfies the invariant.
LEMMA InitGraceful == Init => GracefulInv
  BY CapacityAssumption DEF Init, GracefulInv, TypeOK, StoppedIsQuiet, ShutdownIsGraceful, StreamStates, TasksOver

\* Every step keeps the types and the bound of the queue.
LEMMA TypeStep == TypeOK /\ [Next]_vars => TypeOK'
  <1> SUFFICES ASSUME TypeOK, [Next]_vars PROVE TypeOK'
    OBVIOUS
  <1> USE CapacityAssumption DEF TypeOK, StreamStates
  <1>1. ASSUME NEW c \in Conns, AcceptStep(c) PROVE TypeOK'
    <2>1. CASE Connect(c) \/ ConnClosed(c)
      BY <2>1 DEF Connect, ConnClosed
    <2>2. ASSUME NEW s \in Streams, Enqueue(c, s) PROVE TypeOK'
      BY <2>2 DEF Enqueue
    <2>3. ASSUME NEW s \in Streams, RejectFull(c, s) PROVE TypeOK'
      BY <2>3 DEF RejectFull
    <2>4. ASSUME NEW s \in Streams, RejectClosed(c, s) PROVE TypeOK'
      BY <2>4 DEF RejectClosed
    <2>5. QED BY <1>1, <2>1, <2>2, <2>3, <2>4 DEF AcceptStep
  <1>2. CASE TonicTake
    BY <1>2 DEF TonicTake
  <1>3. CASE TonicSignalled
    BY <1>3 DEF TonicSignalled
  <1>4. CASE TonicStops
    BY <1>4 DEF TonicStops
  <1>5. ASSUME NEW s \in Streams, RpcEnds(s) PROVE TypeOK'
    BY <1>5 DEF RpcEnds
  <1>6. CASE PublishEnds \/ PublishTick \/ PublisherStops
    BY <1>6 DEF PublishEnds, PublishTick, PublisherStops
  <1>7. CASE Shutdown \/ Joined
    BY <1>7 DEF Shutdown, Joined
  <1>8. CASE RouterStops \/ DropGuard
    BY <1>8 DEF RouterStops, DropGuard, EndLoops
  <1>9. CASE UNCHANGED vars
    BY <1>9 DEF vars
  <1>10. QED
    BY <1>1, <1>2, <1>3, <1>4, <1>5, <1>6, <1>7, <1>8, <1>9 DEF Next, TonicStep

\* Every step keeps a stopped server quiet and shutdown() in order.
LEMMA GracefulStep == GracefulInv /\ [Next]_vars => (StoppedIsQuiet /\ ShutdownIsGraceful)'
  <1> SUFFICES ASSUME TypeOK, StoppedIsQuiet, ShutdownIsGraceful, [Next]_vars
               PROVE (StoppedIsQuiet /\ ShutdownIsGraceful)'
    BY DEF GracefulInv
  <1> USE DEF TypeOK, StreamStates, StoppedIsQuiet, ShutdownIsGraceful, TasksOver
  <1>1. ASSUME NEW c \in Conns, AcceptStep(c) PROVE (StoppedIsQuiet /\ ShutdownIsGraceful)'
    <2>1. CASE Connect(c) \/ ConnClosed(c)
      BY <2>1 DEF Connect, ConnClosed
    <2>2. ASSUME NEW s \in Streams, Enqueue(c, s) PROVE (StoppedIsQuiet /\ ShutdownIsGraceful)'
      BY <2>2 DEF Enqueue
    <2>3. ASSUME NEW s \in Streams, RejectFull(c, s) PROVE (StoppedIsQuiet /\ ShutdownIsGraceful)'
      BY <2>3 DEF RejectFull
    <2>4. ASSUME NEW s \in Streams, RejectClosed(c, s) PROVE (StoppedIsQuiet /\ ShutdownIsGraceful)'
      BY <2>4 DEF RejectClosed
    <2>5. QED BY <1>1, <2>1, <2>2, <2>3, <2>4 DEF AcceptStep
  <1>2. CASE TonicTake
    BY <1>2 DEF TonicTake
  <1>3. CASE TonicSignalled
    BY <1>3 DEF TonicSignalled
  <1>4. CASE TonicStops
    BY <1>4 DEF TonicStops, Serving
  <1>5. ASSUME NEW s \in Streams, RpcEnds(s) PROVE (StoppedIsQuiet /\ ShutdownIsGraceful)'
    BY <1>5 DEF RpcEnds
  <1>6. CASE PublishEnds \/ PublishTick \/ PublisherStops
    BY <1>6 DEF PublishEnds, PublishTick, PublisherStops
  <1>7. CASE Shutdown \/ Joined
    BY <1>7 DEF Shutdown, Joined
  <1>8. CASE RouterStops \/ DropGuard
    BY <1>8 DEF RouterStops, DropGuard, EndLoops
  <1>9. CASE UNCHANGED vars
    BY <1>9 DEF vars
  <1>10. QED
    BY <1>1, <1>2, <1>3, <1>4, <1>5, <1>6, <1>7, <1>8, <1>9 DEF Next, TonicStep

\* Type correctness of the server side: in particular the IrohIncoming queue never
\* holds more streams than incoming_buffer_capacity.
THEOREM TypeCorrect == Spec => []TypeOK
  <1>1. Init => TypeOK
    BY InitGraceful DEF GracefulInv
  <1>2. QED
    BY <1>1, TypeStep, PTL DEF Spec

\* TransportGuard::shutdown stops the router only after every RPC in service has
\* ended and the tonic server and the publisher are over.
THEOREM ShutdownGraceful == Spec => []ShutdownIsGraceful
  <1>1. GracefulInv /\ [Next]_vars => GracefulInv'
    BY TypeStep, GracefulStep DEF GracefulInv
  <1>2. GracefulInv => ShutdownIsGraceful
    BY DEF GracefulInv
  <1>3. QED
    BY InitGraceful, <1>1, <1>2, PTL DEF Spec

-----------------------------------------------------------------------------
(* The queue.  Exactness is proved in a form without cardinalities: each   *)
(* place of the queue holds another stream, and these are the buffered     *)
(* ones.                                                                   *)

Distinct == \A i, j \in 1 .. Len(buffer) : buffer[i] = buffer[j] => i = j

Buffered ==
  /\ \A i \in 1 .. Len(buffer) : stream[buffer[i]] = "buffered"
  /\ \A s \in Streams : stream[s] = "buffered" => \E i \in 1 .. Len(buffer) : buffer[i] = s

\* Taking the head leaves the rest in place.
LEMMA TailPlaces ==
  ASSUME NEW S, NEW q \in Seq(S), q # <<>>
  PROVE  /\ Tail(q) \in Seq(S) /\ Len(Tail(q)) = Len(q) - 1 /\ Head(q) = q[1] /\ Len(q) \in Nat \ {0}
         /\ \A i \in 1 .. Len(Tail(q)) : Tail(q)[i] = q[i + 1]
OBVIOUS

\* Appending leaves the others in place.
LEMMA AppendPlaces ==
  ASSUME NEW S, NEW q \in Seq(S), NEW e \in S
  PROVE  /\ Len(Append(q, e)) = Len(q) + 1 /\ Append(q, e)[Len(q) + 1] = e /\ Len(q) \in Nat
         /\ \A i \in 1 .. Len(q) : Append(q, e)[i] = q[i]
OBVIOUS

\* Every step of accept, of IrohIncoming::poll_next and of the server's end keeps the
\* queue and the streams' states together.
LEMMA QueueStep ==
  ASSUME TypeOK, Distinct, Buffered, [Next]_vars
  PROVE  Distinct' /\ Buffered'
<1> USE DEF TypeOK, Distinct, Buffered
<1>1. ASSUME NEW c \in Conns, AcceptStep(c) PROVE Distinct' /\ Buffered'
  <2>1. CASE Connect(c) \/ ConnClosed(c)
    BY <2>1 DEF Connect, ConnClosed
  <2>2. ASSUME NEW s \in Streams, Enqueue(c, s) PROVE Distinct' /\ Buffered'
    <3>1. /\ stream[s] = "none" /\ buffer' = Append(buffer, s)
          /\ stream' = [stream EXCEPT ![s] = "buffered"]
      BY <2>2 DEF Enqueue
    <3>2. \A i \in 1 .. Len(buffer) : buffer[i] # s
      BY <3>1
    <3>3. QED BY <3>1, <3>2, AppendPlaces
  <2>3. ASSUME NEW s \in Streams, RejectFull(c, s) \/ RejectClosed(c, s)
        PROVE  Distinct' /\ Buffered'
    <3>1. stream[s] = "none" /\ UNCHANGED buffer /\ stream' = [stream EXCEPT ![s] = "rejected"]
      BY <2>3 DEF RejectFull, RejectClosed
    <3>2. \A i \in 1 .. Len(buffer) : buffer[i] # s
      BY <3>1
    <3>3. QED BY <3>1, <3>2
  <2>4. QED BY <1>1, <2>1, <2>2, <2>3 DEF AcceptStep
<1>2. CASE TonicTake
  <2>1. /\ buffer # <<>> /\ buffer' = Tail(buffer)
        /\ stream' = [stream EXCEPT ![Head(buffer)] = "serving"]
    BY <1>2 DEF TonicTake
  <2>2. \A i \in 1 .. Len(buffer') : buffer'[i] = buffer[i + 1] /\ i + 1 \in 1 .. Len(buffer)
    BY <2>1, TailPlaces
  <2>3. Head(buffer) = buffer[1] /\ 1 \in 1 .. Len(buffer)
    BY <2>1, TailPlaces
  <2>4. \A i \in 1 .. Len(buffer') : buffer'[i] # Head(buffer)
    BY <2>2, <2>3
  <2>5. Distinct' /\ \A i \in 1 .. Len(buffer') : stream'[buffer'[i]] = "buffered"
    BY <2>1, <2>2, <2>4
  <2>6. ASSUME NEW s \in Streams, stream'[s] = "buffered"
        PROVE  \E i \in 1 .. Len(buffer') : buffer'[i] = s
    <3>1. stream[s] = "buffered" /\ s # Head(buffer)
      BY <2>1, <2>6
    <3>2. PICK j \in 1 .. Len(buffer) : buffer[j] = s
      BY <3>1
    <3>3. j # 1
      BY <2>3, <3>1, <3>2
    <3>4. j - 1 \in 1 .. Len(buffer') /\ buffer'[j - 1] = s
      BY <2>1, <3>2, <3>3, TailPlaces
    <3>5. QED BY <3>4
  <2>7. QED BY <2>5, <2>6
<1>3. CASE TonicStops
  BY <1>3 DEF TonicStops
<1>4. ASSUME NEW s \in Streams, RpcEnds(s) PROVE Distinct' /\ Buffered'
  <2>1. stream[s] = "serving" /\ UNCHANGED buffer /\ stream' = [stream EXCEPT ![s] = "done"]
    BY <1>4 DEF RpcEnds
  <2>2. \A i \in 1 .. Len(buffer) : buffer[i] # s
    BY <2>1
  <2>3. QED BY <2>1, <2>2
<1>5. CASE UNCHANGED <<stream, buffer>>
  BY <1>5
<1>6. QED
  BY <1>1, <1>2, <1>3, <1>4, <1>5
  DEF Next, TonicStep, TonicSignalled, PublishEnds, PublishTick, PublisherStops, Shutdown,
      Joined, RouterStops, DropGuard, vars

\* Distinct places that hold the buffered streams are what QueueIsExact counts.
LEMMA ExactCounts ==
  ASSUME TypeOK, Distinct, Buffered
  PROVE  QueueIsExact
<1> SUFFICES ASSUME NEW s \in Streams
             PROVE  Cardinality({i \in 1 .. Len(buffer) : buffer[i] = s})
                      = IF stream[s] = "buffered" THEN 1 ELSE 0
  BY DEF QueueIsExact
<1>1. CASE stream[s] = "buffered"
  <2>1. PICK j \in 1 .. Len(buffer) : buffer[j] = s
    BY <1>1 DEF Buffered
  <2>2. {i \in 1 .. Len(buffer) : buffer[i] = s} = {j}
    BY <2>1 DEF Distinct
  <2>3. QED BY <1>1, <2>2, FS_Singleton
<1>2. CASE stream[s] # "buffered"
  <2>1. {i \in 1 .. Len(buffer) : buffer[i] = s} = {}
    BY <1>2 DEF Buffered
  <2>2. QED BY <1>2, <2>1, FS_EmptySet
<1>3. QED BY <1>1, <1>2

\* A stream that GrpcProtocolHandler::accept queued is in the queue exactly once until
\* IrohIncoming hands it over or is dropped with it.
THEOREM QueueExact == Spec => []QueueIsExact
<1>1. Init => Distinct /\ Buffered
  BY DEF Init, Distinct, Buffered
<1>2. TypeOK /\ Distinct /\ Buffered /\ [Next]_vars => (Distinct /\ Buffered)'
  BY QueueStep
<1>3. TypeOK /\ Distinct /\ Buffered => QueueIsExact
  BY ExactCounts
<1>4. QED BY <1>1, <1>2, <1>3, TypeCorrect, PTL DEF Spec
=============================================================================
