------------------------ MODULE ConnectionPoolProofs ------------------------
(***************************************************************************)
(* Proofs about ConnectionPool for any peers, callers, limits, capacities  *)
(* and number of connections: that a connection's counter counts its       *)
(* leases, and that no leased connection is ever closed by the pool.  The  *)
(* inductive invariant adds to the counting what an actor's position says  *)
(* about its leases.  From it follows that the pool implements             *)
(* LeaseService.                                                           *)
(*                                                                         *)
(* The second half is about how requests are routed: a request is never    *)
(* lost or duplicated, an operation is never routed back to a connection   *)
(* it gave up on, a live connection keeps its slot, and the slot table and *)
(* the idle list agree.                                                    *)
(***************************************************************************)
EXTENDS ConnectionPool, FiniteSetTheorems, SequenceTheorems, WellFoundedInduction, TLAPS

\* Where a connection actor is tells that nobody leases its connection: the idle
\* timer is armed, the connection is not made or already closed, or the actor
\* reports it idle or expired.  It leaves its loop with a lease outstanding only
\* when the connection has been lost.
Unleased(a) ==
  /\ a.idleActive => a.count = 0
  /\ a.pc \in {"connecting", "reportFailure", "reportIdle", "reportExpired"} => a.count = 0
  /\ a.conn \in {"none", "closed"} => a.count = 0
  /\ a.pc \in {"connecting", "reportFailure"} => a.conn = "none"
  /\ a.pc \in {"refuse", "reportClosed"} => a.conn # "open"
  /\ a.pc = "exit" => a.count = 0 \/ a.conn # "open"

\* A caller owns a lease exactly in the states in which the code has a ConnectionRef.
OwnsLease(k) == k.gen # 0 <=> k.pc \in {"opening", "invalidating", "holding"}

PoolTypes ==
  /\ closed \in BOOLEAN /\ pool \in PoolStates /\ queue \in Seq(Msg)
  /\ connections \in [Peers -> Nat] /\ nextGen \in Nat \ {0} /\ losses \in Nat

ActorsOK == actor \in [Gens -> Actor] /\ \A g \in Gens : Unleased(actor[g])

CallersOK ==
  /\ caller \in [Callers -> Caller]
  /\ \A c \in Callers : OwnsLease(caller[c]) /\ caller[c].gen < nextGen

SlotsOK == \A p \in Peers : connections[p] < nextGen

IInv == PoolTypes /\ SlotsOK /\ ActorsOK /\ CallersOK /\ CountIsHolders

-----------------------------------------------------------------------------
(* The helpers keep the types and the local invariants.                    *)

\* The actor that a request spawns (NewActor) has its type and no lease.
LEMMA NewActorOK ==
  ASSUME NEW p \in Peers, NEW c \in Callers
  PROVE  NewActor(p, c) \in Actor /\ Unleased(NewActor(p, c)) /\ NewActor(p, c).count = 0
BY DEF NewActor, Actor, ActorStates, Unleased

\* OneConnection::drop (Dropped) keeps an actor well-formed while a lease exists.
LEMMA DroppedOK ==
  ASSUME NEW a \in Actor, Unleased(a), a.count > 0
  PROVE  Dropped(a) \in Actor /\ Unleased(Dropped(a)) /\ Dropped(a).count = a.count - 1
<1>1. a.count \in Nat /\ a.permit \in BOOLEAN
  BY DEF Actor
<1>2. (IF a.count = 1 THEN TRUE ELSE a.permit) \in BOOLEAN
  BY <1>1
<1>3. Dropped(a) \in Actor
  <2>1. a.count - 1 \in Nat BY <1>1
  <2>2. QED BY <1>2, <2>1 DEF Dropped, Actor
<1>4. /\ Dropped(a).count = a.count - 1 /\ Dropped(a).pc = a.pc
      /\ Dropped(a).conn = a.conn /\ Dropped(a).idleActive = a.idleActive
  BY DEF Dropped, Actor
<1>5. Unleased(Dropped(a))
  BY <1>1, <1>4 DEF Unleased
<1>6. QED BY <1>3, <1>4, <1>5

\* Handing out a lease (HandOut) counts it, or counts and returns it at once.
LEMMA HandOutOK ==
  ASSUME NEW a \in Actor, Unleased(a), a.pc = "loop", a.conn = "open",
         a.mailbox # <<>>, NEW gone \in BOOLEAN
  PROVE  /\ HandOut(a, gone) \in Actor /\ Unleased(HandOut(a, gone))
         /\ HandOut(a, gone).count = IF gone THEN a.count ELSE a.count + 1
<1> DEFINE served == [a EXCEPT !.mailbox = Tail(a.mailbox), !.idleActive = FALSE,
                               !.count = a.count + 1]
<1>1. a.mailbox \in Seq(Callers) /\ Tail(a.mailbox) \in Seq(Callers) /\ a.count \in Nat
  BY DEF Actor
<1>2. served \in Actor /\ Unleased(served) /\ served.count = a.count + 1
  <2>1. served \in Actor
    <3>1. ASSUME NEW m \in Seq(Callers), NEW n \in Nat
          PROVE  [a EXCEPT !.mailbox = m, !.idleActive = FALSE, !.count = n] \in Actor
      BY DEF Actor
    <3>2. a.count + 1 \in Nat BY <1>1
    <3>3. QED BY <1>1, <3>1, <3>2
  <2>2. /\ served.count = a.count + 1 /\ served.pc = "loop" /\ served.conn = "open"
        /\ served.idleActive = FALSE
    BY DEF Actor
  <2>3. Unleased(served)
    BY <2>2 DEF Unleased
  <2>4. QED BY <2>1, <2>2, <2>3
<1>3. Dropped(served) \in Actor /\ Unleased(Dropped(served))
        /\ Dropped(served).count = a.count
  <2> HIDE DEF served
  <2>1. served.count > 0 BY <1>1, <1>2
  <2>2. QED BY <1>1, <1>2, <2>1, DroppedOK
<1>4. QED BY <1>2, <1>3 DEF HandOut

\* A caller between operations has its type and no lease.
LEMMA ReturnedOK ==
  Returned \in Caller /\ OwnsLease(Returned) /\ Returned.gen = 0
BY DEF Returned, Caller, CallerStates, OwnsLease

\* An Ok reply (Leased) gives the lease to a caller that waits, and to no other.
LEMMA LeasedOK ==
  ASSUME NEW k \in Caller, OwnsLease(k), NEW g \in Nat \ {0}
  PROVE  /\ Leased(k, g) \in Caller /\ OwnsLease(Leased(k, g))
         /\ Leased(k, g).gen = IF k.pc = "waiting" THEN g ELSE k.gen
BY DEF Leased, Caller, CallerStates, OwnsLease

\* An Err reply (Failed) never changes what a caller leases.
LEMMA FailedOK ==
  ASSUME NEW k \in Caller, OwnsLease(k), NEW e, NEW g \in Nat
  PROVE  Failed(k, e, g) \in Caller /\ OwnsLease(Failed(k, e, g)) /\ Failed(k, e, g).gen = k.gen
<1>1. CASE k.pc # "waiting"
  BY <1>1 DEF Failed
<1>2. CASE k.pc = "waiting" /\ e = "Closed" /\ k.attempt + 1 < Retries
  <2> DEFINE f == [k EXCEPT !.pc = "sending", !.attempt = k.attempt + 1,
                            !.burned = k.burned \cup {g}]
  <2>1. Failed(k, e, g) = f
    BY <1>2 DEF Failed
  <2>2. k.burned \cup {g} \in SUBSET Nat /\ k.attempt + 1 \in Nat
    BY DEF Caller
  <2>3. f \in Caller
    BY <2>2 DEF Caller, CallerStates
  <2>4. f.pc = "sending" /\ f.gen = k.gen
    BY DEF Caller
  <2>5. QED BY <1>2, <2>1, <2>3, <2>4 DEF OwnsLease
<1>3. CASE k.pc = "waiting" /\ ~(e = "Closed" /\ k.attempt + 1 < Retries)
  <2>1. Failed(k, e, g) = Returned BY <1>3 DEF Failed
  <2>2. k.gen = 0 BY <1>3 DEF OwnsLease
  <2>3. QED BY <2>1, <2>2, ReturnedOK
<1>4. QED BY <1>1, <1>2, <1>3

\* The callers that own a lease of g are finitely many.
LEMMA HoldersFinite ==
  ASSUME NEW g
  PROVE  IsFiniteSet(Holders(g)) /\ Cardinality(Holders(g)) \in Nat
BY CallersAssumption, FS_Subset, FS_CardinalityType DEF Holders

-----------------------------------------------------------------------------
(* The kinds of step.                                                      *)

\* A step that changes one actor and neither its counter nor any lease.
LEMMA ActorStep ==
  ASSUME IInv, NEW g \in Gens, NEW b \in Actor, Unleased(b), b.count = actor[g].count,
         Become(g, b), nextGen' = nextGen,
         \A c \in Callers : caller'[c].gen = caller[c].gen
  PROVE  ActorsOK' /\ CountIsHolders'
<1>1. Gens' = Gens
  BY DEF Gens
<1>2. actor' \in [Gens -> Actor] /\ actor'[g] = b /\ \A h \in Gens \ {g} : actor'[h] = actor[h]
  BY DEF IInv, ActorsOK, Become
<1>3. ActorsOK'
  BY <1>1, <1>2 DEF IInv, ActorsOK
<1>4. \A h : Holders(h)' = Holders(h)
  BY DEF Holders
<1>5. \A h \in Gens : actor'[h].count = actor[h].count
  BY <1>2
<1>6. CountIsHolders'
  BY <1>1, <1>4, <1>5 DEF IInv, CountIsHolders
<1>7. QED BY <1>3, <1>6

\* A step that leaves the callers alone.
LEMMA CallersSame ==
  ASSUME IInv, UNCHANGED <<caller, nextGen>>
  PROVE  CallersOK' /\ \A c \in Callers : caller'[c].gen = caller[c].gen
BY DEF IInv, CallersOK

\* A step that changes one caller and not its lease.
LEMMA CallerStep1 ==
  ASSUME IInv, NEW d \in Callers, NEW k \in Caller, OwnsLease(k), k.gen = caller[d].gen,
         caller' = [caller EXCEPT ![d] = k], nextGen' = nextGen
  PROVE  CallersOK' /\ \A c \in Callers : caller'[c].gen = caller[c].gen
BY DEF IInv, CallersOK

\* The receipt of a failure by some callers.
LEMMA CallersFail ==
  ASSUME IInv, NEW S, NEW e, NEW g \in Nat, nextGen' = nextGen,
         caller' = [c \in Callers |-> IF c \in S THEN Failed(caller[c], e, g) ELSE caller[c]]
  PROVE  CallersOK' /\ \A c \in Callers : caller'[c].gen = caller[c].gen
<1>1. \A c \in Callers : /\ Failed(caller[c], e, g) \in Caller
                         /\ OwnsLease(Failed(caller[c], e, g))
                         /\ Failed(caller[c], e, g).gen = caller[c].gen
  BY FailedOK DEF IInv, CallersOK
<1>2. QED BY <1>1 DEF IInv, CallersOK

\* An Err reply to one caller.
LEMMA CallerFails ==
  ASSUME IInv, NEW d \in Callers, NEW e, NEW g \in Nat, nextGen' = nextGen,
         caller' = [caller EXCEPT ![d] = Failed(caller[d], e, g)]
  PROVE  CallersOK' /\ \A c \in Callers : caller'[c].gen = caller[c].gen
<1>1. caller[d] \in Caller /\ OwnsLease(caller[d])
  BY DEF IInv, CallersOK
<1>2. QED BY <1>1, FailedOK, CallerStep1

\* A step that leaves the actors and the leases alone.
LEMMA ActorsSame ==
  ASSUME IInv, UNCHANGED <<actor, nextGen>>,
         \A c \in Callers : caller'[c].gen = caller[c].gen
  PROVE  ActorsOK' /\ CountIsHolders'
<1>1. \A h : Holders(h)' = Holders(h)
  BY DEF Holders
<1>2. QED BY <1>1 DEF IInv, ActorsOK, CountIsHolders, Gens

\* Sending to the pool (PoolSend) keeps the queue well-typed.
LEMMA PoolSendTypes ==
  ASSUME IInv, NEW m \in Msg, PoolSend(m)
  PROVE  queue' \in Seq(Msg)
BY DEF IInv, PoolTypes, PoolSend

\* The messages a connection actor sends are messages.
LEMMA ActorMsgs ==
  ASSUME IInv, NEW g \in Gens
  PROVE  ShutdownMsg(actor[g].id, g) \in Msg /\ IdleMsg(actor[g].id, g) \in Msg
<1>1. actor[g].id \in Peers /\ g \in Nat
  BY DEF IInv, ActorsOK, Actor, Gens, PoolTypes
<1>2. QED BY <1>1 DEF ShutdownMsg, IdleMsg, Msg

\* A step that ends the lease of one caller.
LEMMA LeaseEnds ==
  ASSUME IInv, NEW d \in Callers, caller[d].gen # 0, NEW k \in Caller, OwnsLease(k),
         k.gen = 0, caller' = [caller EXCEPT ![d] = k], nextGen' = nextGen,
         Become(caller[d].gen, Dropped(actor[caller[d].gen]))
  PROVE  ActorsOK' /\ CallersOK' /\ CountIsHolders'
<1>a. caller[d].gen \in Gens /\ Gens' = Gens
  BY DEF IInv, CallersOK, Caller, Gens, PoolTypes
<1>b. PICK g \in Gens : g = caller[d].gen
  BY <1>a
<1>1. g \in Gens /\ Gens' = Gens /\ g # 0
  BY <1>a, <1>b
<1>2. d \in Holders(g)
  BY <1>b DEF Holders
<1>3. actor[g] \in Actor /\ Unleased(actor[g]) /\ actor[g].count = Cardinality(Holders(g))
  BY <1>1 DEF IInv, ActorsOK, CountIsHolders
<1>4. IsFiniteSet(Holders(g)) /\ Cardinality(Holders(g)) \in Nat
  BY HoldersFinite
<1>5. actor[g].count > 0
  BY <1>2, <1>3, <1>4, FS_EmptySet
<1>6. /\ Dropped(actor[g]) \in Actor /\ Unleased(Dropped(actor[g]))
      /\ Dropped(actor[g]).count = actor[g].count - 1
  BY <1>3, <1>5, DroppedOK
<1>7. CallersOK'
  BY DEF IInv, CallersOK, PoolTypes
<1>8. /\ actor' \in [Gens -> Actor] /\ actor'[g] = Dropped(actor[g])
      /\ \A h \in Gens \ {g} : actor'[h] = actor[h]
  BY <1>1, <1>6, <1>b DEF IInv, ActorsOK, Become
<1>9. ActorsOK'
  BY <1>1, <1>6, <1>8 DEF IInv, ActorsOK
<1>10. Holders(g)' = Holders(g) \ {d} /\ \A h \in Gens \ {g} : Holders(h)' = Holders(h)
  <2>1. \A h \in Gens : h # 0
    BY DEF Gens
  <2>2. caller'[d].gen = 0 /\ \A c \in Callers \ {d} : caller'[c] = caller[c]
    BY DEF IInv, CallersOK
  <2>3. QED BY <1>b, <2>1, <2>2 DEF Holders
<1>11. Cardinality(Holders(g)') = Cardinality(Holders(g)) - 1
  <2>1. Cardinality(Holders(g) \ {d}) = Cardinality(Holders(g)) - 1
    BY <1>2, <1>4, FS_RemoveElement
  <2>2. QED BY <1>10, <2>1
<1>12. \A h \in Gens : actor'[h].count = Cardinality(Holders(h)')
  <2>1. ASSUME NEW h \in Gens, h # g PROVE actor'[h].count = Cardinality(Holders(h)')
    BY <1>8, <1>10, <2>1 DEF IInv, CountIsHolders
  <2>2. actor'[g].count = Cardinality(Holders(g)')
    BY <1>3, <1>6, <1>8, <1>11
  <2>3. QED BY <2>1, <2>2
<1>13. CountIsHolders'
  BY <1>1, <1>12 DEF CountIsHolders
<1>14. QED BY <1>7, <1>9, <1>13

-----------------------------------------------------------------------------
(* The inductive invariant.                                                *)

\* The invariant holds initially.
LEMMA InitIInv == Init => IInv
<1> SUFFICES ASSUME Init PROVE IInv
  OBVIOUS
<1>1. PoolTypes /\ SlotsOK
  <2>1. queue \in Seq(Msg)
    BY DEF Init
  <2>2. closed \in BOOLEAN
    BY DEF Init
  <2>3. QED BY <2>1, <2>2 DEF Init, PoolTypes, SlotsOK, PoolStates
<1>2. Gens = {}
  BY DEF Init, Gens
<1>3. ActorsOK /\ CountIsHolders
  BY <1>2 DEF Init, ActorsOK, CountIsHolders
<1>4. CallersOK
  BY ReturnedOK DEF Init, CallersOK
<1>5. QED BY <1>1, <1>3, <1>4 DEF IInv

\* A new generation: nobody holds a lease of it yet.
LEMMA SpawnStep ==
  ASSUME IInv, NEW p \in Peers, NEW c \in Callers,
         actor' = [g \in 1 .. nextGen |-> IF g = nextGen THEN NewActor(p, c) ELSE actor[g]],
         nextGen' = nextGen + 1, UNCHANGED <<closed, caller, losses>>,
         queue' \in Seq(Msg), pool' \in PoolStates,
         connections' \in [Peers -> Nat], \A r \in Peers : connections'[r] <= nextGen
  PROVE  IInv'
<1>1. nextGen \in Nat \ {0} /\ Gens' = 1 .. nextGen /\ Gens = 1 .. (nextGen - 1)
  BY DEF IInv, PoolTypes, Gens
<1>2. PoolTypes' /\ SlotsOK'
  BY <1>1 DEF IInv, PoolTypes, SlotsOK
<1>3. CallersOK'
  BY <1>1 DEF IInv, CallersOK, Caller
<1>4. /\ actor'[nextGen] = NewActor(p, c)
      /\ \A g \in Gens : actor'[g] = actor[g] /\ g # nextGen
      /\ Gens' = Gens \cup {nextGen}
  BY <1>1
<1>5. ActorsOK'
  <2>1. \A g \in Gens' : actor'[g] \in Actor /\ Unleased(actor'[g])
    BY <1>4, NewActorOK DEF IInv, ActorsOK
  <2>2. actor' = [g \in Gens' |-> actor'[g]]
    BY <1>1
  <2>3. QED BY <2>1, <2>2 DEF ActorsOK
<1>6. CountIsHolders'
  <2>1. \A g : Holders(g)' = Holders(g)
    BY DEF Holders
  <2>2. \A d \in Callers : caller[d].gen # nextGen
    BY <1>1 DEF IInv, CallersOK, Caller
  <2>3. Holders(nextGen) = {}
    BY <2>2 DEF Holders
  <2>4. actor'[nextGen].count = Cardinality(Holders(nextGen))
    BY <1>4, <2>3, NewActorOK, FS_EmptySet
  <2>5. \A g \in Gens : actor'[g].count = Cardinality(Holders(g))
    BY <1>4 DEF IInv, CountIsHolders
  <2>6. \A g \in Gens' : actor'[g].count = Cardinality(Holders(g)')
    BY <1>4, <2>1, <2>4, <2>5
  <2>7. QED BY <2>6 DEF CountIsHolders
<1>7. QED BY <1>2, <1>3, <1>5, <1>6 DEF IInv

\* The message that PoolActor::run takes from its queue has its type, and the loop
\* goes on in one of its states.
LEMMA HandlingOK ==
  ASSUME IInv, NEW t, Handling(t)
  PROVE  /\ Head(queue) \in Msg /\ Head(queue).type = t /\ Head(queue).id \in Peers
         /\ queue' \in Seq(Msg) /\ pool' \in PoolStates
         /\ t = "Request" => Head(queue).caller \in Callers
         /\ t # "Request" => Head(queue).generation \in Nat
<1>1. queue \in Seq(Msg) /\ queue # <<>> /\ Head(queue).type = t
  BY DEF IInv, PoolTypes, Handling
<1>2. Head(queue) \in Msg /\ Tail(queue) \in Seq(Msg)
  BY <1>1
<1>3. pool' \in PoolStates
  BY DEF IInv, PoolTypes, Handling, AfterSelect, PoolStates
<1>4. QED BY <1>1, <1>2, <1>3 DEF Msg, Handling

\* The steps of PoolActor::handle and PoolActor::run keep the invariant.
LEMMA PoolStepIInv ==
  ASSUME IInv, PoolStep
  PROVE  IInv'
<1> DEFINE m == Head(queue)
<1>1. CASE Forward
  <2>1. m.id \in Peers /\ m.caller \in Callers /\ queue' \in Seq(Msg) /\ pool' \in PoolStates
    BY <1>1, HandlingOK DEF Forward
  <2> DEFINE g == connections[m.id]
             b == [actor[g] EXCEPT !.mailbox = Append(actor[g].mailbox, m.caller)]
  <2>2. g \in Gens /\ actor[g] \in Actor /\ Unleased(actor[g])
    BY <1>1, <2>1 DEF Forward, SlotOpen, IInv, SlotsOK, PoolTypes, Gens, ActorsOK
  <2>3. Append(actor[g].mailbox, m.caller) \in Seq(Callers)
    BY <2>1, <2>2 DEF Actor
  <2>4. b \in Actor /\ b.count = actor[g].count
    BY <2>2, <2>3 DEF Actor
  <2>5. Unleased(b)
    <3>1. b.pc = actor[g].pc /\ b.conn = actor[g].conn /\ b.idleActive = actor[g].idleActive
      BY <2>2 DEF Actor
    <3>2. QED BY <2>2, <2>4, <3>1 DEF Unleased
  <2>6. Become(g, b) /\ UNCHANGED <<closed, connections, nextGen, caller, losses>>
    BY <1>1 DEF Forward
  <2>7. CallersOK' /\ \A c \in Callers : caller'[c].gen = caller[c].gen
    BY <2>6, CallersSame
  <2>8. ActorsOK' /\ CountIsHolders'
    <3> HIDE DEF b, g
    <3>1. QED BY <2>2, <2>4, <2>5, <2>6, <2>7, ActorStep
  <2>9. PoolTypes' /\ SlotsOK'
    BY <2>1, <2>6 DEF IInv, PoolTypes, SlotsOK
  <2>10. QED BY <2>7, <2>8, <2>9 DEF IInv
<1>2. CASE RejectBusy
  <2>1. m.id \in Peers /\ m.caller \in Callers /\ queue' \in Seq(Msg) /\ pool' \in PoolStates
    BY <1>2, HandlingOK DEF RejectBusy
  <2>2. /\ caller' = [caller EXCEPT ![m.caller] = Failed(caller[m.caller], "Busy", 0)]
        /\ UNCHANGED <<closed, connections, nextGen, actor, losses>>
    BY <1>2 DEF RejectBusy
  <2>3. CallersOK' /\ \A c \in Callers : caller'[c].gen = caller[c].gen
    BY <2>1, <2>2, CallerFails
  <2>4. QED BY <2>1, <2>2, <2>3, ActorsSame DEF IInv, PoolTypes, SlotsOK
<1>3. CASE RejectTooMany
  <2>1. m.id \in Peers /\ m.caller \in Callers /\ queue' \in Seq(Msg) /\ pool' \in PoolStates
    BY <1>3, HandlingOK DEF RejectTooMany
  <2>2. /\ caller' = [caller EXCEPT ![m.caller] = Failed(caller[m.caller], "TooManyConnections", 0)]
        /\ connections' = Pruned(m.id)
        /\ UNCHANGED <<closed, nextGen, actor, losses>>
    BY <1>3 DEF RejectTooMany
  <2>3. CallersOK' /\ \A c \in Callers : caller'[c].gen = caller[c].gen
    BY <2>1, <2>2, CallerFails
  <2>4. connections' \in [Peers -> Nat] /\ SlotsOK'
    BY <2>1, <2>2 DEF Pruned, IInv, PoolTypes, SlotsOK
  <2>5. QED BY <2>1, <2>2, <2>3, <2>4, ActorsSame DEF IInv, PoolTypes
<1>4. CASE SpawnConnection
  <2>1. m.id \in Peers /\ m.caller \in Callers /\ queue' \in Seq(Msg) /\ pool' \in PoolStates
    BY <1>4, HandlingOK DEF SpawnConnection
  <2>2. Spawn(m, Pruned(m.id), RemoveIdle(m.id))
    BY <1>4 DEF SpawnConnection
  <2>3. connections' \in [Peers -> Nat] /\ \A p \in Peers : connections'[p] <= nextGen
    BY <2>1, <2>2 DEF Spawn, Pruned, IInv, PoolTypes, SlotsOK
  <2>4. QED BY <2>1, <2>2, <2>3, SpawnStep DEF Spawn
<1>5. CASE EvictAndSpawn
  <2> DEFINE q == RemoveIdle(m.id)
             i == FirstOf(Evictable(Pruned(m.id), q))
             table == [Pruned(m.id) EXCEPT ![q[i].id] = 0]
  <2>1. m.id \in Peers /\ m.caller \in Callers /\ queue' \in Seq(Msg) /\ pool' \in PoolStates
    BY <1>5, HandlingOK DEF EvictAndSpawn
  <2>2. Spawn(m, table, SubSeq(q, i + 1, Len(q)))
    BY <1>5 DEF EvictAndSpawn
  <2>3. table \in [Peers -> Nat] /\ \A p \in Peers : table[p] < nextGen
    <3>1. Pruned(m.id) \in [Peers -> Nat] /\ \A p \in Peers : Pruned(m.id)[p] < nextGen
      BY <2>1 DEF Pruned, IInv, PoolTypes, SlotsOK
    <3>2. ASSUME NEW f \in [Peers -> Nat], NEW x, \A p \in Peers : f[p] < nextGen
          PROVE  /\ [f EXCEPT ![x] = 0] \in [Peers -> Nat]
                 /\ \A p \in Peers : [f EXCEPT ![x] = 0][p] < nextGen
      <4>1. nextGen \in Nat \ {0}
        BY DEF IInv, PoolTypes
      <4>2. \A p \in Peers : [f EXCEPT ![x] = 0][p] = IF p = x THEN 0 ELSE f[p]
        OBVIOUS
      <4>3. [f EXCEPT ![x] = 0] \in [Peers -> Nat]
        OBVIOUS
      <4>4. \A p \in Peers : [f EXCEPT ![x] = 0][p] < nextGen
        BY <3>2, <4>1, <4>2
      <4>5. QED BY <4>3, <4>4
    <3>3. QED BY <3>1, <3>2
  <2>4. connections' \in [Peers -> Nat] /\ \A p \in Peers : connections'[p] <= nextGen
    <3> HIDE DEF table, q, i
    <3>1. QED BY <2>1, <2>2, <2>3 DEF Spawn, IInv, PoolTypes
  <2>5. QED BY <2>1, <2>2, <2>4, SpawnStep DEF Spawn
<1>6. CASE HandleIdle
  <2>1. queue' \in Seq(Msg) /\ pool' \in PoolStates
    BY <1>6, HandlingOK DEF HandleIdle
  <2>2. UNCHANGED <<closed, connections, nextGen, actor, caller, losses>>
    BY <1>6 DEF HandleIdle
  <2>3. QED BY <2>1, <2>2, ActorsSame, CallersSame DEF IInv, PoolTypes, SlotsOK
<1>7. CASE HandleShutdown
  <2>1. m.id \in Peers /\ queue' \in Seq(Msg) /\ pool' \in PoolStates
    BY <1>7, HandlingOK DEF HandleShutdown
  <2>2. UNCHANGED <<closed, nextGen, actor, caller, losses>>
    BY <1>7 DEF HandleShutdown
  <2>3. connections' \in [Peers -> Nat] /\ SlotsOK'
    BY <1>7, <2>1, <2>2 DEF HandleShutdown, RemoveConnectionIfMatch, IInv, PoolTypes, SlotsOK
  <2>4. QED BY <2>1, <2>2, <2>3, ActorsSame, CallersSame DEF IInv, PoolTypes
<1>8. CASE PoolStop
  <2>1. UNCHANGED <<closed, nextGen, actor, caller, losses>>
    BY <1>8 DEF PoolStop
  <2>2. PoolTypes' /\ SlotsOK'
    BY <1>8, <2>1 DEF PoolStop, PoolStates, IInv, PoolTypes, SlotsOK
  <2>3. QED BY <2>1, <2>2, ActorsSame, CallersSame DEF IInv
<1>9. CASE PoolJoined
  <2>1. UNCHANGED <<closed, queue, connections, nextGen, actor, caller, losses>>
    BY <1>9 DEF PoolJoined
  <2>2. PoolTypes' /\ SlotsOK'
    BY <1>9, <2>1 DEF PoolJoined, PoolStates, IInv, PoolTypes, SlotsOK
  <2>3. QED BY <2>1, <2>2, ActorsSame, CallersSame DEF IInv
<1>10. QED
  BY <1>1, <1>2, <1>3, <1>4, <1>5, <1>6, <1>7, <1>8, <1>9 DEF PoolStep

\* A step that changes one actor and none of its leases.
LEMMA OnlyActorStep ==
  ASSUME IInv, NEW g \in Gens, NEW b \in Actor, Unleased(b), b.count = actor[g].count,
         Become(g, b), OnlyActor
  PROVE  IInv'
<1>1. UNCHANGED <<closed, pool, queue, connections, nextGen, caller, losses>>
  BY DEF OnlyActor
<1>2. CallersOK' /\ \A c \in Callers : caller'[c].gen = caller[c].gen
  BY <1>1, CallersSame
<1>3. ActorsOK' /\ CountIsHolders'
  BY <1>1, <1>2, ActorStep
<1>4. QED BY <1>1, <1>2, <1>3 DEF IInv, PoolTypes, SlotsOK

\* The same with a message to the pool.
LEMMA SendStep ==
  ASSUME IInv, NEW g \in Gens, NEW b \in Actor, Unleased(b), b.count = actor[g].count,
         Become(g, b), NEW m \in Msg, PoolSend(m),
         UNCHANGED <<closed, pool, connections, idle, nextGen, losses>>,
         CallersOK', \A c \in Callers : caller'[c].gen = caller[c].gen
  PROVE  IInv'
<1>1. queue' \in Seq(Msg)
  BY PoolSendTypes
<1>2. ActorsOK' /\ CountIsHolders'
  BY ActorStep
<1>3. QED BY <1>1, <1>2 DEF IInv, PoolTypes, SlotsOK

\* The connection actor's sends to the pool keep the invariant.
LEMMA ActorSendsIInv ==
  ASSUME IInv, NEW g \in Gens, ActorSends(g)
  PROVE  IInv'
<1> DEFINE a == actor[g]
<1>1. a \in Actor /\ Unleased(a) /\ closed \in BOOLEAN
  BY DEF IInv, ActorsOK, PoolTypes
<1>2. ShutdownMsg(a.id, g) \in Msg /\ IdleMsg(a.id, g) \in Msg /\ g \in Nat
  BY ActorMsgs DEF Gens
<1>3. CASE ReportFailure(g)
  <2> DEFINE b == [a EXCEPT !.pc = "loop", !.pending = closed]
  <2>1. a.pc = "reportFailure" /\ Become(g, b) /\ PoolSend(ShutdownMsg(a.id, g))
          /\ UNCHANGED <<closed, pool, connections, idle, nextGen, caller, losses>>
    BY <1>3 DEF ReportFailure, At
  <2>2. b \in Actor
    BY <1>1 DEF Actor, ActorStates
  <2>3. b.count = a.count /\ b.pc = "loop" /\ b.conn = a.conn /\ b.idleActive = a.idleActive
    BY <1>1 DEF Actor
  <2>4. Unleased(b)
    BY <1>1, <2>1, <2>3 DEF Unleased
  <2>5. QED
    <3> HIDE DEF b
    <3>1. QED BY <1>2, <2>1, <2>2, <2>3, <2>4, SendStep, CallersSame
<1>4. CASE Refused(g)
  <2> DEFINE b == [a EXCEPT !.pc = "exit", !.req = {}]
  <2>1. a.pc = "refuse" /\ Become(g, b) /\ PoolSend(ShutdownMsg(a.id, g))
          /\ UNCHANGED <<closed, pool, connections, idle, nextGen, losses>>
          /\ caller' = [c \in Callers |-> IF c \in a.req
                          THEN Failed(caller[c], "Closed", g) ELSE caller[c]]
    BY <1>4 DEF Refused, At
  <2>2. b \in Actor
    BY <1>1 DEF Actor, ActorStates
  <2>3. b.count = a.count /\ b.pc = "exit" /\ b.conn = a.conn /\ b.idleActive = a.idleActive
    BY <1>1 DEF Actor
  <2>4. Unleased(b)
    BY <1>1, <2>1, <2>3 DEF Unleased
  <2>5. CallersOK' /\ \A c \in Callers : caller'[c].gen = caller[c].gen
    BY <1>2, <2>1, CallersFail
  <2>6. QED
    <3> HIDE DEF b
    <3>1. QED BY <1>2, <2>1, <2>2, <2>3, <2>4, <2>5, SendStep
<1>5. CASE ReportIdle(g)
  <2> DEFINE b == [a EXCEPT !.pc = "loop", !.idleActive = TRUE]
  <2>1. a.pc = "reportIdle" /\ Become(g, b) /\ PoolSend(IdleMsg(a.id, g))
          /\ UNCHANGED <<closed, pool, connections, idle, nextGen, caller, losses>>
    BY <1>5 DEF ReportIdle, At
  <2>2. b \in Actor
    BY <1>1 DEF Actor, ActorStates
  <2>3. b.count = a.count /\ b.pc = "loop" /\ b.conn = a.conn
    BY <1>1 DEF Actor
  <2>4. Unleased(b)
    BY <1>1, <2>1, <2>3 DEF Unleased
  <2>5. QED
    <3> HIDE DEF b
    <3>1. QED BY <1>2, <2>1, <2>2, <2>3, <2>4, SendStep, CallersSame
<1>6. CASE ReportDone(g)
  <2> DEFINE b == [a EXCEPT !.pc = "exit"]
  <2>1. a.pc \in {"reportClosed", "reportExpired"} /\ Become(g, b)
          /\ PoolSend(ShutdownMsg(a.id, g))
          /\ UNCHANGED <<closed, pool, connections, idle, nextGen, caller, losses>>
    BY <1>6 DEF ReportDone, At
  <2>2. b \in Actor
    BY <1>1 DEF Actor, ActorStates
  <2>3. b.count = a.count /\ b.pc = "exit" /\ b.conn = a.conn /\ b.idleActive = a.idleActive
    BY <1>1 DEF Actor
  <2>4. Unleased(b)
    BY <1>1, <2>1, <2>3 DEF Unleased
  <2>5. QED
    <3> HIDE DEF b
    <3>1. QED BY <1>2, <2>1, <2>2, <2>3, <2>4, SendStep, CallersSame
<1>7. QED BY <1>3, <1>4, <1>5, <1>6 DEF ActorSends

\* A lease is handed out: the counter and the set of holders grow together, unless
\* the caller is gone.
LEMMA ServeIInv ==
  ASSUME IInv, NEW g \in Gens, Serve(g)
  PROVE  IInv'
<1> DEFINE a == actor[g]
           c == Head(a.mailbox)
           gone == caller[c].pc # "waiting"
           b == HandOut(a, gone)
           k == Leased(caller[c], g)
<1>1. a \in Actor /\ Unleased(a) /\ g \in Nat \ {0} /\ Gens' = Gens /\ g < nextGen
  BY DEF IInv, ActorsOK, PoolTypes, Gens, Serve
<1>2. a.pc = "loop" /\ a.conn = "open" /\ a.mailbox # <<>> /\ Become(g, b)
        /\ caller' = [caller EXCEPT ![c] = k]
        /\ UNCHANGED <<closed, pool, queue, connections, nextGen, losses>>
  BY DEF Serve, At
<1>3. a.mailbox \in Seq(Callers) /\ a.count \in Nat
  BY <1>1 DEF Actor
<1>4. c \in Callers
  BY <1>2, <1>3
<1>5. caller[c] \in Caller /\ OwnsLease(caller[c])
  BY <1>4 DEF IInv, CallersOK
<1>6. b \in Actor /\ Unleased(b) /\ b.count = IF gone THEN a.count ELSE a.count + 1
  BY <1>1, <1>2, HandOutOK
<1>7. k \in Caller /\ OwnsLease(k) /\ k.gen = IF gone THEN caller[c].gen ELSE g
  BY <1>1, <1>5, LeasedOK
<1> HIDE DEF b, k
<1>8. PoolTypes' /\ SlotsOK'
  BY <1>2 DEF IInv, PoolTypes, SlotsOK
<1>9. CASE gone
  <2>1. CallersOK' /\ \A d \in Callers : caller'[d].gen = caller[d].gen
    BY <1>2, <1>4, <1>7, <1>9, CallerStep1
  <2>2. ActorsOK' /\ CountIsHolders'
    BY <1>2, <1>6, <1>9, <2>1, ActorStep
  <2>3. QED BY <1>8, <2>1, <2>2 DEF IInv
<1>10. CASE ~gone
  <2>1. caller[c].gen = 0 /\ k.gen = g /\ b.count = a.count + 1
    BY <1>5, <1>6, <1>7, <1>10 DEF OwnsLease
  <2> HIDE DEF gone
  <2>2. caller'[c] = k /\ \A d \in Callers \ {c} : caller'[d] = caller[d]
    BY <1>2, <1>4 DEF IInv, CallersOK
  <2>3. CallersOK'
    BY <1>1, <1>2, <1>4, <1>7, <2>1 DEF IInv, CallersOK
  <2>4. /\ actor' \in [Gens -> Actor] /\ actor'[g] = b
        /\ \A h \in Gens \ {g} : actor'[h] = actor[h]
    BY <1>2, <1>6 DEF IInv, ActorsOK, Become
  <2>5. ActorsOK'
    BY <1>1, <1>6, <2>4 DEF IInv, ActorsOK
  <2>6. c \notin Holders(g) /\ \A h \in Gens : h # 0
    BY <1>1, <2>1 DEF Holders, Gens
  <2>7. Holders(g)' = Holders(g) \cup {c} /\ \A h \in Gens \ {g} : Holders(h)' = Holders(h)
    BY <1>4, <2>1, <2>2, <2>6 DEF Holders
  <2>8. Cardinality(Holders(g) \cup {c}) = Cardinality(Holders(g)) + 1
    BY <2>6, HoldersFinite, FS_AddElement
  <2>9. actor'[g].count = Cardinality(Holders(g)')
    BY <2>1, <2>4, <2>7, <2>8 DEF IInv, CountIsHolders
  <2>10. \A h \in Gens \ {g} : actor'[h].count = Cardinality(Holders(h)')
    BY <2>4, <2>7 DEF IInv, CountIsHolders
  <2>11. CountIsHolders'
    BY <1>1, <2>9, <2>10 DEF CountIsHolders
  <2>12. QED BY <1>8, <2>3, <2>5, <2>11 DEF IInv
<1>11. QED BY <1>9, <1>10

\* The other steps of run_connection keep the invariant.
LEMMA ActorMovesIInv ==
  ASSUME IInv, NEW g \in Gens, ActorMoves(g)
  PROVE  IInv'
<1> DEFINE a == actor[g]
<1>1. a \in Actor /\ Unleased(a) /\ closed \in BOOLEAN /\ g \in Nat \ {0}
  BY DEF IInv, ActorsOK, PoolTypes, Gens
<1>2. a.mailbox \in Seq(Callers)
  BY <1>1 DEF Actor
<1>3. CASE Connected(g)
  <2> DEFINE b == [a EXCEPT !.pc = "loop", !.conn = "open", !.pending = closed]
  <2>1. a.pc = "connecting" /\ Become(g, b) /\ OnlyActor
    BY <1>3 DEF Connected, At
  <2>2. b \in Actor
    BY <1>1, <2>1 DEF Actor, ActorStates
  <2>3. b.count = a.count /\ b.pc = "loop" /\ b.conn = "open" /\ b.idleActive = a.idleActive
    BY <1>1, <2>1 DEF Actor
  <2>4. Unleased(b)
    BY <1>1, <2>1, <2>3 DEF Unleased
  <2>5. QED
    <3> HIDE DEF b
    <3>1. QED BY <2>1, <2>2, <2>3, <2>4, OnlyActorStep
<1>4. CASE ConnectFailed(g)
  <2> DEFINE b == [a EXCEPT !.pc = "reportFailure"]
  <2>1. a.pc = "connecting" /\ Become(g, b) /\ OnlyActor
    BY <1>4 DEF ConnectFailed, At
  <2>2. b \in Actor
    BY <1>1, <2>1 DEF Actor, ActorStates
  <2>3. b.count = a.count /\ b.pc = "reportFailure" /\ b.conn = a.conn /\ b.idleActive = a.idleActive
    BY <1>1, <2>1 DEF Actor
  <2>4. Unleased(b)
    BY <1>1, <2>1, <2>3 DEF Unleased
  <2>5. QED
    <3> HIDE DEF b
    <3>1. QED BY <2>1, <2>2, <2>3, <2>4, OnlyActorStep
<1>5. CASE SeeShutdown(g)
  <2> DEFINE b == [a EXCEPT !.wake = FALSE, !.pending = TRUE,
                             !.pc = IF a.count = 0 THEN "exit" ELSE "loop"]
  <2>1. a.pc = "loop" /\ Become(g, b) /\ OnlyActor
    BY <1>5 DEF SeeShutdown, At
  <2>2. b \in Actor
    BY <1>1, <2>1 DEF Actor, ActorStates
  <2>3. b.count = a.count /\ b.pc = (IF a.count = 0 THEN "exit" ELSE "loop")
          /\ b.conn = a.conn /\ b.idleActive = a.idleActive
    BY <1>1, <2>1 DEF Actor
  <2>4. Unleased(b)
    BY <1>1, <2>1, <2>3 DEF Unleased
  <2>5. QED
    <3> HIDE DEF b
    <3>1. QED BY <2>1, <2>2, <2>3, <2>4, OnlyActorStep
<1>6. CASE SeeClosed(g)
  <2> DEFINE b == [a EXCEPT !.pc = "reportClosed"]
  <2>1. a.pc = "loop" /\ a.conn = "lost" /\ Become(g, b) /\ OnlyActor
    BY <1>6 DEF SeeClosed, At
  <2>2. b \in Actor
    BY <1>1, <2>1 DEF Actor, ActorStates
  <2>3. b.count = a.count /\ b.pc = "reportClosed" /\ b.conn = a.conn /\ b.idleActive = a.idleActive
    BY <1>1, <2>1 DEF Actor
  <2>4. Unleased(b)
    BY <1>1, <2>1, <2>3 DEF Unleased
  <2>5. QED
    <3> HIDE DEF b
    <3>1. QED BY <2>1, <2>2, <2>3, <2>4, OnlyActorStep
<1>7. CASE Notified(g)
  <2> DEFINE b == [a EXCEPT !.permit = FALSE,
                             !.pc = CASE a.count # 0 -> "loop"
                                      [] a.count = 0 /\ a.pending -> "exit"
                                      [] OTHER -> "reportIdle"]
  <2>1. a.pc = "loop" /\ Become(g, b) /\ OnlyActor
    BY <1>7 DEF Notified, At
  <2>2. b \in Actor
    BY <1>1, <2>1 DEF Actor, ActorStates
  <2>3. b.count = a.count /\ b.pc \in {"loop", "exit", "reportIdle"} /\ (b.pc # "loop" => a.count = 0)
          /\ b.conn = a.conn /\ b.idleActive = a.idleActive
    BY <1>1, <2>1 DEF Actor
  <2>4. Unleased(b)
    BY <1>1, <2>1, <2>3 DEF Unleased
  <2>5. QED
    <3> HIDE DEF b
    <3>1. QED BY <2>1, <2>2, <2>3, <2>4, OnlyActorStep
<1>8. CASE IdleExpired(g)
  <2> DEFINE b == [a EXCEPT !.pc = "reportExpired"]
  <2>1. a.pc = "loop" /\ a.idleActive /\ Become(g, b) /\ OnlyActor
    BY <1>8 DEF IdleExpired, At
  <2>2. b \in Actor
    BY <1>1, <2>1 DEF Actor, ActorStates
  <2>3. b.count = a.count /\ b.pc = "reportExpired" /\ b.conn = a.conn /\ b.idleActive = a.idleActive
    BY <1>1, <2>1 DEF Actor
  <2>4. Unleased(b)
    BY <1>1, <2>1, <2>3 DEF Unleased
  <2>5. QED
    <3> HIDE DEF b
    <3>1. QED BY <2>1, <2>2, <2>3, <2>4, OnlyActorStep
<1>9. CASE Refuse(g)
  <2> DEFINE b == [a EXCEPT !.pc = "refuse", !.req = {Head(a.mailbox)}, !.mailbox = Tail(a.mailbox)]
  <2>1. a.pc = "loop" /\ a.conn = "lost" /\ a.mailbox # <<>> /\ Become(g, b) /\ OnlyActor
    BY <1>9 DEF Refuse, At
  <2>2. b \in Actor
    <3>1. Head(a.mailbox) \in Callers /\ Tail(a.mailbox) \in Seq(Callers)
      BY <1>2, <2>1
    <3>2. QED BY <1>1, <3>1 DEF Actor, ActorStates
  <2>3. b.count = a.count /\ b.pc = "refuse" /\ b.conn = "lost" /\ b.idleActive = a.idleActive
    BY <1>1, <2>1 DEF Actor
  <2>4. Unleased(b)
    BY <1>1, <2>1, <2>3 DEF Unleased
  <2>5. QED
    <3> HIDE DEF b
    <3>1. QED BY <2>1, <2>2, <2>3, <2>4, OnlyActorStep
<1>10. CASE ServeError(g)
  <2> DEFINE b == [a EXCEPT !.mailbox = Tail(a.mailbox)]
             c == Head(a.mailbox)
  <2>1. a.mailbox # <<>> /\ Become(g, b)
          /\ caller' = [caller EXCEPT ![c] = Failed(caller[c], "Connect", 0)]
          /\ UNCHANGED <<closed, pool, queue, connections, nextGen, losses>>
    BY <1>10 DEF ServeError, At
  <2>2. c \in Callers /\ Tail(a.mailbox) \in Seq(Callers)
    BY <1>2, <2>1
  <2>3. b \in Actor
    BY <1>1, <2>2 DEF Actor
  <2>4. b.count = a.count /\ b.pc = a.pc /\ b.conn = a.conn /\ b.idleActive = a.idleActive
    BY <1>1 DEF Actor
  <2>5. Unleased(b)
    BY <1>1, <2>4 DEF Unleased
  <2>6. CallersOK' /\ \A d \in Callers : caller'[d].gen = caller[d].gen
    BY <2>1, <2>2, CallerFails
  <2>7. ActorsOK' /\ CountIsHolders'
    <3> HIDE DEF b
    <3>1. QED BY <2>1, <2>3, <2>4, <2>5, <2>6, ActorStep
  <2>8. QED BY <2>1, <2>6, <2>7 DEF IInv, PoolTypes, SlotsOK
<1>11. CASE Exit(g)
  <2> DEFINE b == [a EXCEPT !.pc = "stopped", !.mailbox = <<>>,
                            !.conn = IF a.conn = "open" THEN "closed" ELSE a.conn,
                            !.permit = FALSE, !.idleActive = FALSE, !.pending = FALSE,
                            !.wake = FALSE]
             S == {c \in Callers : \E i \in 1 .. Len(a.mailbox) : a.mailbox[i] = c}
  <2>1. a.pc = "exit" /\ Become(g, b) /\ pool' = AfterSelect
          /\ UNCHANGED <<closed, queue, connections, nextGen, losses>>
    BY <1>11 DEF Exit, At
  <2>2. caller' = [c \in Callers |-> IF c \in S THEN Failed(caller[c], "Shutdown", g)
                                     ELSE caller[c]]
    BY <1>11 DEF Exit
  <2>3. CallersOK' /\ \A c \in Callers : caller'[c].gen = caller[c].gen
    <3> HIDE DEF S
    <3>1. QED BY <1>1, <2>1, <2>2, CallersFail
  <2>4. b \in Actor
    <3>1. (IF a.conn = "open" THEN "closed" ELSE a.conn) \in {"none", "open", "lost", "closed"}
      BY <1>1 DEF Actor
    <3>2. ASSUME NEW x \in {"none", "open", "lost", "closed"}, NEW s \in Seq(Callers),
                 NEW f \in BOOLEAN
          PROVE  [a EXCEPT !.pc = "stopped", !.mailbox = s, !.conn = x, !.permit = f,
                           !.idleActive = f, !.pending = f, !.wake = f] \in Actor
      BY <1>1 DEF Actor, ActorStates
    <3>3. <<>> \in Seq(Callers) /\ FALSE \in BOOLEAN
      OBVIOUS
    <3>4. QED BY <3>1, <3>2, <3>3
  <2>5. b.count = a.count /\ b.pc = "stopped" /\ b.idleActive = FALSE
          /\ b.conn = IF a.conn = "open" THEN "closed" ELSE a.conn
    BY <1>1 DEF Actor
  <2>6. Unleased(b)
    BY <1>1, <2>1, <2>5 DEF Unleased
  <2>7. ActorsOK' /\ CountIsHolders'
    <3> HIDE DEF b
    <3>1. QED BY <2>1, <2>3, <2>4, <2>5, <2>6, ActorStep
  <2>8. pool' \in PoolStates
    BY <2>1 DEF AfterSelect, PoolStates, IInv, PoolTypes
  <2>9. QED BY <2>1, <2>3, <2>7, <2>8 DEF IInv, PoolTypes, SlotsOK
<1>12. CASE Serve(g)
  BY <1>12, ServeIInv
<1>13. QED
  BY <1>3, <1>4, <1>5, <1>6, <1>7, <1>8, <1>9, <1>10, <1>11, <1>12 DEF ActorMoves

\* The loss of a connection keeps the invariant.
LEMMA LoseIInv ==
  ASSUME IInv, NEW g \in Gens, Lose(g)
  PROVE  IInv'
<1> DEFINE a == actor[g]
           b == [a EXCEPT !.conn = "lost"]
<1>1. a \in Actor /\ Unleased(a)
  BY DEF IInv, ActorsOK
<1>2. a.conn = "open" /\ Become(g, b) /\ losses' = losses + 1
        /\ UNCHANGED <<closed, pool, queue, connections, idle, nextGen, caller>>
  BY DEF Lose
<1>3. b \in Actor
  BY <1>1 DEF Actor
<1>4. b.count = a.count /\ b.pc = a.pc /\ b.conn = "lost" /\ b.idleActive = a.idleActive
  BY <1>1 DEF Actor
<1>5. Unleased(b)
  BY <1>1, <1>2, <1>4 DEF Unleased
<1>6. CallersOK' /\ \A c \in Callers : caller'[c].gen = caller[c].gen
  BY <1>2, CallersSame
<1>7. ActorsOK' /\ CountIsHolders'
  <2> HIDE DEF b
  <2>1. QED BY <1>2, <1>3, <1>4, <1>5, <1>6, ActorStep
<1>8. QED BY <1>2, <1>6, <1>7 DEF IInv, PoolTypes, SlotsOK

\* The steps of get_or_connect, open_stream and of lease holders keep the invariant.
LEMMA CallerStepIInv ==
  ASSUME IInv, NEW c \in Callers, CallerStep(c)
  PROVE  IInv'
<1> DEFINE k == caller[c]
<1>1. k \in Caller /\ OwnsLease(k) /\ k.peer \in SUBSET Peers /\ k.gen \in Nat
        /\ k.tries \in Nat /\ k.burned \in SUBSET Nat
  BY DEF IInv, CallersOK, Caller
<1>2. ASSUME NEW p \in Peers, NEW op \in Ops, Start(c, p, op) PROVE IInv'
  <2> DEFINE n == [Returned EXCEPT !.pc = "sending", !.op = op, !.peer = {p}]
  <2>1. k.pc = "ready" /\ caller' = [caller EXCEPT ![c] = n]
          /\ pool' = (IF pool = "unstarted" THEN "running" ELSE pool)
          /\ UNCHANGED <<closed, queue, connections, idle, nextGen, actor, losses>>
    BY <1>2 DEF Start
  <2>2. n \in Caller
    BY ReturnedOK DEF Caller, CallerStates
  <2>3. n.pc = "sending" /\ n.gen = 0
    BY ReturnedOK DEF Caller
  <2>4. OwnsLease(n) /\ n.gen = k.gen
    BY <1>1, <2>1, <2>3 DEF OwnsLease
  <2>5. CallersOK' /\ \A d \in Callers : caller'[d].gen = caller[d].gen
    <3> HIDE DEF n
    <3>1. QED BY <2>1, <2>2, <2>4, CallerStep1
  <2>6. PoolTypes' /\ SlotsOK'
    BY <2>1 DEF IInv, PoolTypes, PoolStates, SlotsOK
  <2>7. QED BY <2>1, <2>5, <2>6, ActorsSame DEF IInv
<1>3. CASE SendRequest(c)
  <2> DEFINE n == [k EXCEPT !.pc = "waiting"]
  <2>1. k.pc = "sending" /\ caller' = [caller EXCEPT ![c] = n]
          /\ UNCHANGED <<closed, pool, connections, idle, nextGen, actor, losses>>
    BY <1>3 DEF SendRequest
  <2>2. queue' \in Seq(Msg)
    <3>1. PICK p \in k.peer : queue' = Append(queue, RequestMsg(c, p))
      BY <1>3 DEF SendRequest
    <3>2. RequestMsg(c, p) \in Msg
      BY <1>1 DEF RequestMsg, Msg
    <3>3. QED BY <3>1, <3>2 DEF IInv, PoolTypes
  <2>3. n \in Caller
    BY <1>1 DEF Caller, CallerStates
  <2>4. n.pc = "waiting" /\ n.gen = k.gen
    BY <1>1 DEF Caller
  <2>5. OwnsLease(n)
    BY <1>1, <2>1, <2>4 DEF OwnsLease
  <2>6. CallersOK' /\ \A d \in Callers : caller'[d].gen = caller[d].gen
    <3> HIDE DEF n
    <3>1. QED BY <2>1, <2>3, <2>4, <2>5, CallerStep1
  <2>7. QED BY <2>1, <2>2, <2>6, ActorsSame DEF IInv, PoolTypes, SlotsOK
<1>4. ASSUME NEW t \in {"holding", "invalidating"}, k.pc = "opening",
             caller' = [caller EXCEPT ![c] = [k EXCEPT !.pc = t]], OnlyCaller
      PROVE  IInv'
  <2> DEFINE n == [k EXCEPT !.pc = t]
  <2>1. n \in Caller
    BY <1>1 DEF Caller, CallerStates
  <2>2. n.pc = t /\ n.gen = k.gen
    BY <1>1 DEF Caller
  <2>3. OwnsLease(n)
    BY <1>1, <1>4, <2>2 DEF OwnsLease
  <2>4. UNCHANGED <<closed, pool, queue, connections, nextGen, actor, losses>>
    BY <1>4 DEF OnlyCaller
  <2>5. CallersOK' /\ \A d \in Callers : caller'[d].gen = caller[d].gen
    <3>1. caller' = [caller EXCEPT ![c] = n] BY <1>4
    <3> HIDE DEF n
    <3>2. QED BY <3>1, <2>1, <2>2, <2>3, <2>4, CallerStep1
  <2>6. QED BY <2>4, <2>5, ActorsSame DEF IInv, PoolTypes, SlotsOK
<1>5. CASE OpenBi(c)
  BY <1>4, <1>5 DEF OpenBi
<1>6. CASE OpenBiFails(c)
  BY <1>4, <1>6 DEF OpenBiFails
<1>7. CASE Invalidate(c)
  <2> DEFINE n == [k EXCEPT !.pc = "sending", !.tries = k.tries + 1, !.attempt = 0,
                            !.gen = 0, !.burned = k.burned \cup {k.gen}]
             r == IF k.tries + 1 = Retries THEN Returned ELSE n
  <2>1. k.pc = "invalidating" /\ Become(k.gen, Dropped(actor[k.gen]))
          /\ caller' = [caller EXCEPT ![c] = r]
          /\ UNCHANGED <<closed, pool, connections, idle, nextGen, losses>>
    BY <1>7 DEF Invalidate
  <2>2. queue' \in Seq(Msg)
    <3>1. PICK p \in k.peer : queue' = Append(queue, ShutdownMsg(p, k.gen))
      BY <1>7 DEF Invalidate
    <3>2. ShutdownMsg(p, k.gen) \in Msg
      BY <1>1 DEF ShutdownMsg, Msg
    <3>3. QED BY <3>1, <3>2 DEF IInv, PoolTypes
  <2>3. n \in Caller
    <3>1. k.burned \cup {k.gen} \in SUBSET Nat /\ k.tries + 1 \in Nat
      BY <1>1
    <3>2. QED BY <1>1, <3>1 DEF Caller, CallerStates
  <2>4. n.pc = "sending" /\ n.gen = 0
    BY <1>1 DEF Caller
  <2>5. r \in Caller /\ OwnsLease(r) /\ r.gen = 0
    <3>1. OwnsLease(n) BY <2>4 DEF OwnsLease
    <3> HIDE DEF n
    <3>2. QED BY <2>3, <2>4, <3>1, ReturnedOK
  <2>6. k.gen # 0
    BY <1>1, <2>1 DEF OwnsLease
  <2>7. ActorsOK' /\ CallersOK' /\ CountIsHolders'
    <3> HIDE DEF r
    <3>1. QED BY <2>1, <2>5, <2>6, LeaseEnds
  <2>8. QED BY <2>1, <2>2, <2>7 DEF IInv, PoolTypes, SlotsOK
<1>8. CASE Release(c)
  <2>1. k.gen # 0 /\ Become(k.gen, Dropped(actor[k.gen]))
          /\ caller' = [caller EXCEPT ![c] = Returned]
          /\ UNCHANGED <<closed, pool, queue, connections, idle, nextGen, losses>>
    BY <1>1, <1>8 DEF Release, OwnsLease
  <2>2. ActorsOK' /\ CallersOK' /\ CountIsHolders'
    BY <2>1, ReturnedOK, LeaseEnds
  <2>3. QED BY <2>1, <2>2 DEF IInv, PoolTypes, SlotsOK
<1>9. CASE Cancel(c)
  <2> DEFINE n == [Returned EXCEPT !.pc = "gone"]
  <2>1. caller' = [caller EXCEPT ![c] = n]
          /\ UNCHANGED <<closed, pool, queue, connections, idle, nextGen, losses>>
    BY <1>9 DEF Cancel
  <2>2. n \in Caller
    BY ReturnedOK DEF Caller, CallerStates
  <2>3. n.pc = "gone" /\ n.gen = 0
    BY ReturnedOK DEF Caller
  <2>4. OwnsLease(n)
    BY <2>3 DEF OwnsLease
  <2>5. ActorsOK' /\ CallersOK' /\ CountIsHolders'
    <3>1. CASE k.gen = 0
      <4>1. UNCHANGED actor BY <1>9, <3>1 DEF Cancel
      <4> HIDE DEF n
      <4>2. CallersOK' /\ \A d \in Callers : caller'[d].gen = caller[d].gen
        BY <2>1, <2>2, <2>3, <2>4, <3>1, CallerStep1
      <4>3. QED BY <2>1, <4>1, <4>2, ActorsSame
    <3>2. CASE k.gen # 0
      <4>1. Become(k.gen, Dropped(actor[k.gen])) BY <1>9, <3>2 DEF Cancel
      <4> HIDE DEF n
      <4>2. QED BY <2>1, <2>2, <2>3, <2>4, <3>2, <4>1, LeaseEnds
    <3>3. QED BY <3>1, <3>2
  <2>6. QED BY <2>1, <2>5 DEF IInv, PoolTypes, SlotsOK
<1>10. QED
  BY <1>2, <1>3, <1>5, <1>6, <1>7, <1>8, <1>9 DEF CallerStep

\* Dropping the last pool handle keeps the invariant.
LEMMA CloseIInv ==
  ASSUME IInv, Close
  PROVE  IInv'
<1>1. UNCHANGED <<queue, connections, nextGen, caller, losses>> /\ closed' = TRUE
  BY DEF Close
<1>2. pool' \in PoolStates
  BY DEF Close, PoolStates
<1>3. PICK heard : actor' = [g \in Gens |-> [actor[g] EXCEPT !.wake = g \in heard]]
  BY DEF Close
<1>4. \A g \in Gens : actor'[g] \in Actor /\ Unleased(actor'[g]) /\ actor'[g].count = actor[g].count
  <2> SUFFICES ASSUME NEW g \in Gens
               PROVE  actor'[g] \in Actor /\ Unleased(actor'[g]) /\ actor'[g].count = actor[g].count
    OBVIOUS
  <2>1. PICK w \in BOOLEAN : actor'[g] = [actor[g] EXCEPT !.wake = w]
    <3>1. actor'[g] = [actor[g] EXCEPT !.wake = g \in heard]
      BY <1>3, Zenon
    <3>2. (g \in heard) \in BOOLEAN
      OBVIOUS
    <3>3. QED BY <3>1, <3>2, Zenon
  <2>2. actor[g] \in Actor /\ Unleased(actor[g])
    BY DEF IInv, ActorsOK
  <2>3. actor'[g] \in Actor
    BY <2>1, <2>2 DEF Actor
  <2>4. /\ actor'[g].count = actor[g].count /\ actor'[g].pc = actor[g].pc
        /\ actor'[g].conn = actor[g].conn /\ actor'[g].idleActive = actor[g].idleActive
    BY <2>1, <2>2 DEF Actor
  <2>5. Unleased(actor'[g])
    BY <2>2, <2>4 DEF Unleased
  <2>6. QED BY <2>3, <2>4, <2>5
<1>5. Gens' = Gens /\ \A g : Holders(g)' = Holders(g)
  BY <1>1 DEF Gens, Holders
<1>6. ActorsOK'
  <2>1. actor' = [g \in Gens |-> actor'[g]]
    BY <1>3
  <2>2. QED BY <1>4, <1>5, <2>1 DEF ActorsOK
<1>7. CountIsHolders'
  BY <1>4, <1>5 DEF IInv, CountIsHolders
<1>8. CallersOK'
  BY <1>1, CallersSame
<1>9. QED BY <1>1, <1>2, <1>6, <1>7, <1>8 DEF IInv, PoolTypes, SlotsOK

\* Every step keeps the invariant.
LEMMA NextIInv ==
  ASSUME IInv, [Next]_vars
  PROVE  IInv'
<1>1. CASE PoolStep
  BY <1>1, PoolStepIInv
<1>2. ASSUME NEW g \in Gens, ActorSends(g) \/ ActorMoves(g) \/ Lose(g) PROVE IInv'
  BY <1>2, ActorSendsIInv, ActorMovesIInv, LoseIInv
<1>3. ASSUME NEW c \in Callers, CallerStep(c) PROVE IInv'
  BY <1>3, CallerStepIInv
<1>4. CASE Close
  BY <1>4, CloseIInv
<1>5. CASE UNCHANGED vars
  <2>1. UNCHANGED <<closed, pool, queue, connections, nextGen, actor, caller, losses>>
    BY <1>5 DEF vars
  <2>2. QED BY <2>1, ActorsSame, CallersSame DEF IInv, PoolTypes, SlotsOK
<1>6. QED BY <1>1, <1>2, <1>3, <1>4, <1>5 DEF Next

\* The invariant is an invariant of the specification.
LEMMA InvariantIInv == Spec => []IInv
BY InitIInv, NextIInv, PTL DEF Spec

-----------------------------------------------------------------------------
(* The theorems.                                                           *)

\* ConnectionCounter.count is the number of ConnectionRefs in existence, whatever
\* the interleaving of get_one, of drops and of cancelled callers.
THEOREM CounterCorrect == Spec => []CountIsHolders
<1>1. IInv => CountIsHolders
  BY DEF IInv
<1>2. QED BY <1>1, InvariantIInv, PTL

\* run_connection never closes a connection that somebody leases: at its only
\* conn.close() the counter is zero unless the connection has been lost already.
THEOREM LeaseSafe == Spec => []LeaseKeepsConnection
<1>1. IInv => LeaseKeepsConnection
  <2> SUFFICES ASSUME IInv, NEW c \in Callers, caller[c].gen # 0
               PROVE  actor[caller[c].gen].conn \in {"open", "lost"}
    BY DEF LeaseKeepsConnection
  <2>1. PICK g \in Gens : g = caller[c].gen
    BY DEF IInv, CallersOK, Caller, Gens, PoolTypes
  <2>2. c \in Holders(g)
    BY <2>1 DEF Holders
  <2>3. actor[g].count # 0
    BY <2>2, HoldersFinite, FS_EmptySet DEF IInv, CountIsHolders
  <2>4. actor[g] \in Actor /\ Unleased(actor[g])
    BY DEF IInv, ActorsOK
  <2>5. QED BY <2>1, <2>3, <2>4 DEF Actor, Unleased
<1>2. QED BY <1>1, InvariantIInv, PTL

-----------------------------------------------------------------------------
(***************************************************************************)
(* ConnectionPool implements LeaseService, for any peers, callers, limits  *)
(* and capacities.  A connection of the service is a generation, its state *)
(* the `conn` of its actor, and a client's lease the generation of the     *)
(* ConnectionRef it owns.  Every step of the pool is a step of the service *)
(* or leaves both alone; that a connection is closed only when nobody      *)
(* leases it rests on the inductive invariant above.                       *)
(***************************************************************************)

\* The generations handed out are connections of the service.
GenBound == nextGen \in 1 .. MaxGeneration + 1

\* A step that the service does not see.
Unseen == StateOf' = StateOf /\ LeaseOf' = LeaseOf

-----------------------------------------------------------------------------
(* How a step of the pool changes what the service sees.                   *)

\* The state of no connection changes when no actor's `conn` does.
LEMMA StateSame ==
  ASSUME nextGen' = nextGen, \A g \in Gens : actor'[g].conn = actor[g].conn
  PROVE  StateOf' = StateOf
BY DEF StateOf, Gens

\* An actor's `conn` is the state of its generation, and of no other.
LEMMA StateOne ==
  ASSUME nextGen' = nextGen, NEW g \in Gens, GenBound,
         \A h \in Gens \ {g} : actor'[h].conn = actor[h].conn
  PROVE  StateOf' = [StateOf EXCEPT ![g] = actor'[g].conn]
<1>1. g \in 1 .. MaxGeneration /\ Gens' = Gens
  BY BoundsAssumption DEF Gens, GenBound
<1>2. \A h \in 1 .. MaxGeneration :
        (IF h \in Gens THEN actor'[h].conn ELSE "none")
          = IF h = g THEN actor'[g].conn ELSE StateOf[h]
  BY DEF StateOf
<1>3. StateOf' = [h \in 1 .. MaxGeneration |-> IF h \in Gens THEN actor'[h].conn ELSE "none"]
  BY <1>1 DEF StateOf
<1>4. QED BY <1>1, <1>2, <1>3 DEF StateOf

\* A step that changes one actor and not its `conn` (what its mailbox, its timer and
\* its position do) is not seen.
LEMMA ActorUnseen ==
  ASSUME IInv, NEW g \in Gens, NEW b, Become(g, b), b.conn = actor[g].conn, nextGen' = nextGen
  PROVE  StateOf' = StateOf
<1>1. \A h \in Gens : actor'[h].conn = actor[h].conn
  BY DEF IInv, ActorsOK, Become
<1>2. QED BY <1>1, StateSame

\* A lease of the service is the generation of the caller's ConnectionRef.
LEMMA LeaseSame ==
  ASSUME \A c \in Callers : caller'[c].gen = caller[c].gen
  PROVE  LeaseOf' = LeaseOf
BY DEF LeaseOf

-----------------------------------------------------------------------------
(* The steps of the pool actor are not seen: it owns no connection.        *)

\* A new slot adds an actor that has no connection yet.
LEMMA SpawnUnseen ==
  ASSUME IInv, GenBound, NEW m, NEW table, NEW q, Spawn(m, table, q)
  PROVE  Unseen /\ GenBound'
<1>1. /\ nextGen \in Nat \ {0} /\ nextGen <= MaxGeneration /\ nextGen' = nextGen + 1
      /\ MaxGeneration \in Nat /\ UNCHANGED caller
      /\ actor' = [g \in 1 .. nextGen |->
                     IF g = nextGen THEN NewActor(m.id, m.caller) ELSE actor[g]]
  BY BoundsAssumption DEF IInv, PoolTypes, Spawn
<1>2. Gens' = 1 .. nextGen /\ Gens = 1 .. (nextGen - 1)
  BY <1>1 DEF Gens
<1>3. \A g \in 1 .. MaxGeneration :
        (IF g \in Gens' THEN actor'[g].conn ELSE "none")
          = IF g \in Gens THEN actor[g].conn ELSE "none"
  <2>1. NewActor(m.id, m.caller).conn = "none"
    BY DEF NewActor
  <2>2. QED BY <1>1, <1>2, <2>1
<1>4. StateOf' = StateOf
  BY <1>3 DEF StateOf
<1>5. LeaseOf' = LeaseOf /\ GenBound'
  BY <1>1 DEF LeaseOf, GenBound
<1>6. QED BY <1>4, <1>5 DEF Unseen

\* PoolActor::handle and PoolActor::run change no connection and no lease.
LEMMA PoolStepUnseen ==
  ASSUME IInv, GenBound, PoolStep
  PROVE  Unseen /\ GenBound'
<1> DEFINE m == Head(queue)
<1>1. ASSUME UNCHANGED <<nextGen, actor, caller>> PROVE Unseen /\ GenBound'
  BY <1>1, StateSame, LeaseSame DEF Unseen, GenBound
<1>2. ASSUME NEW e, NEW c \in Callers, UNCHANGED <<nextGen, actor>>,
             caller' = [caller EXCEPT ![c] = Failed(caller[c], e, 0)]
      PROVE  Unseen /\ GenBound'
  <2>1. LeaseOf' = LeaseOf
    BY <1>2, CallerFails, LeaseSame
  <2>2. QED BY <1>2, <2>1, StateSame DEF Unseen, GenBound
<1>3. CASE Forward
  <2>1. m.id \in Peers
    BY <1>3, HandlingOK DEF Forward
  <2> DEFINE g == connections[m.id]
             b == [actor[g] EXCEPT !.mailbox = Append(actor[g].mailbox, m.caller)]
  <2>2. g \in Gens /\ actor[g] \in Actor
    BY <1>3, <2>1 DEF Forward, SlotOpen, IInv, SlotsOK, PoolTypes, Gens, ActorsOK
  <2>3. b.conn = actor[g].conn
    BY <2>2 DEF Actor
  <2>4. Become(g, b) /\ UNCHANGED <<nextGen, caller>>
    BY <1>3 DEF Forward
  <2>5. StateOf' = StateOf
    <3> HIDE DEF b, g
    <3>1. QED BY <2>2, <2>3, <2>4, ActorUnseen
  <2>6. QED BY <2>4, <2>5, LeaseSame DEF Unseen, GenBound
<1>4. CASE RejectBusy
  BY <1>2, <1>4, HandlingOK DEF RejectBusy
<1>5. CASE RejectTooMany
  BY <1>2, <1>5, HandlingOK DEF RejectTooMany
<1>6. CASE SpawnConnection
  BY <1>6, SpawnUnseen DEF SpawnConnection
<1>7. CASE EvictAndSpawn
  BY <1>7, SpawnUnseen DEF EvictAndSpawn
<1>8. CASE HandleIdle \/ HandleShutdown \/ PoolStop \/ PoolJoined
  BY <1>1, <1>8 DEF HandleIdle, HandleShutdown, PoolStop, PoolJoined
<1>9. QED BY <1>3, <1>4, <1>5, <1>6, <1>7, <1>8 DEF PoolStep

-----------------------------------------------------------------------------
(* The connection actors.                                                  *)

\* What an actor sends to the pool, and a Closed reply, change no connection and no
\* lease.
LEMMA ActorSendsUnseen ==
  ASSUME IInv, GenBound, NEW g \in Gens, ActorSends(g)
  PROVE  Unseen /\ GenBound'
<1> DEFINE a == actor[g]
<1>1. a \in Actor /\ g \in Nat
  BY DEF IInv, ActorsOK, Gens, PoolTypes
<1>2. ASSUME NEW b, b.conn = a.conn, Become(g, b), UNCHANGED nextGen,
             \A c \in Callers : caller'[c].gen = caller[c].gen
      PROVE  Unseen /\ GenBound'
  BY <1>2, ActorUnseen, LeaseSame DEF Unseen, GenBound
<1>3. CASE ReportFailure(g)
  <2>1. [a EXCEPT !.pc = "loop", !.pending = closed].conn = a.conn
    BY <1>1 DEF Actor
  <2>2. QED BY <1>2, <1>3, <2>1 DEF ReportFailure
<1>4. CASE Refused(g)
  <2>1. [a EXCEPT !.pc = "exit", !.req = {}].conn = a.conn
    BY <1>1 DEF Actor
  <2>2. \A c \in Callers : caller'[c].gen = caller[c].gen
    BY <1>1, <1>4, CallersFail DEF Refused
  <2>3. QED BY <1>2, <1>4, <2>1, <2>2 DEF Refused
<1>5. CASE ReportIdle(g)
  <2>1. [a EXCEPT !.pc = "loop", !.idleActive = TRUE].conn = a.conn
    BY <1>1 DEF Actor
  <2>2. QED BY <1>2, <1>5, <2>1 DEF ReportIdle
<1>6. CASE ReportDone(g)
  <2>1. [a EXCEPT !.pc = "exit"].conn = a.conn
    BY <1>1 DEF Actor
  <2>2. QED BY <1>2, <1>6, <2>1 DEF ReportDone
<1>7. QED BY <1>3, <1>4, <1>5, <1>6 DEF ActorSends

\* A connection that run_connection has made is Opened in the service.
LEMMA ConnectedOpens ==
  ASSUME IInv, GenBound, NEW g \in Gens, Connected(g)
  PROVE  Service!Open(g)
<1> DEFINE b == [actor[g] EXCEPT !.pc = "loop", !.conn = "open", !.pending = closed]
<1>1. actor[g] \in Actor /\ Unleased(actor[g]) /\ actor[g].pc = "connecting"
        /\ Become(g, b) /\ UNCHANGED <<nextGen, caller>>
  BY DEF IInv, ActorsOK, Connected, At, OnlyActor
<1>2. g \in 1 .. MaxGeneration /\ actor[g].conn = "none" /\ b.conn = "open"
  BY <1>1, BoundsAssumption DEF Unleased, Actor, GenBound, Gens
<1>3. StateOf[g] = "none"
  BY <1>2 DEF StateOf
<1>4. actor'[g] = b /\ \A h \in Gens \ {g} : actor'[h] = actor[h]
  BY <1>1 DEF IInv, ActorsOK, Become
<1>5. StateOf' = [StateOf EXCEPT ![g] = "open"]
  <2> HIDE DEF b
  <2>1. QED BY <1>1, <1>2, <1>4, StateOne
<1>6. LeaseOf' = LeaseOf
  BY <1>1, LeaseSame
<1>7. QED BY <1>3, <1>5, <1>6 DEF Service!Open, Service!Becomes

\* A connection that the peer or the network ends is lost to the service.
LEMMA LoseLoses ==
  ASSUME IInv, GenBound, NEW g \in Gens, Lose(g)
  PROVE  Service!Lose(g)
<1> DEFINE b == [actor[g] EXCEPT !.conn = "lost"]
<1>1. actor[g] \in Actor /\ actor[g].conn = "open"
        /\ Become(g, b) /\ UNCHANGED <<nextGen, caller>>
  BY DEF IInv, ActorsOK, Lose
<1>2. g \in 1 .. MaxGeneration /\ b.conn = "lost"
  BY <1>1, BoundsAssumption DEF Actor, GenBound, Gens
<1>3. StateOf[g] = "open"
  BY <1>1, <1>2 DEF StateOf
<1>4. actor'[g] = b /\ \A h \in Gens \ {g} : actor'[h] = actor[h]
  BY <1>1 DEF IInv, ActorsOK, Become
<1>5. StateOf' = [StateOf EXCEPT ![g] = "lost"]
  <2> HIDE DEF b
  <2>1. QED BY <1>1, <1>2, <1>4, StateOne
<1>6. LeaseOf' = LeaseOf
  BY <1>1, LeaseSame
<1>7. QED BY <1>3, <1>5, <1>6 DEF Service!Lose, Service!Becomes

\* The end of run_connection closes a connection that is still open, which then
\* nobody leases; otherwise it is not seen.
LEMMA ExitCloses ==
  ASSUME IInv, GenBound, NEW g \in Gens, Exit(g)
  PROVE  Service!Close(g) \/ Unseen
<1> DEFINE a == actor[g]
           b == [a EXCEPT !.pc = "stopped", !.mailbox = <<>>,
                          !.conn = IF a.conn = "open" THEN "closed" ELSE a.conn,
                          !.permit = FALSE, !.idleActive = FALSE, !.pending = FALSE,
                          !.wake = FALSE]
           S == {c \in Callers : \E i \in 1 .. Len(a.mailbox) : a.mailbox[i] = c}
<1>1. a \in Actor /\ Unleased(a) /\ g \in Nat \ {0} /\ a.pc = "exit" /\ Become(g, b)
        /\ nextGen' = nextGen
  BY DEF IInv, ActorsOK, PoolTypes, Gens, Exit, At
<1>2. caller' = [c \in Callers |-> IF c \in S THEN Failed(caller[c], "Shutdown", g)
                                   ELSE caller[c]]
  BY DEF Exit
<1>3. LeaseOf' = LeaseOf
  <2> HIDE DEF S
  <2>1. QED BY <1>1, <1>2, CallersFail, LeaseSame
<1>4. b.conn = IF a.conn = "open" THEN "closed" ELSE a.conn
  BY <1>1 DEF Actor
<1>5. CASE a.conn = "open"
  <2>1. a.count = 0
    BY <1>1, <1>5 DEF Unleased
  <2>2. Holders(g) = {}
    BY <2>1, HoldersFinite, FS_EmptySet DEF IInv, CountIsHolders
  <2>3. \A c \in Callers : LeaseOf[c] # g
    BY <2>2 DEF Holders, LeaseOf
  <2>4. g \in 1 .. MaxGeneration
    BY <1>1, BoundsAssumption DEF GenBound, Gens
  <2>5. StateOf[g] = "open"
    BY <1>5, <2>4 DEF StateOf
  <2>6. actor'[g] = b /\ \A h \in Gens \ {g} : actor'[h] = actor[h]
    BY <1>1 DEF IInv, ActorsOK, Become
  <2>7. StateOf' = [StateOf EXCEPT ![g] = "closed"]
    <3> HIDE DEF b
    <3>1. QED BY <1>1, <1>4, <1>5, <2>6, StateOne
  <2>8. QED BY <1>3, <2>3, <2>5, <2>7 DEF Service!Close, Service!Becomes
<1>6. CASE a.conn # "open"
  <2>1. StateOf' = StateOf
    <3> HIDE DEF b
    <3>1. QED BY <1>1, <1>4, <1>6, ActorUnseen
  <2>2. QED BY <1>3, <2>1 DEF Unseen
<1>7. QED BY <1>5, <1>6

\* get_one with its reply is a Lease of the service, unless the caller is gone.
LEMMA ServeLeases ==
  ASSUME IInv, GenBound, NEW g \in Gens, Serve(g)
  PROVE  (\E c \in Callers : Service!Lease(c, g)) \/ Unseen
<1> DEFINE a == actor[g]
           c == Head(a.mailbox)
           gone == caller[c].pc # "waiting"
           b == HandOut(a, gone)
           k == Leased(caller[c], g)
<1>1. a \in Actor /\ g \in Nat \ {0} /\ a.conn = "open" /\ a.mailbox # <<>> /\ Become(g, b)
        /\ caller' = [caller EXCEPT ![c] = k] /\ nextGen' = nextGen
  BY DEF IInv, ActorsOK, PoolTypes, Gens, Serve, At
<1>2. a.mailbox \in Seq(Callers)
  BY <1>1 DEF Actor
<1>3. c \in Callers
  BY <1>1, <1>2
<1>4. caller[c] \in Caller /\ OwnsLease(caller[c]) /\ caller \in [Callers -> Caller]
  BY <1>3 DEF IInv, CallersOK
<1>5. k.gen = IF gone THEN caller[c].gen ELSE g
  BY <1>1, <1>4, LeasedOK
<1>6. b.conn = a.conn
  BY <1>1 DEF HandOut, Dropped, Actor
<1> HIDE DEF b, k, gone
<1>7. StateOf' = StateOf
  BY <1>1, <1>6, ActorUnseen
<1>8. CASE gone
  <2>1. \A d \in Callers : caller'[d].gen = caller[d].gen
    BY <1>1, <1>3, <1>4, <1>5, <1>8
  <2>2. QED BY <1>7, <2>1, LeaseSame DEF Unseen
<1>9. CASE ~gone
  <2>1. caller[c].gen = 0
    BY <1>4, <1>9 DEF OwnsLease, gone
  <2>2. LeaseOf[c] = 0 /\ LeaseOf' = [LeaseOf EXCEPT ![c] = g]
    BY <1>1, <1>3, <1>4, <1>5, <1>9, <2>1 DEF LeaseOf
  <2>3. g \in 1 .. MaxGeneration
    BY <1>1, BoundsAssumption DEF GenBound, Gens
  <2>4. StateOf[g] = "open"
    BY <1>1, <2>3 DEF StateOf
  <2>5. QED BY <1>3, <1>7, <2>2, <2>4 DEF Service!Lease
<1>10. QED BY <1>8, <1>9

\* The other steps of run_connection change its position only.
LEMMA ActorMovesSeen ==
  ASSUME IInv, GenBound, NEW g \in Gens, ActorMoves(g)
  PROVE  /\ \/ Service!Open(g) \/ Service!Close(g) \/ Unseen
            \/ \E c \in Callers : Service!Lease(c, g)
         /\ GenBound'
<1> DEFINE a == actor[g]
<1>1. a \in Actor
  BY DEF IInv, ActorsOK
<1>2. nextGen' = nextGen
  BY DEF ActorMoves, Connected, ConnectFailed, SeeShutdown, SeeClosed, Serve, ServeError,
         Refuse, Notified, IdleExpired, Exit, OnlyActor
<1>3. ASSUME NEW b, b.conn = a.conn, Become(g, b),
             \A c \in Callers : caller'[c].gen = caller[c].gen
      PROVE  Unseen
  BY <1>2, <1>3, ActorUnseen, LeaseSame DEF Unseen
<1>4. CASE ConnectFailed(g)
  <2>1. [a EXCEPT !.pc = "reportFailure"].conn = a.conn
    BY <1>1 DEF Actor
  <2>2. Unseen BY <1>3, <1>4, <2>1 DEF ConnectFailed, OnlyActor
  <2>3. QED BY <1>2, <2>2 DEF GenBound
<1>5. CASE SeeShutdown(g)
  <2>1. [a EXCEPT !.wake = FALSE, !.pending = TRUE,
                  !.pc = IF a.count = 0 THEN "exit" ELSE "loop"].conn = a.conn
    BY <1>1 DEF Actor
  <2>2. Unseen BY <1>3, <1>5, <2>1 DEF SeeShutdown, OnlyActor
  <2>3. QED BY <1>2, <2>2 DEF GenBound
<1>6. CASE SeeClosed(g)
  <2>1. [a EXCEPT !.pc = "reportClosed"].conn = a.conn
    BY <1>1 DEF Actor
  <2>2. Unseen BY <1>3, <1>6, <2>1 DEF SeeClosed, OnlyActor
  <2>3. QED BY <1>2, <2>2 DEF GenBound
<1>7. CASE ServeError(g)
  <2>1. [a EXCEPT !.mailbox = Tail(a.mailbox)].conn = a.conn /\ a.mailbox \in Seq(Callers)
    BY <1>1 DEF Actor
  <2>2. Head(a.mailbox) \in Callers
    BY <1>7, <2>1 DEF ServeError
  <2>3. \A c \in Callers : caller'[c].gen = caller[c].gen
    BY <1>2, <1>7, <2>2, CallerFails DEF ServeError
  <2>4. Unseen BY <1>3, <1>7, <2>1, <2>3 DEF ServeError
  <2>5. QED BY <1>2, <2>4 DEF GenBound
<1>8. CASE Refuse(g)
  <2>1. [a EXCEPT !.pc = "refuse", !.req = {Head(a.mailbox)},
                  !.mailbox = Tail(a.mailbox)].conn = a.conn
    BY <1>1 DEF Actor
  <2>2. Unseen BY <1>3, <1>8, <2>1 DEF Refuse, OnlyActor
  <2>3. QED BY <1>2, <2>2 DEF GenBound
<1>9. CASE Notified(g)
  <2>1. [a EXCEPT !.permit = FALSE, !.pc = CASE a.count # 0 -> "loop"
                                             [] a.count = 0 /\ a.pending -> "exit"
                                             [] OTHER -> "reportIdle"].conn = a.conn
    BY <1>1 DEF Actor
  <2>2. Unseen BY <1>3, <1>9, <2>1 DEF Notified, OnlyActor
  <2>3. QED BY <1>2, <2>2 DEF GenBound
<1>10. CASE IdleExpired(g)
  <2>1. [a EXCEPT !.pc = "reportExpired"].conn = a.conn
    BY <1>1 DEF Actor
  <2>2. Unseen BY <1>3, <1>10, <2>1 DEF IdleExpired, OnlyActor
  <2>3. QED BY <1>2, <2>2 DEF GenBound
<1>11. GenBound'
  BY <1>2 DEF GenBound
<1>12. QED
  BY <1>4, <1>5, <1>6, <1>7, <1>8, <1>9, <1>10, <1>11, ConnectedOpens, ServeLeases, ExitCloses
  DEF ActorMoves

-----------------------------------------------------------------------------
(* The callers.                                                            *)

\* A caller whose lease ends returns it, and its connection stays as it is.
LEMMA LeaseReturned ==
  ASSUME IInv, NEW c \in Callers, caller[c].gen # 0, NEW k, k.gen = 0,
         caller' = [caller EXCEPT ![c] = k], nextGen' = nextGen,
         Become(caller[c].gen, Dropped(actor[caller[c].gen]))
  PROVE  Service!Return(c)
<1>1. PICK g \in Gens : g = caller[c].gen
  BY DEF IInv, CallersOK, Caller, Gens, PoolTypes
<1>2. actor[g] \in Actor
  BY DEF IInv, ActorsOK
<1>3. Dropped(actor[g]).conn = actor[g].conn
  BY <1>2 DEF Dropped, Actor
<1>4. StateOf' = StateOf
  BY <1>1, <1>3, ActorUnseen
<1>5. LeaseOf[c] # 0 /\ LeaseOf' = [LeaseOf EXCEPT ![c] = 0]
  BY DEF LeaseOf, IInv, CallersOK
<1>6. QED BY <1>4, <1>5 DEF Service!Return

\* The steps of get_or_connect, open_stream and of lease holders return the caller's
\* lease or are not seen.
LEMMA CallerStepSeen ==
  ASSUME IInv, GenBound, NEW c \in Callers, CallerStep(c)
  PROVE  (Service!Return(c) \/ Unseen) /\ GenBound'
<1> DEFINE k == caller[c]
<1>1. k \in Caller /\ OwnsLease(k) /\ caller \in [Callers -> Caller]
  BY DEF IInv, CallersOK
<1>2. nextGen' = nextGen
  BY DEF CallerStep, Start, SendRequest, OpenBi, OpenBiFails, OnlyCaller, Invalidate, Release,
         Cancel
<1>3. ASSUME NEW n, n.gen = k.gen, caller' = [caller EXCEPT ![c] = n], UNCHANGED actor
      PROVE  Unseen
  <2>1. \A d \in Callers : caller'[d].gen = caller[d].gen
    BY <1>1, <1>3
  <2>2. QED BY <1>2, <1>3, <2>1, StateSame, LeaseSame DEF Unseen
<1>4. ASSUME NEW p \in Peers, NEW op \in Ops, Start(c, p, op) PROVE Unseen
  <2>1. [Returned EXCEPT !.pc = "sending", !.op = op, !.peer = {p}].gen = 0
    BY DEF Returned
  <2>2. k.gen = 0
    BY <1>1, <1>4 DEF Start, OwnsLease
  <2>3. QED BY <1>3, <1>4, <2>1, <2>2 DEF Start
<1>5. ASSUME NEW t, caller' = [caller EXCEPT ![c] = [k EXCEPT !.pc = t]], UNCHANGED actor
      PROVE  Unseen
  <2>1. [k EXCEPT !.pc = t].gen = k.gen
    BY <1>1 DEF Caller
  <2>2. QED BY <1>3, <1>5, <2>1
<1>6. CASE SendRequest(c)
  <2>1. caller' = [caller EXCEPT ![c] = [k EXCEPT !.pc = "waiting"]] /\ UNCHANGED actor
    BY <1>6 DEF SendRequest
  <2>2. QED BY <1>2, <1>5, <2>1 DEF GenBound
<1>7. CASE OpenBi(c)
  <2>1. caller' = [caller EXCEPT ![c] = [k EXCEPT !.pc = "holding"]] /\ UNCHANGED actor
    BY <1>7 DEF OpenBi, OnlyCaller
  <2>2. QED BY <1>2, <1>5, <2>1 DEF GenBound
<1>8. CASE OpenBiFails(c)
  <2>1. caller' = [caller EXCEPT ![c] = [k EXCEPT !.pc = "invalidating"]] /\ UNCHANGED actor
    BY <1>8 DEF OpenBiFails, OnlyCaller
  <2>2. QED BY <1>2, <1>5, <2>1 DEF GenBound
<1>9. CASE Invalidate(c)
  <2> DEFINE n == [k EXCEPT !.pc = "sending", !.tries = k.tries + 1, !.attempt = 0,
                            !.gen = 0, !.burned = k.burned \cup {k.gen}]
             r == IF k.tries + 1 = Retries THEN Returned ELSE n
  <2>1. r.gen = 0
    <3>1. n.gen = 0 /\ Returned.gen = 0
      BY <1>1 DEF Caller, Returned
    <3> HIDE DEF n
    <3>2. QED BY <3>1
  <2>2. k.gen # 0 /\ Become(k.gen, Dropped(actor[k.gen])) /\ caller' = [caller EXCEPT ![c] = r]
    BY <1>1, <1>9 DEF Invalidate, OwnsLease
  <2>3. QED
    <3> HIDE DEF r
    <3>1. QED BY <1>2, <2>1, <2>2, LeaseReturned DEF GenBound
<1>10. CASE Release(c)
  <2>1. k.gen # 0 /\ Returned.gen = 0
    BY <1>1, <1>10 DEF Release, OwnsLease, Returned
  <2>2. Service!Return(c)
    BY <1>2, <1>10, <2>1, LeaseReturned DEF Release
  <2>3. QED BY <1>2, <2>2 DEF GenBound
<1>11. CASE Cancel(c)
  <2> DEFINE n == [Returned EXCEPT !.pc = "gone"]
  <2>1. n.gen = 0 /\ caller' = [caller EXCEPT ![c] = n]
    BY <1>11 DEF Cancel, Returned
  <2>2. CASE k.gen = 0
    <3>1. UNCHANGED actor BY <1>11, <2>2 DEF Cancel
    <3>2. Unseen
      <4> HIDE DEF n
      <4>1. QED BY <1>3, <2>1, <2>2, <3>1
    <3>3. QED BY <1>2, <3>2 DEF GenBound
  <2>3. CASE k.gen # 0
    <3>1. Become(k.gen, Dropped(actor[k.gen])) BY <1>11, <2>3 DEF Cancel
    <3>2. Service!Return(c)
      <4> HIDE DEF n
      <4>1. QED BY <1>2, <2>1, <2>3, <3>1, LeaseReturned
    <3>3. QED BY <1>2, <3>2 DEF GenBound
  <2>4. QED BY <2>2, <2>3
<1>12. GenBound'
  BY <1>2 DEF GenBound
<1>13. QED
  BY <1>4, <1>6, <1>7, <1>8, <1>9, <1>10, <1>11, <1>12 DEF CallerStep

\* Dropping the last pool handle closes no connection by itself.
LEMMA CloseUnseen ==
  ASSUME IInv, GenBound, Close
  PROVE  Unseen /\ GenBound'
<1>1. UNCHANGED <<nextGen, caller>>
  BY DEF Close
<1>2. PICK heard : actor' = [g \in Gens |-> [actor[g] EXCEPT !.wake = g \in heard]]
  BY DEF Close
<1>3. \A g \in Gens : actor'[g].conn = actor[g].conn
  <2> SUFFICES ASSUME NEW g \in Gens PROVE actor'[g].conn = actor[g].conn
    OBVIOUS
  <2>1. PICK w \in BOOLEAN : actor'[g] = [actor[g] EXCEPT !.wake = w]
    <3>1. actor'[g] = [actor[g] EXCEPT !.wake = g \in heard]
      BY <1>2, Zenon
    <3>2. (g \in heard) \in BOOLEAN
      OBVIOUS
    <3>3. QED BY <3>1, <3>2, Zenon
  <2>2. actor[g] \in Actor
    BY DEF IInv, ActorsOK
  <2>3. QED BY <2>1, <2>2 DEF Actor
<1>4. QED BY <1>1, <1>3, StateSame, LeaseSame DEF Unseen, GenBound

-----------------------------------------------------------------------------
(* The refinement.                                                         *)

\* The initial states of the pool are initial states of the service.
LEMMA InitRefines == Init => Service!Init /\ GenBound
<1> SUFFICES ASSUME Init PROVE Service!Init /\ GenBound
  OBVIOUS
<1>1. nextGen = 1 /\ Gens = {} /\ MaxGeneration \in Nat
  BY BoundsAssumption DEF Init, Gens
<1>2. StateOf = [g \in 1 .. MaxGeneration |-> "none"]
  BY <1>1 DEF StateOf
<1>3. LeaseOf = [c \in Callers |-> 0]
  BY DEF Init, LeaseOf, Returned
<1>4. QED BY <1>1, <1>2, <1>3 DEF Service!Init, GenBound

\* Every step of the pool is a step of the service or not seen by it.
LEMMA NextRefines ==
  ASSUME IInv, GenBound, [Next]_vars
  PROVE  [Service!Next]_(Service!vars) /\ GenBound'
<1>1. Gens \subseteq 1 .. MaxGeneration
  BY BoundsAssumption DEF Gens, GenBound
<1>2. ASSUME Unseen PROVE UNCHANGED Service!vars
  BY <1>2 DEF Unseen, Service!vars
<1>3. CASE PoolStep
  BY <1>2, <1>3, PoolStepUnseen
<1>4. ASSUME NEW g \in Gens, ActorSends(g) \/ ActorMoves(g) \/ Lose(g)
      PROVE  [Service!Next]_(Service!vars) /\ GenBound'
  <2>1. CASE ActorSends(g)
    BY <1>2, <2>1, ActorSendsUnseen
  <2>2. CASE ActorMoves(g)
    BY <1>1, <1>2, <2>2, ActorMovesSeen DEF Service!Next
  <2>3. CASE Lose(g)
    <3>1. GenBound' BY <2>3 DEF Lose, GenBound
    <3>2. QED BY <1>1, <2>3, <3>1, LoseLoses DEF Service!Next
  <2>4. QED BY <1>4, <2>1, <2>2, <2>3
<1>5. ASSUME NEW c \in Callers, CallerStep(c) PROVE [Service!Next]_(Service!vars) /\ GenBound'
  BY <1>2, <1>5, CallerStepSeen DEF Service!Next
<1>6. CASE Close
  BY <1>2, <1>6, CloseUnseen
<1>7. CASE UNCHANGED vars
  <2>1. UNCHANGED <<nextGen, actor, caller>>
    BY <1>7 DEF vars
  <2>2. Unseen /\ GenBound'
    BY <2>1, StateSame, LeaseSame DEF Unseen, GenBound
  <2>3. QED BY <1>2, <2>2
<1>8. QED BY <1>3, <1>4, <1>5, <1>6, <1>7 DEF Next

\* The pool of pool.rs, seen by those who own ConnectionRefs, behaves like
\* LeaseService: connections are opened once, leased only while open, and closed by
\* run_connection only when nobody leases them.
THEOREM Refinement == Spec => ImplementsService
<1>1. Spec => []GenBound
  <2>1. Init => GenBound
    BY InitRefines
  <2>2. IInv /\ GenBound /\ [Next]_vars => GenBound'
    BY NextRefines
  <2>3. QED BY <2>1, <2>2, InvariantIInv, PTL DEF Spec
<1>2. Init => Service!Init
  BY InitRefines
<1>3. IInv /\ GenBound /\ [Next]_vars => [Service!Next]_(Service!vars)
  BY NextRefines
<1>4. QED BY <1>1, <1>2, <1>3, InvariantIInv, PTL DEF Spec, ImplementsService, Service!Spec

-----------------------------------------------------------------------------
(* Routing.                                                                *)

\* A message of the pool's queue that is a request of caller c.
Asks(m, c) == m.type = "Request" /\ m.caller = c

\* Queue q holds a request of c; it holds one at most.
Queued(q, c) == \E i \in 1 .. Len(q) : Asks(q[i], c)

QueuedOnce(q, c) == \A i, j \in 1 .. Len(q) : Asks(q[i], c) /\ Asks(q[j], c) => i = j

\* Mailbox s holds a request of c; it holds one at most.
Boxed(s, c) == \E i \in 1 .. Len(s) : s[i] = c

BoxedOnce(s, c) == \A i, j \in 1 .. Len(s) : s[i] = c /\ s[j] = c => i = j

\* Queue q holds message m, ahead of every request of c.
Ahead(q, m, c) ==
  \E i \in 1 .. Len(q) : q[i] = m /\ \A j \in 1 .. Len(q) : Asks(q[j], c) => i < j

-----------------------------------------------------------------------------
(* The inductive invariant.                                                *)

\* Nobody has an operation in progress once the last handle is dropped, and only
\* then does the pool actor stop.
ClosedOK ==
  /\ pool \in {"missed", "stopping", "draining", "stopped"} => closed
  /\ closed => \A c \in Callers : ~Busy(c)

\* Actor g has a request of c.
Has(g, c) == Boxed(actor[g].mailbox, c) \/ c \in actor[g].req

\* A request of c is in one place at most; an actor that has taken it from its
\* mailbox is refusing it.
OnePlace(c) ==
  /\ QueuedOnce(queue, c)
  /\ \A g \in Gens : /\ BoxedOnce(actor[g].mailbox, c)
                     /\ c \in actor[g].req => actor[g].pc = "refuse"
                     /\ Has(g, c) => ~Queued(queue, c)
                     /\ ~(Boxed(actor[g].mailbox, c) /\ c \in actor[g].req)
  /\ \A g, h \in Gens : Has(g, c) /\ Has(h, c) => g = h

Somewhere(c) == Queued(queue, c) \/ \E g \in Gens : Has(g, c)

Placed(c) == OnePlace(c) /\ (caller[c].pc = "waiting" <=> Somewhere(c))

\* The request and the lease of c are about the peer of its operation.
RightPeer(c) ==
  /\ caller[c].pc # "ready" => \E p \in Peers : caller[c].peer = {p}
  /\ caller[c].gen # 0 => actor[caller[c].gen].id \in caller[c].peer
  /\ \A i \in 1 .. Len(queue) : Asks(queue[i], c) => queue[i].id \in caller[c].peer
  /\ \A g \in Gens : Boxed(actor[g].mailbox, c) => actor[g].id \in caller[c].peer

\* The connection of actor a is over, and will stay so.
Over(a) == a.pc # "connecting" /\ (a.conn # "open" \/ a.pc \in {"exit", "stopped"})

\* An operation cannot come back to the generation g that it gave up on: the slot
\* is gone, or the message that removes it is ahead of the operation's request.
Avoids(c, g) ==
  /\ g \in Gens
  /\ ~Boxed(actor[g].mailbox, c)
  /\ \/ connections[actor[g].id] # g
     \/ Ahead(queue, ShutdownMsg(actor[g].id, g), c)

\* What holds of a caller whose future has not been dropped.
CallerInv(c) ==
  caller[c].pc # "gone" =>
    /\ Placed(c) /\ RightPeer(c)
    /\ caller[c].pc = "invalidating" => Over(actor[caller[c].gen])
    /\ \A g \in caller[c].burned : Avoids(c, g)

\* A slot belongs to the peer of its actor.
SlotIds == \A p \in Peers : connections[p] # 0 => actor[connections[p]].id = p

\* A Shutdown message tells the truth.
ShutdownsTrue ==
  \A i \in 1 .. Len(queue) : queue[i].type = "Shutdown" =>
    queue[i].generation \in Gens /\ Over(actor[queue[i].generation])

RInv == ClosedOK /\ SlotIds /\ ShutdownsTrue /\ \A c \in Callers : CallerInv(c)

\* The slot table and the idle list.
IdleDistinct(q) == \A i, j \in 1 .. Len(q) : q[i].id = q[j].id => i = j

SlotsInv ==
  /\ idle \in Seq(IdleEntry)
  /\ IsFiniteSet({p \in Peers : connections[p] # 0})
  /\ SlotsConsistent

-----------------------------------------------------------------------------
(* What sending and receiving do to a queue and to a mailbox.              *)

\* Taking the first message: the requests of c that are left.
LEMMA TailQueued ==
  ASSUME NEW S, NEW q \in Seq(S), q # <<>>, NEW c, QueuedOnce(q, c)
  PROVE  /\ QueuedOnce(Tail(q), c)
         /\ Queued(Tail(q), c) <=> Queued(q, c) /\ ~Asks(Head(q), c)
<1>1. /\ Len(q) \in Nat \ {0} /\ Len(Tail(q)) = Len(q) - 1 /\ Head(q) = q[1]
      /\ \A i \in 1 .. Len(q) - 1 : Tail(q)[i] = q[i + 1]
  BY HeadTailProperties, EmptySeq
<1>2. QueuedOnce(Tail(q), c)
  <2> SUFFICES ASSUME NEW i \in 1 .. Len(Tail(q)), NEW j \in 1 .. Len(Tail(q)),
                      Asks(Tail(q)[i], c), Asks(Tail(q)[j], c)
               PROVE  i = j
    BY DEF QueuedOnce
  <2>1. i + 1 \in 1 .. Len(q) /\ j + 1 \in 1 .. Len(q)
        /\ Asks(q[i + 1], c) /\ Asks(q[j + 1], c)
    BY <1>1
  <2>2. QED BY <2>1 DEF QueuedOnce
<1>3. ASSUME Queued(Tail(q), c) PROVE Queued(q, c) /\ ~Asks(Head(q), c)
  <2>1. PICK i \in 1 .. Len(Tail(q)) : Asks(Tail(q)[i], c)
    BY <1>3 DEF Queued
  <2>2. i + 1 \in 1 .. Len(q) /\ Asks(q[i + 1], c) /\ i + 1 # 1 /\ 1 \in 1 .. Len(q)
    BY <1>1, <2>1
  <2>3. Queued(q, c)
    BY <2>2 DEF Queued
  <2>4. ~Asks(q[1], c)
    BY <2>2 DEF QueuedOnce
  <2>5. QED BY <1>1, <2>3, <2>4
<1>4. ASSUME Queued(q, c), ~Asks(Head(q), c) PROVE Queued(Tail(q), c)
  <2>1. PICK i \in 1 .. Len(q) : Asks(q[i], c)
    BY <1>4 DEF Queued
  <2>2. i # 1
    BY <1>1, <1>4, <2>1
  <2>3. i - 1 \in 1 .. Len(Tail(q)) /\ Tail(q)[i - 1] = q[i]
    BY <1>1, <2>2
  <2>4. QED BY <2>1, <2>3 DEF Queued
<1>5. QED BY <1>2, <1>3, <1>4

\* Sending a message: a request of c is new if c has none in the queue.
LEMMA AppendQueued ==
  ASSUME NEW S, NEW q \in Seq(S), NEW m \in S, NEW c, QueuedOnce(q, c),
         Asks(m, c) => ~Queued(q, c)
  PROVE  /\ QueuedOnce(Append(q, m), c)
         /\ Queued(Append(q, m), c) <=> Queued(q, c) \/ Asks(m, c)
<1> DEFINE r == Append(q, m)
<1>1. /\ Len(q) \in Nat /\ Len(r) = Len(q) + 1 /\ r[Len(q) + 1] = m
      /\ \A i \in 1 .. Len(q) : r[i] = q[i]
  BY AppendProperties
<1> HIDE DEF r
<1>2. QueuedOnce(r, c)
  BY <1>1 DEF QueuedOnce, Queued
<1>3. Queued(r, c) <=> Queued(q, c) \/ Asks(m, c)
  BY <1>1 DEF Queued
<1>4. QED BY <1>2, <1>3 DEF r

\* The same of mailboxes.
LEMMA TailBoxed ==
  ASSUME NEW S, NEW s \in Seq(S), s # <<>>, NEW c, BoxedOnce(s, c)
  PROVE  /\ BoxedOnce(Tail(s), c)
         /\ Boxed(Tail(s), c) <=> Boxed(s, c) /\ Head(s) # c
<1>1. /\ Len(s) \in Nat \ {0} /\ Len(Tail(s)) = Len(s) - 1 /\ Head(s) = s[1]
      /\ \A i \in 1 .. Len(s) - 1 : Tail(s)[i] = s[i + 1]
  BY HeadTailProperties, EmptySeq
<1>2. BoxedOnce(Tail(s), c)
  <2> SUFFICES ASSUME NEW i \in 1 .. Len(Tail(s)), NEW j \in 1 .. Len(Tail(s)),
                      Tail(s)[i] = c, Tail(s)[j] = c
               PROVE  i = j
    BY DEF BoxedOnce
  <2>1. i + 1 \in 1 .. Len(s) /\ j + 1 \in 1 .. Len(s) /\ s[i + 1] = c /\ s[j + 1] = c
    BY <1>1
  <2>2. QED BY <2>1 DEF BoxedOnce
<1>3. ASSUME Boxed(Tail(s), c) PROVE Boxed(s, c) /\ Head(s) # c
  <2>1. PICK i \in 1 .. Len(Tail(s)) : Tail(s)[i] = c
    BY <1>3 DEF Boxed
  <2>2. i + 1 \in 1 .. Len(s) /\ s[i + 1] = c /\ i + 1 # 1 /\ 1 \in 1 .. Len(s)
    BY <1>1, <2>1
  <2>3. Boxed(s, c)
    BY <2>2 DEF Boxed
  <2>4. s[1] # c
    BY <2>2 DEF BoxedOnce
  <2>5. QED BY <1>1, <2>3, <2>4
<1>4. ASSUME Boxed(s, c), Head(s) # c PROVE Boxed(Tail(s), c)
  <2>1. PICK i \in 1 .. Len(s) : s[i] = c
    BY <1>4 DEF Boxed
  <2>2. i # 1
    BY <1>1, <1>4, <2>1
  <2>3. i - 1 \in 1 .. Len(Tail(s)) /\ Tail(s)[i - 1] = s[i]
    BY <1>1, <2>2
  <2>4. QED BY <2>1, <2>3 DEF Boxed
<1>5. QED BY <1>2, <1>3, <1>4

LEMMA AppendBoxed ==
  ASSUME NEW S, NEW s \in Seq(S), NEW d \in S, NEW c, BoxedOnce(s, c),
         d = c => ~Boxed(s, c)
  PROVE  /\ BoxedOnce(Append(s, d), c)
         /\ Boxed(Append(s, d), c) <=> Boxed(s, c) \/ d = c
<1> DEFINE r == Append(s, d)
<1>1. /\ Len(s) \in Nat /\ Len(r) = Len(s) + 1 /\ r[Len(s) + 1] = d
      /\ \A i \in 1 .. Len(s) : r[i] = s[i]
  BY AppendProperties
<1> HIDE DEF r
<1>2. BoxedOnce(r, c)
  BY <1>1 DEF BoxedOnce, Boxed
<1>3. Boxed(r, c) <=> Boxed(s, c) \/ d = c
  BY <1>1 DEF Boxed
<1>4. QED BY <1>2, <1>3 DEF r

\* A message stays ahead of the requests of c until it is taken, and is not behind
\* one that is taken.
LEMMA TailAhead ==
  ASSUME NEW S, NEW q \in Seq(S), q # <<>>, NEW m, NEW c, Ahead(q, m, c)
  PROVE  /\ Head(q) # m => Ahead(Tail(q), m, c)
         /\ ~Asks(Head(q), c) \/ Head(q) = m
<1>1. /\ Len(q) \in Nat \ {0} /\ Len(Tail(q)) = Len(q) - 1 /\ Head(q) = q[1]
      /\ \A i \in 1 .. Len(q) - 1 : Tail(q)[i] = q[i + 1]
  BY HeadTailProperties, EmptySeq
<1>2. PICK i \in 1 .. Len(q) : q[i] = m /\ \A j \in 1 .. Len(q) : Asks(q[j], c) => i < j
  BY DEF Ahead
<1>3. ~Asks(Head(q), c)
  BY <1>1, <1>2
<1>4. ASSUME Head(q) # m PROVE Ahead(Tail(q), m, c)
  <2>1. i - 1 \in 1 .. Len(Tail(q)) /\ Tail(q)[i - 1] = m
    BY <1>1, <1>2, <1>4
  <2>2. ASSUME NEW j \in 1 .. Len(Tail(q)), Asks(Tail(q)[j], c) PROVE i - 1 < j
    <3>1. j + 1 \in 1 .. Len(q) /\ Asks(q[j + 1], c)
      BY <1>1, <2>2
    <3>2. i < j + 1
      BY <1>2, <3>1
    <3>3. QED BY <3>2, <1>1
  <2>3. QED BY <2>1, <2>2 DEF Ahead
<1>5. QED BY <1>3, <1>4

LEMMA AppendAhead ==
  ASSUME NEW S, NEW q \in Seq(S), NEW n \in S, NEW m, NEW c,
         Ahead(q, m, c) \/ (n = m /\ ~Asks(m, c) /\ ~Queued(q, c))
  PROVE  Ahead(Append(q, n), m, c)
<1> DEFINE r == Append(q, n)
<1>1. /\ Len(q) \in Nat /\ Len(r) = Len(q) + 1 /\ r[Len(q) + 1] = n
      /\ \A i \in 1 .. Len(q) : r[i] = q[i]
  BY AppendProperties
<1> HIDE DEF r
<1>2. CASE Ahead(q, m, c)
  <2>1. PICK i \in 1 .. Len(q) : q[i] = m /\ \A j \in 1 .. Len(q) : Asks(q[j], c) => i < j
    BY <1>2 DEF Ahead
  <2>2. i \in 1 .. Len(r) /\ r[i] = m
    BY <1>1, <2>1
  <2>3. \A j \in 1 .. Len(r) : Asks(r[j], c) => i < j
    BY <1>1, <2>1
  <2>4. QED BY <2>2, <2>3 DEF Ahead, r
<1>3. CASE n = m /\ ~Asks(m, c) /\ ~Queued(q, c)
  <2>1. Len(r) \in 1 .. Len(r) /\ r[Len(r)] = m
    BY <1>1, <1>3
  <2>2. \A j \in 1 .. Len(r) : ~Asks(r[j], c)
    BY <1>1, <1>3 DEF Queued
  <2>3. QED BY <2>1, <2>2 DEF Ahead, r
<1>4. QED BY <1>2, <1>3

-----------------------------------------------------------------------------
(* What the steps do to the state that callers share.                      *)

\* The actors that exist keep their peer, and what is over stays over.
Onward ==
  /\ nextGen <= nextGen'
  /\ \A h \in Gens : actor'[h].id = actor[h].id /\ (Over(actor[h]) => Over(actor'[h]))

\* A slot that changes gets no generation that existed before.
SlotsOnward == \A p \in Peers : connections'[p] # connections[p] => connections'[p] \notin Gens

\* What a step does to the pool's queue: nothing, a send, the receipt of the first
\* message (a Shutdown message takes its slot away), or the end of the pool.
QueueStep ==
  \/ queue' = queue
  \/ \E m \in Msg : /\ queue' = Append(queue, m)
                    /\ m.type = "Shutdown" => m.generation \in Gens /\ Over(actor'[m.generation])
  \/ /\ queue # <<>> /\ queue' = Tail(queue)
     /\ Head(queue).type = "Shutdown" => connections'[Head(queue).id] # Head(queue).generation
  \/ queue' = <<>> /\ \A p \in Peers : connections'[p] = 0

\* A message that was ahead of the requests of c is ahead of them or has done its work.
KeepsAway(c) ==
  \A g \in Gens : Ahead(queue, ShutdownMsg(actor[g].id, g), c) =>
    \/ Ahead(queue', ShutdownMsg(actor[g].id, g), c)
    \/ connections'[actor[g].id] # g

\* The first of these of every step.
Frame == Onward /\ SlotsOnward /\ QueueStep /\ ClosedOK' /\ SlotIds'

LEMMA GenFacts ==
  ASSUME IInv
  PROVE  /\ nextGen \in Nat \ {0} /\ Gens = 1 .. (nextGen - 1)
         /\ \A g \in Gens : g \in Nat /\ g # 0 /\ actor[g] \in Actor /\ actor[g].id \in Peers
BY DEF IInv, PoolTypes, ActorsOK, Actor, Gens

LEMMA OnwardGens ==
  ASSUME IInv, IInv', Onward
  PROVE  Gens \subseteq Gens'
<1>1. nextGen \in Nat /\ nextGen' \in Nat /\ nextGen <= nextGen'
  BY DEF IInv, PoolTypes, Onward
<1>2. \A m, n \in Nat : m <= n => \A g \in 1 .. (m - 1) : g \in 1 .. (n - 1)
  OBVIOUS
<1>3. Gens = 1 .. (nextGen - 1) /\ Gens' = 1 .. (nextGen' - 1)
  BY DEF Gens
<1>4. QED BY <1>1, <1>2, <1>3

LEMMA ShutdownIsMsg ==
  ASSUME NEW p, NEW g
  PROVE  /\ ShutdownMsg(p, g).type = "Shutdown" /\ ShutdownMsg(p, g).id = p
         /\ ShutdownMsg(p, g).generation = g /\ \A c : ~Asks(ShutdownMsg(p, g), c)
BY DEF ShutdownMsg, Asks

\* Every step keeps the Shutdown messages in front and true.
LEMMA FrameQueue ==
  ASSUME IInv, IInv', RInv, Frame
  PROVE  ShutdownsTrue' /\ \A c \in Callers : KeepsAway(c)
<1>1. queue \in Seq(Msg)
  BY DEF IInv, PoolTypes
<1>2. Gens \subseteq Gens' /\ \A h \in Gens : Over(actor[h]) => Over(actor'[h])
  BY OnwardGens DEF Frame, Onward
<1>3. CASE queue' = queue
  BY <1>2, <1>3 DEF RInv, ShutdownsTrue, KeepsAway
<1>4. ASSUME NEW m \in Msg, queue' = Append(queue, m),
             m.type = "Shutdown" => m.generation \in Gens /\ Over(actor'[m.generation])
      PROVE  ShutdownsTrue' /\ \A c \in Callers : KeepsAway(c)
  <2>1. /\ Len(queue) \in Nat /\ Len(queue') = Len(queue) + 1 /\ queue'[Len(queue) + 1] = m
        /\ \A i \in 1 .. Len(queue) : queue'[i] = queue[i]
    BY <1>1, <1>4, AppendProperties
  <2>2. ASSUME NEW i \in 1 .. Len(queue'), queue'[i].type = "Shutdown"
        PROVE  queue'[i].generation \in Gens /\ Over(actor'[queue'[i].generation])
    <3>1. CASE i \in 1 .. Len(queue)
      BY <1>2, <2>1, <2>2, <3>1 DEF RInv, ShutdownsTrue
    <3>2. CASE i = Len(queue) + 1
      BY <1>4, <2>1, <2>2, <3>2
    <3>3. QED BY <2>1, <3>1, <3>2
  <2>3. ShutdownsTrue'
    BY <1>2, <2>2 DEF ShutdownsTrue
  <2>4. \A c \in Callers : KeepsAway(c)
    BY <1>1, <1>4, AppendAhead DEF KeepsAway
  <2>5. QED BY <2>3, <2>4
<1>5. CASE /\ queue # <<>> /\ queue' = Tail(queue)
           /\ Head(queue).type = "Shutdown" => connections'[Head(queue).id] # Head(queue).generation
  <2>1. /\ Len(queue) \in Nat \ {0} /\ Len(queue') = Len(queue) - 1
        /\ \A i \in 1 .. Len(queue') : queue'[i] = queue[i + 1]
    BY <1>1, <1>5, HeadTailProperties, EmptySeq
  <2>2. ASSUME NEW i \in 1 .. Len(queue'), queue'[i].type = "Shutdown"
        PROVE  queue'[i].generation \in Gens /\ Over(actor'[queue'[i].generation])
    <3>1. i + 1 \in 1 .. Len(queue) /\ queue'[i] = queue[i + 1]
      BY <2>1
    <3>2. QED BY <1>2, <2>2, <3>1 DEF RInv, ShutdownsTrue
  <2>3. ShutdownsTrue'
    BY <1>2, <2>2 DEF ShutdownsTrue
  <2>4. ASSUME NEW c \in Callers, NEW g \in Gens, Ahead(queue, ShutdownMsg(actor[g].id, g), c)
        PROVE  Ahead(queue', ShutdownMsg(actor[g].id, g), c) \/ connections'[actor[g].id] # g
    <3>1. CASE Head(queue) = ShutdownMsg(actor[g].id, g)
      BY <1>5, <3>1, ShutdownIsMsg
    <3>2. CASE Head(queue) # ShutdownMsg(actor[g].id, g)
      BY <1>1, <1>5, <2>4, <3>2, TailAhead
    <3>3. QED BY <3>1, <3>2
  <2>5. QED BY <2>3, <2>4 DEF KeepsAway
<1>6. CASE queue' = <<>> /\ \A p \in Peers : connections'[p] = 0
  <2>1. ShutdownsTrue'
    BY <1>6 DEF ShutdownsTrue
  <2>2. \A g \in Gens : actor[g].id \in Peers /\ g # 0
    BY GenFacts
  <2>3. \A c \in Callers : KeepsAway(c)
    BY <1>6, <2>2 DEF KeepsAway
  <2>4. QED BY <2>1, <2>3
<1>7. QED BY <1>3, <1>4, <1>5, <1>6 DEF Frame, QueueStep

\* What an operation gave up on it keeps avoiding, if no request of it arrives there.
LEMMA AvoidsKept ==
  ASSUME IInv, IInv', RInv, Frame, NEW c \in Callers, NEW g, Avoids(c, g),
         ~Boxed(actor'[g].mailbox, c)
  PROVE  Avoids(c, g)'
<1>1. g \in Gens /\ g \in Gens' /\ actor'[g].id = actor[g].id /\ actor[g].id \in Peers
  BY OnwardGens, GenFacts DEF Avoids, Frame, Onward
<1>2. CASE connections[actor[g].id] # g
  <2>1. connections'[actor[g].id] # g
    BY <1>1, <1>2 DEF Frame, SlotsOnward
  <2>2. QED BY <1>1, <2>1 DEF Avoids
<1>3. CASE Ahead(queue, ShutdownMsg(actor[g].id, g), c)
  BY <1>1, <1>3, FrameQueue DEF KeepsAway, Avoids
<1>4. QED BY <1>2, <1>3 DEF Avoids

-----------------------------------------------------------------------------
(* What the steps do to one caller.                                        *)

\* The step does not touch the requests of c in the queue.
QueueQuiet(c) ==
  /\ QueuedOnce(queue', c) /\ (Queued(queue', c) <=> Queued(queue, c))
  /\ \A i \in 1 .. Len(queue') : Asks(queue'[i], c) => \E j \in 1 .. Len(queue) : queue[j] = queue'[i]

\* The step does not touch the requests of c that actors have.
BoxesQuiet(c) ==
  /\ \A h \in Gens : /\ BoxedOnce(actor'[h].mailbox, c)
                     /\ Boxed(actor'[h].mailbox, c) <=> Boxed(actor[h].mailbox, c)
                     /\ c \in actor'[h].req <=> c \in actor[h].req
                     /\ c \in actor[h].req => actor'[h].pc = actor[h].pc
  /\ \A h \in Gens' \ Gens : ~Boxed(actor'[h].mailbox, c) /\ c \notin actor'[h].req

\* After the step no request of c is anywhere.
Nowhere(c) == ~Queued(queue', c) /\ \A h \in Gens' : ~Boxed(actor'[h].mailbox, c) /\ c \notin actor'[h].req

LEMMA QueueSameQuiet ==
  ASSUME queue' = queue, NEW c, QueuedOnce(queue, c)
  PROVE  QueueQuiet(c)
BY DEF QueueQuiet

LEMMA QueueSendQuiet ==
  ASSUME queue \in Seq(Msg), NEW m \in Msg, queue' = Append(queue, m),
         NEW c, QueuedOnce(queue, c), ~Asks(m, c)
  PROVE  QueueQuiet(c)
<1>1. QueuedOnce(queue', c) /\ (Queued(queue', c) <=> Queued(queue, c))
  BY AppendQueued
<1>2. /\ Len(queue) \in Nat /\ Len(queue') = Len(queue) + 1 /\ queue'[Len(queue) + 1] = m
      /\ \A i \in 1 .. Len(queue) : queue'[i] = queue[i]
  BY AppendProperties
<1>3. ASSUME NEW i \in 1 .. Len(queue'), Asks(queue'[i], c)
      PROVE  \E j \in 1 .. Len(queue) : queue[j] = queue'[i]
  <2>1. i # Len(queue) + 1
    BY <1>2, <1>3
  <2>2. i \in 1 .. Len(queue)
    BY <1>2, <2>1
  <2>3. QED BY <1>2, <2>2
<1>4. QED BY <1>1, <1>3 DEF QueueQuiet

LEMMA QueueTakeQuiet ==
  ASSUME queue \in Seq(Msg), queue # <<>>, queue' = Tail(queue),
         NEW c, QueuedOnce(queue, c), ~Asks(Head(queue), c)
  PROVE  QueueQuiet(c)
<1>1. QueuedOnce(queue', c) /\ (Queued(queue', c) <=> Queued(queue, c))
  BY TailQueued
<1>2. /\ Len(queue) \in Nat \ {0} /\ Len(queue') = Len(queue) - 1
      /\ \A i \in 1 .. Len(queue') : queue'[i] = queue[i + 1]
  BY HeadTailProperties, EmptySeq
<1>3. ASSUME NEW i \in 1 .. Len(queue')
      PROVE  \E j \in 1 .. Len(queue) : queue[j] = queue'[i]
  <2>1. i + 1 \in 1 .. Len(queue)
    BY <1>2
  <2>2. QED BY <1>2, <2>1
<1>4. QED BY <1>1, <1>3 DEF QueueQuiet

\* A caller that the step does not touch: nothing changes for it.
LEMMA Bystander ==
  ASSUME IInv, IInv', RInv, Frame, NEW c \in Callers, caller'[c] = caller[c],
         QueueQuiet(c), BoxesQuiet(c)
  PROVE  CallerInv(c)'
<1> SUFFICES ASSUME caller[c].pc # "gone" PROVE CallerInv(c)'
  BY DEF CallerInv
<1>1. /\ OnePlace(c) /\ (caller[c].pc = "waiting" <=> Somewhere(c)) /\ RightPeer(c)
      /\ caller[c].pc = "invalidating" => Over(actor[caller[c].gen])
      /\ \A g \in caller[c].burned : Avoids(c, g)
  BY DEF RInv, CallerInv, Placed
<1>2. Gens \subseteq Gens' /\ \A h \in Gens : actor'[h].id = actor[h].id /\ (Over(actor[h]) => Over(actor'[h]))
  BY OnwardGens DEF Frame, Onward
<1>3. /\ \A h \in Gens : Has(h, c)' <=> Has(h, c)
      /\ \A h \in Gens' : Has(h, c)' => h \in Gens
  BY DEF Has, BoxesQuiet
<1>4. Somewhere(c)' <=> Somewhere(c)
  BY <1>2, <1>3 DEF Somewhere, QueueQuiet
<1>5. OnePlace(c)'
  <2>1. ASSUME NEW g \in Gens'
        PROVE  /\ BoxedOnce(actor'[g].mailbox, c)
               /\ c \in actor'[g].req => actor'[g].pc = "refuse"
               /\ Has(g, c)' => ~Queued(queue', c)
               /\ ~(Boxed(actor'[g].mailbox, c) /\ c \in actor'[g].req)
    <3>1. CASE g \in Gens
      BY <1>1, <1>3, <3>1 DEF OnePlace, BoxesQuiet, QueueQuiet
    <3>2. CASE g \notin Gens
      <4>1. ~Boxed(actor'[g].mailbox, c) /\ c \notin actor'[g].req
        BY <3>2 DEF BoxesQuiet
      <4>2. QED BY <4>1 DEF BoxedOnce, Boxed, Has
    <3>3. QED BY <3>1, <3>2
  <2>2. \A g, h \in Gens' : Has(g, c)' /\ Has(h, c)' => g = h
    BY <1>1, <1>3 DEF OnePlace
  <2>3. QED BY <2>1, <2>2 DEF OnePlace, QueueQuiet
<1>6. RightPeer(c)'
  <2>1. caller[c].gen # 0 => caller[c].gen \in Gens
    BY GenFacts DEF IInv, CallersOK, Caller
  <2>2. caller'[c].gen # 0 => actor'[caller'[c].gen].id \in caller'[c].peer
    BY <1>1, <1>2, <2>1 DEF RightPeer
  <2>3. \A g \in Gens' : Boxed(actor'[g].mailbox, c) => actor'[g].id \in caller'[c].peer
    BY <1>1, <1>2 DEF RightPeer, BoxesQuiet
  <2>4. \A i \in 1 .. Len(queue') : Asks(queue'[i], c) => queue'[i].id \in caller'[c].peer
    <3> TAKE i \in 1 .. Len(queue')
    <3> HAVE Asks(queue'[i], c)
    <3>1. PICK j \in 1 .. Len(queue) : queue[j] = queue'[i]
      BY DEF QueueQuiet
    <3>2. QED BY <1>1, <3>1 DEF RightPeer
  <2>5. QED BY <1>1, <2>2, <2>3, <2>4 DEF RightPeer
<1>7. caller'[c].pc = "invalidating" => Over(actor'[caller'[c].gen])
  <2>1. caller[c].pc = "invalidating" => caller[c].gen # 0 /\ caller[c].gen \in Gens
    BY GenFacts DEF IInv, CallersOK, OwnsLease, Caller
  <2>2. QED BY <1>1, <1>2, <2>1
<1>8. \A g \in caller'[c].burned : Avoids(c, g)'
  <2> TAKE g \in caller'[c].burned
  <2>1. Avoids(c, g)
    BY <1>1
  <2>2. ~Boxed(actor'[g].mailbox, c)
    BY <2>1 DEF BoxesQuiet, Avoids
  <2>3. QED BY <2>1, <2>2, AvoidsKept
<1>9. QED BY <1>1, <1>4, <1>5, <1>6, <1>7, <1>8 DEF CallerInv, Placed

\* A caller that has no request anywhere after the step, and does not wait for one.
LEMMA NowhereOK ==
  ASSUME NEW c \in Callers, Nowhere(c), caller'[c].pc # "waiting",
         caller'[c].pc # "ready" => \E p \in Peers : caller'[c].peer = {p},
         caller'[c].gen # 0 => actor'[caller'[c].gen].id \in caller'[c].peer,
         caller'[c].pc = "invalidating" => Over(actor'[caller'[c].gen]),
         \A g \in caller'[c].burned : Avoids(c, g)'
  PROVE  CallerInv(c)'
<1>1. QueuedOnce(queue', c) /\ \A i \in 1 .. Len(queue') : ~Asks(queue'[i], c)
  BY DEF Nowhere, Queued, QueuedOnce
<1>2. \A g \in Gens' : /\ ~Boxed(actor'[g].mailbox, c) /\ c \notin actor'[g].req
                       /\ BoxedOnce(actor'[g].mailbox, c) /\ ~Has(g, c)'
  BY DEF Nowhere, BoxedOnce, Boxed, Has
<1>3. OnePlace(c)'
  BY <1>1, <1>2 DEF OnePlace
<1>4. ~Somewhere(c)'
  BY <1>2 DEF Somewhere, Nowhere
<1>5. RightPeer(c)'
  BY <1>1, <1>2 DEF RightPeer
<1>6. QED BY <1>3, <1>4, <1>5 DEF CallerInv, Placed

-----------------------------------------------------------------------------
(* Steps that move no request.                                             *)

\* The invariant after a step, caller by caller.
LEMMA FrameRInv ==
  ASSUME IInv, IInv', RInv, Frame, \A c \in Callers : CallerInv(c)'
  PROVE  RInv'
BY FrameQueue DEF RInv, Frame

\* Slots that are kept or emptied.
LEMMA SlotsKept ==
  ASSUME IInv, RInv, Onward, \A p \in Peers : connections'[p] = connections[p] \/ connections'[p] = 0
  PROVE  SlotsOnward /\ SlotIds'
<1>1. \A p \in Peers : connections[p] # 0 => connections[p] \in Gens
  BY GenFacts DEF IInv, SlotsOK, PoolTypes
<1>2. 0 \notin Gens
  BY GenFacts
<1>3. SlotsOnward
  BY <1>2 DEF SlotsOnward
<1>4. SlotIds'
  BY <1>1 DEF RInv, SlotIds, Onward
<1>5. QED BY <1>3, <1>4

\* One actor changes.
LEMMA OneActor ==
  ASSUME IInv, NEW g \in Gens, NEW b, Become(g, b), nextGen' = nextGen
  PROVE  Gens' = Gens /\ actor'[g] = b /\ \A h \in Gens \ {g} : actor'[h] = actor[h]
BY DEF IInv, ActorsOK, Become, Gens

LEMMA OneActorOnward ==
  ASSUME IInv, NEW g \in Gens, NEW b, Become(g, b), nextGen' = nextGen,
         b.id = actor[g].id, Over(actor[g]) => Over(b)
  PROVE  Onward
<1>1. nextGen \in Nat
  BY GenFacts
<1>2. nextGen <= nextGen'
  BY <1>1
<1>3. QED BY <1>2, OneActor DEF Onward

LEMMA OneActorQuiet ==
  ASSUME IInv, NEW g \in Gens, NEW b, Become(g, b), nextGen' = nextGen,
         b.mailbox = actor[g].mailbox, NEW c, OnePlace(c),
         c \in b.req <=> c \in actor[g].req,
         c \in actor[g].req => b.pc = actor[g].pc \/ actor[g].pc # "refuse"
  PROVE  BoxesQuiet(c)
<1>1. \A h \in Gens : BoxedOnce(actor[h].mailbox, c) /\ (c \in actor[h].req => actor[h].pc = "refuse")
  BY DEF OnePlace
<1>2. QED BY <1>1, OneActor DEF BoxesQuiet

LEMMA ActorsSameQuiet ==
  ASSUME IInv, UNCHANGED <<actor, nextGen>>
  PROVE  Onward /\ \A c : OnePlace(c) => BoxesQuiet(c)
<1>1. nextGen \in Nat /\ Gens' = Gens
  BY GenFacts DEF Gens
<1>2. QED BY <1>1 DEF Onward, OnePlace, BoxesQuiet

\* A step in which no request moves and no caller takes part.
LEMMA QuietStep ==
  ASSUME IInv, IInv', RInv, Frame, \A c \in Callers : caller'[c] = caller[c],
         \A c \in Callers : OnePlace(c) => QueueQuiet(c) /\ BoxesQuiet(c)
  PROVE  RInv'
<1>1. ASSUME NEW c \in Callers PROVE CallerInv(c)'
  <2>1. CASE caller[c].pc = "gone"
    BY <2>1 DEF CallerInv
  <2>2. CASE caller[c].pc # "gone"
    <3>1. OnePlace(c)
      BY <2>2 DEF RInv, CallerInv, Placed
    <3>2. QED BY <3>1, Bystander
  <2>3. QED BY <2>1, <2>2
<1>2. QED BY <1>1, FrameRInv

\* A send to the pool that is no request: ClosedOK is about other variables.
Told(g, b) ==
  \/ queue' = queue
  \/ \E m \in Msg : /\ queue' = Append(queue, m) /\ m.type # "Request"
                    /\ m.type = "Shutdown" => m.generation = g /\ Over(b)

\* A step of one actor that moves no request.
LEMMA ActorQuiet ==
  ASSUME IInv, IInv', RInv, NEW g \in Gens, NEW b, Become(g, b), Told(g, b),
         UNCHANGED <<closed, pool, connections, nextGen, caller>>,
         b.id = actor[g].id, b.mailbox = actor[g].mailbox, b.req = actor[g].req,
         b.pc = actor[g].pc \/ actor[g].pc # "refuse", Over(actor[g]) => Over(b)
  PROVE  RInv'
<1>1. Onward
  BY OneActorOnward
<1>2. SlotsOnward /\ SlotIds'
  BY <1>1, SlotsKept
<1>3. ClosedOK'
  BY DEF RInv, ClosedOK, Busy
<1>4. QueueStep
  BY OneActor DEF Told, QueueStep
<1>5. queue \in Seq(Msg)
  BY DEF IInv, PoolTypes
<1>6. ASSUME NEW c \in Callers, OnePlace(c) PROVE QueueQuiet(c) /\ BoxesQuiet(c)
  <2>1. BoxesQuiet(c)
    BY <1>6, OneActorQuiet
  <2>2. QueuedOnce(queue, c)
    BY <1>6 DEF OnePlace
  <2>3. CASE queue' = queue
    BY <2>1, <2>2, <2>3, QueueSameQuiet
  <2>4. ASSUME NEW m \in Msg, queue' = Append(queue, m), m.type # "Request"
        PROVE  QueueQuiet(c)
    <3>1. ~Asks(m, c)
      BY <2>4 DEF Asks
    <3>2. QED BY <1>5, <2>2, <2>4, <3>1, QueueSendQuiet
  <2>5. QED BY <2>1, <2>3, <2>4 DEF Told
<1>7. QED BY <1>1, <1>2, <1>3, <1>4, <1>6, QuietStep DEF Frame

\* PoolSend is a send or nothing.
LEMMA PoolSendTold ==
  ASSUME NEW g, NEW b, NEW m \in Msg, PoolSend(m), m.type # "Request",
         m.type = "Shutdown" => m.generation = g /\ Over(b)
  PROVE  Told(g, b)
BY DEF PoolSend, Told

-----------------------------------------------------------------------------
(* Steps of a connection actor.                                            *)

\* The steps of run_connection that neither take nor answer a request.
LEMMA ActorMovesQuiet ==
  ASSUME IInv, IInv', RInv, NEW g \in Gens,
         \/ Connected(g) \/ ConnectFailed(g) \/ SeeShutdown(g) \/ SeeClosed(g)
         \/ Notified(g) \/ IdleExpired(g) \/ Lose(g)
  PROVE  RInv'
<1> DEFINE a == actor[g]
<1>1. a \in Actor
  BY DEF IInv, ActorsOK
<1>2. ASSUME NEW b, Become(g, b), UNCHANGED <<closed, pool, queue, connections, nextGen, caller>>,
             b.id = a.id, b.mailbox = a.mailbox, b.req = a.req,
             b.pc = a.pc \/ a.pc # "refuse", Over(a) => Over(b)
      PROVE  RInv'
  BY <1>2, ActorQuiet DEF Told
<1>3. CASE Connected(g)
  <2> DEFINE b == [a EXCEPT !.pc = "loop", !.conn = "open", !.pending = closed]
  <2>1. a.pc = "connecting" /\ Become(g, b) /\ OnlyActor
    BY <1>3 DEF Connected, At
  <2>2. b.id = a.id /\ b.mailbox = a.mailbox /\ b.req = a.req
    BY <1>1 DEF Actor
  <2>3. ~Over(a)
    BY <2>1 DEF Over
  <2>4. QED
    <3> HIDE DEF b
    <3>1. QED BY <1>2, <2>1, <2>2, <2>3 DEF OnlyActor
<1>4. CASE ConnectFailed(g)
  <2> DEFINE b == [a EXCEPT !.pc = "reportFailure"]
  <2>1. a.pc = "connecting" /\ Become(g, b) /\ OnlyActor
    BY <1>4 DEF ConnectFailed, At
  <2>2. b.id = a.id /\ b.mailbox = a.mailbox /\ b.req = a.req
    BY <1>1 DEF Actor
  <2>3. ~Over(a)
    BY <2>1 DEF Over
  <2>4. QED
    <3> HIDE DEF b
    <3>1. QED BY <1>2, <2>1, <2>2, <2>3 DEF OnlyActor
<1>5. CASE SeeShutdown(g)
  <2> DEFINE b == [a EXCEPT !.wake = FALSE, !.pending = TRUE,
                            !.pc = IF a.count = 0 THEN "exit" ELSE "loop"]
  <2>1. a.pc = "loop" /\ Become(g, b) /\ OnlyActor
    BY <1>5 DEF SeeShutdown, At
  <2>2. b.id = a.id /\ b.mailbox = a.mailbox /\ b.req = a.req /\ b.conn = a.conn
          /\ b.pc \in {"exit", "loop"}
    BY <1>1 DEF Actor
  <2>3. Over(a) => Over(b)
    BY <2>1, <2>2 DEF Over
  <2>4. QED
    <3> HIDE DEF b
    <3>1. QED BY <1>2, <2>1, <2>2, <2>3 DEF OnlyActor
<1>6. CASE SeeClosed(g)
  <2> DEFINE b == [a EXCEPT !.pc = "reportClosed"]
  <2>1. a.pc = "loop" /\ a.conn = "lost" /\ Become(g, b) /\ OnlyActor
    BY <1>6 DEF SeeClosed, At
  <2>2. b.id = a.id /\ b.mailbox = a.mailbox /\ b.req = a.req /\ b.conn = a.conn
          /\ b.pc = "reportClosed"
    BY <1>1 DEF Actor
  <2>3. Over(a) => Over(b)
    BY <2>1, <2>2 DEF Over
  <2>4. QED
    <3> HIDE DEF b
    <3>1. QED BY <1>2, <2>1, <2>2, <2>3 DEF OnlyActor
<1>7. CASE Notified(g)
  <2> DEFINE x == CASE a.count # 0 -> "loop"
                    [] a.count = 0 /\ a.pending -> "exit"
                    [] OTHER -> "reportIdle"
             b == [a EXCEPT !.permit = FALSE, !.pc = x]
  <2>1. a.pc = "loop" /\ a.conn = "open" /\ Become(g, b) /\ OnlyActor
    BY <1>7 DEF Notified, At
  <2>2. b.id = a.id /\ b.mailbox = a.mailbox /\ b.req = a.req
    BY <1>1 DEF Actor
  <2>3. ~Over(a)
    BY <2>1 DEF Over
  <2>4. QED
    <3> HIDE DEF b
    <3>1. QED BY <1>2, <2>1, <2>2, <2>3 DEF OnlyActor
<1>8. CASE IdleExpired(g)
  <2> DEFINE b == [a EXCEPT !.pc = "reportExpired"]
  <2>1. a.pc = "loop" /\ a.conn = "open" /\ Become(g, b) /\ OnlyActor
    BY <1>8 DEF IdleExpired, At
  <2>2. b.id = a.id /\ b.mailbox = a.mailbox /\ b.req = a.req
    BY <1>1 DEF Actor
  <2>3. ~Over(a)
    BY <2>1 DEF Over
  <2>4. QED
    <3> HIDE DEF b
    <3>1. QED BY <1>2, <2>1, <2>2, <2>3 DEF OnlyActor
<1>9. CASE Lose(g)
  <2> DEFINE b == [a EXCEPT !.conn = "lost"]
  <2>1. Become(g, b) /\ UNCHANGED <<closed, pool, queue, connections, nextGen, caller>>
    BY <1>9 DEF Lose
  <2>2. b.id = a.id /\ b.mailbox = a.mailbox /\ b.req = a.req /\ b.pc = a.pc /\ b.conn = "lost"
    BY <1>1 DEF Actor
  <2>3. Over(a) => Over(b)
    BY <2>2 DEF Over
  <2>4. QED
    <3> HIDE DEF b
    <3>1. QED BY <1>2, <2>1, <2>2, <2>3
<1>10. QED BY <1>3, <1>4, <1>5, <1>6, <1>7, <1>8, <1>9

\* The sends that answer no request.
LEMMA ActorReportsQuiet ==
  ASSUME IInv, IInv', RInv, NEW g \in Gens, ReportFailure(g) \/ ReportIdle(g) \/ ReportDone(g)
  PROVE  RInv'
<1> DEFINE a == actor[g]
<1>1. a \in Actor /\ Unleased(a)
  BY DEF IInv, ActorsOK
<1>2. /\ ShutdownMsg(a.id, g) \in Msg /\ IdleMsg(a.id, g) \in Msg
      /\ IdleMsg(a.id, g).type = "Idle"
      /\ ShutdownMsg(a.id, g).type = "Shutdown" /\ ShutdownMsg(a.id, g).generation = g
  BY ActorMsgs DEF IdleMsg, ShutdownMsg
<1>3. CASE ReportFailure(g)
  <2> DEFINE b == [a EXCEPT !.pc = "loop", !.pending = closed]
  <2>1. a.pc = "reportFailure" /\ Become(g, b) /\ PoolSend(ShutdownMsg(a.id, g))
          /\ UNCHANGED <<closed, pool, connections, idle, nextGen, caller, losses>>
    BY <1>3 DEF ReportFailure, At
  <2>2. b.id = a.id /\ b.mailbox = a.mailbox /\ b.req = a.req /\ b.conn = a.conn /\ b.pc = "loop"
    BY <1>1 DEF Actor
  <2>3. Over(b)
    BY <1>1, <2>1, <2>2 DEF Over, Unleased
  <2>4. QED
    <3> HIDE DEF b
    <3>1. Told(g, b)
      BY <1>2, <2>1, <2>3, PoolSendTold
    <3>2. QED BY <2>1, <2>2, <2>3, <3>1, ActorQuiet
<1>4. CASE ReportIdle(g)
  <2> DEFINE b == [a EXCEPT !.pc = "loop", !.idleActive = TRUE]
  <2>1. a.pc = "reportIdle" /\ Become(g, b) /\ PoolSend(IdleMsg(a.id, g))
          /\ UNCHANGED <<closed, pool, connections, idle, nextGen, caller, losses>>
    BY <1>4 DEF ReportIdle, At
  <2>2. b.id = a.id /\ b.mailbox = a.mailbox /\ b.req = a.req /\ b.conn = a.conn /\ b.pc = "loop"
    BY <1>1 DEF Actor
  <2>3. Over(a) => Over(b)
    BY <2>1, <2>2 DEF Over
  <2>4. QED
    <3> HIDE DEF b
    <3>1. Told(g, b)
      BY <1>2, <2>1, PoolSendTold
    <3>2. QED BY <2>1, <2>2, <2>3, <3>1, ActorQuiet
<1>5. CASE ReportDone(g)
  <2> DEFINE b == [a EXCEPT !.pc = "exit"]
  <2>1. a.pc \in {"reportClosed", "reportExpired"} /\ Become(g, b)
          /\ PoolSend(ShutdownMsg(a.id, g))
          /\ UNCHANGED <<closed, pool, connections, idle, nextGen, caller, losses>>
    BY <1>5 DEF ReportDone, At
  <2>2. b.id = a.id /\ b.mailbox = a.mailbox /\ b.req = a.req /\ b.pc = "exit"
    BY <1>1 DEF Actor
  <2>3. Over(b)
    BY <2>2 DEF Over
  <2>4. QED
    <3> HIDE DEF b
    <3>1. Told(g, b)
      BY <1>2, <2>1, <2>3, PoolSendTold
    <3>2. QED BY <2>1, <2>2, <2>3, <3>1, ActorQuiet
<1>6. QED BY <1>3, <1>4, <1>5

\* A failure reaches a waiting caller: it returns, or it tries again and avoids the
\* generation that answered Closed.
LEMMA FailedCases ==
  ASSUME NEW k \in Caller, k.pc = "waiting", NEW e, NEW g
  PROVE  \/ Failed(k, e, g) = Returned
         \/ /\ e = "Closed" /\ Failed(k, e, g).pc = "sending"
            /\ Failed(k, e, g).peer = k.peer /\ Failed(k, e, g).gen = k.gen
            /\ Failed(k, e, g).burned = k.burned \cup {g}
<1>1. CASE e = "Closed" /\ k.attempt + 1 < Retries
  <2>1. Failed(k, e, g) = [k EXCEPT !.pc = "sending", !.attempt = k.attempt + 1,
                                    !.burned = k.burned \cup {g}]
    BY <1>1 DEF Failed
  <2>2. QED BY <1>1, <2>1 DEF Caller
<1>2. CASE ~(e = "Closed" /\ k.attempt + 1 < Retries)
  BY <1>2 DEF Failed
<1>3. QED BY <1>1, <1>2

LEMMA FailedCaller ==
  ASSUME IInv, IInv', RInv, Frame, NEW c \in Callers, caller[c].pc = "waiting", Nowhere(c),
         NEW e, NEW g, caller'[c] = Failed(caller[c], e, g), e = "Closed" => Avoids(c, g)'
  PROVE  CallerInv(c)'
<1>1. caller[c] \in Caller /\ OwnsLease(caller[c])
  BY DEF IInv, CallersOK
<1>2. CASE caller'[c] = Returned
  <2>1. Returned.pc = "ready" /\ Returned.gen = 0 /\ Returned.burned = {}
    BY DEF Returned
  <2>2. QED BY <1>2, <2>1, NowhereOK
<1>3. CASE /\ e = "Closed" /\ caller'[c].pc = "sending"
           /\ caller'[c].peer = caller[c].peer /\ caller'[c].gen = caller[c].gen
           /\ caller'[c].burned = caller[c].burned \cup {g}
  <2>1. caller[c].gen = 0
    BY <1>1 DEF OwnsLease
  <2>2. \E p \in Peers : caller[c].peer = {p}
    BY DEF RInv, CallerInv, RightPeer
  <2>3. ASSUME NEW h \in caller[c].burned PROVE Avoids(c, h)'
    <3>1. Avoids(c, h)
      BY DEF RInv, CallerInv
    <3>2. ~Boxed(actor'[h].mailbox, c)
      BY <3>1, OnwardGens DEF Avoids, Nowhere, Frame
    <3>3. QED BY <3>1, <3>2, AvoidsKept
  <2>4. QED BY <1>3, <2>1, <2>2, <2>3, NowhereOK
<1>4. QED BY <1>1, <1>2, <1>3, FailedCases

\* Any other failure ends the operation.
LEMMA EndedCaller ==
  ASSUME IInv, IInv', RInv, Frame, NEW c \in Callers, caller[c].pc = "waiting", Nowhere(c),
         \E e, n : caller'[c] = Failed(caller[c], e, n) /\ e # "Closed"
  PROVE  CallerInv(c)'
<1>1. PICK e, n : caller'[c] = Failed(caller[c], e, n) /\ e # "Closed"
  OBVIOUS
<1>2. QED BY <1>1, FailedCaller

\* A caller that is not gone and whose request is somewhere waits for the answer.
LEMMA HereWaits ==
  ASSUME RInv, NEW c \in Callers, caller[c].pc # "gone"
  PROVE  /\ OnePlace(c)
         /\ Queued(queue, c) => caller[c].pc = "waiting"
         /\ \A g \in Gens : Boxed(actor[g].mailbox, c) \/ c \in actor[g].req => caller[c].pc = "waiting"
BY DEF RInv, CallerInv, Placed, Somewhere, Has

\* An actor takes the first request of its mailbox: the requests of the others stay.
LEMMA TakeQuiet ==
  ASSUME IInv, NEW g \in Gens, NEW b, Become(g, b), nextGen' = nextGen,
         actor[g].mailbox # <<>>, b.mailbox = Tail(actor[g].mailbox),
         NEW c, OnePlace(c), Head(actor[g].mailbox) # c, c \in b.req <=> c \in actor[g].req,
         b.pc = actor[g].pc \/ actor[g].pc # "refuse"
  PROVE  BoxesQuiet(c)
<1>1. \A h \in Gens : BoxedOnce(actor[h].mailbox, c) /\ (c \in actor[h].req => actor[h].pc = "refuse")
  BY DEF OnePlace
<1>2. actor[g].mailbox \in Seq(Callers)
  BY DEF IInv, ActorsOK, Actor
<1>3. BoxedOnce(b.mailbox, c) /\ (Boxed(b.mailbox, c) <=> Boxed(actor[g].mailbox, c))
  BY <1>1, <1>2, TailBoxed
<1>4. QED BY <1>1, <1>3, OneActor DEF BoxesQuiet

\* ... and the one taken is nowhere else.
LEMMA TakeUnique ==
  ASSUME IInv, NEW g \in Gens, actor[g].mailbox # <<>>, OnePlace(Head(actor[g].mailbox))
  PROVE  LET c == Head(actor[g].mailbox)
         IN  /\ Boxed(actor[g].mailbox, c) /\ ~Boxed(Tail(actor[g].mailbox), c)
             /\ c \notin actor[g].req /\ ~Queued(queue, c)
             /\ \A h \in Gens \ {g} : ~Boxed(actor[h].mailbox, c) /\ c \notin actor[h].req
<1> DEFINE s == actor[g].mailbox
           c == Head(s)
<1>1. s \in Seq(Callers)
  BY DEF IInv, ActorsOK, Actor
<1>2. Len(s) \in Nat \ {0} /\ c = s[1]
  BY <1>1, EmptySeq
<1>3. Boxed(s, c)
  BY <1>2 DEF Boxed
<1>4. ~Boxed(Tail(s), c)
  BY <1>1, TailBoxed DEF OnePlace
<1>5. Has(g, c)
  BY <1>3 DEF Has
<1> HIDE DEF c
<1>6. c \notin actor[g].req /\ ~Queued(queue, c)
  BY <1>3, <1>5 DEF OnePlace, c
<1>7. \A h \in Gens \ {g} : ~Has(h, c)
  BY <1>5 DEF OnePlace, c
<1>8. QED BY <1>3, <1>4, <1>6, <1>7 DEF Has, c

\* An actor answers the first request of its mailbox (HandOut, or an error).
LEMMA AnswerStep ==
  ASSUME IInv, IInv', RInv, NEW g \in Gens, NEW b, Become(g, b),
         actor[g].mailbox # <<>>, b.mailbox = Tail(actor[g].mailbox), b.req = actor[g].req,
         b.pc = actor[g].pc, b.id = actor[g].id, b.conn = actor[g].conn,
         UNCHANGED <<closed, pool, queue, connections, nextGen>>,
         NEW c \in Callers, c = Head(actor[g].mailbox),
         \A d \in Callers \ {c} : caller'[d] = caller[d],
         caller[c].pc # "waiting" => caller'[c] = caller[c],
         caller[c].pc = "waiting" =>
           \/ \E e, n : caller'[c] = Failed(caller[c], e, n) /\ e # "Closed"
           \/ /\ caller'[c].pc \in {"opening", "holding"} /\ caller'[c].gen = g
              /\ caller'[c].peer = caller[c].peer /\ caller'[c].burned = caller[c].burned
  PROVE  RInv'
<1>1. c \in Callers
  OBVIOUS
<1>2. Onward
  BY OneActorOnward DEF Over
<1>3. SlotsOnward /\ SlotIds'
  BY <1>2, SlotsKept
<1>4. \A d \in Callers : ~Busy(d) => ~Busy(d)'
  BY DEF Busy
<1>5. ClosedOK'
  BY <1>4 DEF RInv, ClosedOK
<1>6. Frame
  BY <1>2, <1>3, <1>5 DEF Frame, QueueStep
<1>7. ASSUME NEW d \in Callers, d # c PROVE CallerInv(d)'
  <2>1. caller'[d] = caller[d]
    BY <1>7
  <2>2. CASE caller[d].pc = "gone"
    BY <2>1, <2>2 DEF CallerInv
  <2>3. CASE caller[d].pc # "gone"
    <3>1. OnePlace(d)
      BY <2>3, HereWaits
    <3>2. BoxesQuiet(d)
      BY <1>7, <3>1, TakeQuiet
    <3>3. QueueQuiet(d)
      BY <3>1, QueueSameQuiet DEF OnePlace
    <3>4. QED BY <1>6, <2>1, <3>2, <3>3, Bystander
  <2>4. QED BY <2>2, <2>3
<1>8. CallerInv(c)'
  <2>1. CASE caller[c].pc = "gone"
    BY <2>1 DEF CallerInv
  <2>2. CASE caller[c].pc # "gone"
    <3>1. OnePlace(c)
      BY <1>1, <2>2, HereWaits
    <3>2. /\ Boxed(actor[g].mailbox, c) /\ ~Boxed(Tail(actor[g].mailbox), c)
          /\ c \notin actor[g].req /\ ~Queued(queue, c)
          /\ \A h \in Gens \ {g} : ~Boxed(actor[h].mailbox, c) /\ c \notin actor[h].req
      BY <3>1, TakeUnique
    <3>3. caller[c].pc = "waiting"
      BY <1>1, <2>2, <3>2, HereWaits
    <3>4. Nowhere(c)
      BY <3>2, OneActor DEF Nowhere
    <3>5. CASE \E e, n : caller'[c] = Failed(caller[c], e, n) /\ e # "Closed"
      BY <1>6, <3>3, <3>4, <3>5, EndedCaller
    <3>6. CASE /\ caller'[c].pc \in {"opening", "holding"} /\ caller'[c].gen = g
               /\ caller'[c].peer = caller[c].peer /\ caller'[c].burned = caller[c].burned
      <4>1. RightPeer(c) /\ \A h \in caller[c].burned : Avoids(c, h)
        BY <1>1, <2>2 DEF RInv, CallerInv
      <4>2. actor[g].id \in caller[c].peer /\ \E p \in Peers : caller[c].peer = {p}
        BY <3>2, <3>3, <4>1 DEF RightPeer
      <4>3. actor'[g].id = actor[g].id
        BY OneActor
      <4>4. \A h \in caller[c].burned : Avoids(c, h)'
        <5> TAKE h \in caller[c].burned
        <5>1. Avoids(c, h)
          BY <4>1
        <5>2. ~Boxed(actor'[h].mailbox, c)
          BY <1>6, <3>4, <5>1, OnwardGens DEF Avoids, Nowhere, Frame
        <5>3. QED BY <1>1, <1>6, <5>1, <5>2, AvoidsKept
      <4>5. QED BY <3>4, <3>6, <4>2, <4>3, <4>4, NowhereOK
    <3>7. QED BY <3>3, <3>5, <3>6
  <2>3. QED BY <2>1, <2>2
<1>9. \A d \in Callers : CallerInv(d)'
  BY <1>7, <1>8
<1>10. QED BY <1>6, <1>9, FrameRInv

\* What OneConnection::drop and get_one leave alone.
LEMMA DroppedFields ==
  ASSUME NEW a \in Actor
  PROVE  /\ Dropped(a).pc = a.pc /\ Dropped(a).id = a.id /\ Dropped(a).conn = a.conn
         /\ Dropped(a).mailbox = a.mailbox /\ Dropped(a).req = a.req
BY DEF Dropped, Actor

LEMMA HandOutFields ==
  ASSUME NEW a \in Actor, NEW gone
  PROVE  /\ HandOut(a, gone).pc = a.pc /\ HandOut(a, gone).id = a.id
         /\ HandOut(a, gone).conn = a.conn /\ HandOut(a, gone).req = a.req
         /\ HandOut(a, gone).mailbox = Tail(a.mailbox)
<1> DEFINE s == [a EXCEPT !.mailbox = Tail(a.mailbox), !.idleActive = FALSE, !.count = a.count + 1]
<1>1. s.pc = a.pc /\ s.id = a.id /\ s.conn = a.conn /\ s.req = a.req /\ s.mailbox = Tail(a.mailbox)
  BY DEF Actor
<1>2. Dropped(s) = [s EXCEPT !.count = s.count - 1, !.permit = IF s.count = 1 THEN TRUE ELSE s.permit]
  BY DEF Dropped
<1>3. /\ Dropped(s).pc = s.pc /\ Dropped(s).id = s.id /\ Dropped(s).conn = s.conn
      /\ Dropped(s).req = s.req /\ Dropped(s).mailbox = s.mailbox
  BY <1>2 DEF Actor
<1>4. HandOut(a, gone) = IF gone THEN Dropped(s) ELSE s
  BY DEF HandOut
<1>5. QED
  <2> HIDE DEF s
  <2>1. QED BY <1>1, <1>3, <1>4

\* The two answers to the first request of a mailbox.
LEMMA ServeStep ==
  ASSUME IInv, IInv', RInv, NEW g \in Gens, Serve(g) \/ ServeError(g)
  PROVE  RInv'
<1> DEFINE a == actor[g]
<1>1. a \in Actor /\ a.mailbox \in Seq(Callers) /\ a.mailbox # <<>>
  BY DEF IInv, ActorsOK, Actor, Serve, ServeError
<1>2. PICK c \in Callers : c = Head(a.mailbox)
  BY <1>1
<1>3. caller \in [Callers -> Caller] /\ caller[c] \in Caller
  BY DEF IInv, CallersOK
<1>4. CASE Serve(g)
  <2> DEFINE b == HandOut(a, caller[c].pc # "waiting")
  <2>1. /\ Become(g, b) /\ caller' = [caller EXCEPT ![c] = Leased(caller[c], g)]
        /\ UNCHANGED <<closed, pool, queue, connections, nextGen>>
    BY <1>2, <1>4 DEF Serve
  <2>2. /\ b.pc = a.pc /\ b.id = a.id /\ b.conn = a.conn /\ b.req = a.req
        /\ b.mailbox = Tail(a.mailbox)
    BY <1>1, HandOutFields
  <2>3. caller'[c] = Leased(caller[c], g) /\ \A d \in Callers \ {c} : caller'[d] = caller[d]
    BY <1>3, <2>1
  <2>4. caller[c].pc # "waiting" => caller'[c] = caller[c]
    BY <2>3 DEF Leased
  <2>5. caller[c].pc = "waiting" =>
           /\ caller'[c].pc \in {"opening", "holding"} /\ caller'[c].gen = g
           /\ caller'[c].peer = caller[c].peer /\ caller'[c].burned = caller[c].burned
    BY <1>3, <2>3 DEF Leased, Caller
  <2>6. QED
    <3> HIDE DEF b
    <3>1. QED BY <1>1, <1>2, <2>1, <2>2, <2>3, <2>4, <2>5, AnswerStep
<1>5. CASE ServeError(g)
  <2> DEFINE b == [a EXCEPT !.mailbox = Tail(a.mailbox)]
  <2>1. /\ Become(g, b) /\ caller' = [caller EXCEPT ![c] = Failed(caller[c], "Connect", 0)]
        /\ UNCHANGED <<closed, pool, queue, connections, nextGen>>
    BY <1>2, <1>5 DEF ServeError
  <2>2. /\ b.pc = a.pc /\ b.id = a.id /\ b.conn = a.conn /\ b.req = a.req
        /\ b.mailbox = Tail(a.mailbox)
    BY <1>1 DEF Actor
  <2>3. caller'[c] = Failed(caller[c], "Connect", 0) /\ \A d \in Callers \ {c} : caller'[d] = caller[d]
    BY <1>3, <2>1
  <2>4. caller[c].pc # "waiting" => caller'[c] = caller[c]
    BY <2>3 DEF Failed
  <2>5. \E e, n : caller'[c] = Failed(caller[c], e, n) /\ e # "Closed"
    BY <2>3
  <2>6. QED
    <3> HIDE DEF b
    <3>1. QED BY <1>1, <1>2, <2>1, <2>2, <2>3, <2>4, <2>5, AnswerStep
<1>6. QED BY <1>4, <1>5

\* An actor takes a request that it is going to refuse.
LEMMA RefuseStep ==
  ASSUME IInv, IInv', RInv, NEW g \in Gens, Refuse(g)
  PROVE  RInv'
<1> DEFINE a == actor[g]
<1>1. a \in Actor /\ a.mailbox \in Seq(Callers) /\ a.mailbox # <<>> /\ a.pc = "loop" /\ a.conn = "lost"
  BY DEF IInv, ActorsOK, Actor, Refuse, At
<1>2. PICK c \in Callers : c = Head(a.mailbox)
  BY <1>1
<1> DEFINE b == [a EXCEPT !.pc = "refuse", !.req = {c}, !.mailbox = Tail(a.mailbox)]
<1>3. Become(g, b) /\ UNCHANGED <<closed, pool, queue, connections, nextGen, caller>>
  BY <1>2 DEF Refuse, OnlyActor
<1>4. /\ b.pc = "refuse" /\ b.id = a.id /\ b.conn = a.conn /\ b.req = {c}
      /\ b.mailbox = Tail(a.mailbox)
  BY <1>1 DEF Actor
<1> HIDE DEF b
<1>5. Over(a) => Over(b)
  BY <1>1, <1>4 DEF Over
<1>6. Onward
  BY <1>3, <1>4, <1>5, OneActorOnward
<1>7. SlotsOnward /\ SlotIds'
  BY <1>3, <1>6, SlotsKept
<1>8. ClosedOK'
  BY <1>3 DEF RInv, ClosedOK, Busy
<1>9. Frame
  BY <1>3, <1>6, <1>7, <1>8 DEF Frame, QueueStep
<1>10. /\ Gens' = Gens /\ actor'[g] = b /\ \A h \in Gens \ {g} : actor'[h] = actor[h]
  BY <1>3, OneActor
<1>11. ASSUME NEW d \in Callers, d # c, caller[d].pc # "gone" PROVE CallerInv(d)'
  <2>1. OnePlace(d)
    BY <1>11, HereWaits
  <2>2. d \in b.req <=> d \in a.req
    BY <1>1, <1>4, <1>11, <2>1 DEF OnePlace
  <2>3. BoxesQuiet(d)
    BY <1>1, <1>2, <1>3, <1>4, <1>11, <2>1, <2>2, TakeQuiet
  <2>4. QueueQuiet(d)
    BY <1>3, <2>1, QueueSameQuiet DEF OnePlace
  <2>5. QED BY <1>3, <1>9, <2>3, <2>4, Bystander
<1>12. ASSUME caller[c].pc # "gone" PROVE CallerInv(c)'
  <2>1. OnePlace(c)
    BY <1>12, HereWaits
  <2>2. /\ Boxed(a.mailbox, c) /\ ~Boxed(Tail(a.mailbox), c)
        /\ c \notin a.req /\ ~Queued(queue, c)
        /\ \A h \in Gens \ {g} : ~Boxed(actor[h].mailbox, c) /\ c \notin actor[h].req
    BY <1>1, <1>2, <2>1, TakeUnique
  <2>3. caller[c].pc = "waiting"
    BY <1>12, <2>2, HereWaits
  <2>4. \A h \in Gens : ~Boxed(actor'[h].mailbox, c) /\ (c \in actor'[h].req <=> h = g)
    BY <1>4, <1>10, <2>2
  <2>5. \A h \in Gens : Has(h, c)' <=> h = g
    BY <2>4 DEF Has
  <2>6. OnePlace(c)'
    <3>1. \A h \in Gens : BoxedOnce(actor'[h].mailbox, c)
      BY <2>4 DEF BoxedOnce, Boxed
    <3>2. QueuedOnce(queue', c) /\ ~Queued(queue', c)
      BY <1>3, <2>1, <2>2 DEF OnePlace
    <3>3. QED BY <1>4, <1>10, <2>4, <2>5, <3>1, <3>2 DEF OnePlace
  <2>7. Somewhere(c)'
    BY <1>10, <2>5 DEF Somewhere
  <2>8. RightPeer(c) /\ \A h \in caller[c].burned : Avoids(c, h)
    BY <1>12 DEF RInv, CallerInv
  <2>9. caller[c].gen = 0
    BY <2>3 DEF IInv, CallersOK, OwnsLease
  <2>10. RightPeer(c)'
    BY <1>3, <1>10, <2>4, <2>8, <2>9 DEF RightPeer
  <2>11. \A h \in caller[c].burned : Avoids(c, h)'
    <3> TAKE h \in caller[c].burned
    <3>1. Avoids(c, h)
      BY <2>8
    <3>2. ~Boxed(actor'[h].mailbox, c)
      BY <2>4, <3>1 DEF Avoids
    <3>3. QED BY <1>9, <3>1, <3>2, AvoidsKept
  <2>12. QED BY <1>3, <2>3, <2>6, <2>7, <2>10, <2>11 DEF CallerInv, Placed
<1>13. \A d \in Callers : CallerInv(d)'
  <2>1. \A d \in Callers : caller[d].pc = "gone" => CallerInv(d)'
    BY <1>3 DEF CallerInv
  <2>2. QED BY <1>11, <1>12, <2>1
<1>14. QED BY <1>9, <1>13, FrameRInv

\* ... and refuses it: the pool is told first, then the caller.
LEMMA RefusedStep ==
  ASSUME IInv, IInv', RInv, NEW g \in Gens, Refused(g)
  PROVE  RInv'
<1> DEFINE a == actor[g]
           b == [a EXCEPT !.pc = "exit", !.req = {}]
<1>1. a \in Actor /\ a.pc = "refuse"
  BY DEF IInv, ActorsOK, Refused, At
<1>2. /\ Become(g, b) /\ PoolSend(ShutdownMsg(a.id, g))
      /\ UNCHANGED <<closed, pool, connections, nextGen>>
      /\ caller' = [c \in Callers |-> IF c \in a.req THEN Failed(caller[c], "Closed", g) ELSE caller[c]]
  BY DEF Refused
<1>3. b.pc = "exit" /\ b.id = a.id /\ b.req = {} /\ b.mailbox = a.mailbox
  BY <1>1 DEF Actor
<1> HIDE DEF b
<1>4. Over(b)
  BY <1>3 DEF Over
<1>5. Onward
  BY <1>2, <1>3, <1>4, OneActorOnward
<1>6. SlotsOnward /\ SlotIds'
  BY <1>2, <1>5, SlotsKept
<1>7. \A c \in Callers : caller[c].pc # "waiting" => caller'[c] = caller[c]
  BY <1>2 DEF Failed
<1>8. ClosedOK'
  BY <1>2, <1>7 DEF RInv, ClosedOK, Busy
<1>9. Gens' = Gens /\ actor'[g] = b /\ \A h \in Gens \ {g} : actor'[h] = actor[h]
  BY <1>2, OneActor
<1>10. ShutdownMsg(a.id, g) \in Msg /\ queue \in Seq(Msg) /\ a.id \in Peers
  BY ActorMsgs, GenFacts DEF IInv, PoolTypes
<1>11. Frame
  <2>1. queue' = queue \/ queue' = Append(queue, ShutdownMsg(a.id, g))
    BY <1>2 DEF PoolSend
  <2>2. QueueStep
    BY <1>4, <1>9, <1>10, <2>1, ShutdownIsMsg DEF QueueStep
  <2>3. QED BY <1>5, <1>6, <1>8, <2>2 DEF Frame
<1>12. ASSUME NEW d \in Callers, QueuedOnce(queue, d) PROVE QueueQuiet(d)
  BY <1>2, <1>10, <1>12, QueueSameQuiet, QueueSendQuiet, ShutdownIsMsg DEF PoolSend
<1>13. ASSUME NEW d \in Callers, d \notin a.req, caller[d].pc # "gone" PROVE CallerInv(d)'
  <2>1. OnePlace(d)
    BY <1>13, HereWaits
  <2>2. BoxesQuiet(d)
    BY <1>2, <1>3, <1>13, <2>1, OneActorQuiet
  <2>3. QueueQuiet(d)
    BY <1>12, <2>1 DEF OnePlace
  <2>4. caller'[d] = caller[d]
    BY <1>2, <1>13
  <2>5. QED BY <1>11, <2>2, <2>3, <2>4, Bystander
<1>14. ASSUME NEW c \in Callers, c \in a.req, caller[c].pc # "gone" PROVE CallerInv(c)'
  <2>1. OnePlace(c) /\ caller[c].pc = "waiting"
    BY <1>14, HereWaits
  <2>2. Has(g, c)
    BY <1>14 DEF Has
  <2>3. /\ ~Queued(queue, c) /\ ~Boxed(a.mailbox, c)
        /\ \A h \in Gens \ {g} : ~Has(h, c)
    BY <1>14, <2>1, <2>2 DEF OnePlace
  <2>4. QueueQuiet(c)
    BY <1>12, <2>1 DEF OnePlace
  <2>5. Nowhere(c)
    BY <1>3, <1>9, <2>3, <2>4 DEF Nowhere, Has, QueueQuiet
  <2>6. PoolListens
    BY <2>1 DEF RInv, ClosedOK, Busy, PoolListens, IInv, PoolTypes, PoolStates
  <2>7. queue' = Append(queue, ShutdownMsg(a.id, g))
    BY <1>2, <2>6 DEF PoolSend
  <2>8. Ahead(queue', ShutdownMsg(a.id, g), c)
    BY <1>10, <2>3, <2>7, AppendAhead, ShutdownIsMsg
  <2>9. Avoids(c, g)'
    BY <1>3, <1>9, <2>3, <2>8 DEF Avoids
  <2>10. caller'[c] = Failed(caller[c], "Closed", g)
    BY <1>2, <1>14
  <2>11. QED BY <1>11, <2>1, <2>5, <2>9, <2>10, FailedCaller
<1>15. \A d \in Callers : CallerInv(d)'
  <2>1. \A d \in Callers : caller[d].pc = "gone" => CallerInv(d)'
    BY <1>7 DEF CallerInv
  <2>2. QED BY <1>13, <1>14, <2>1
<1>16. QED BY <1>11, <1>15, FrameRInv

\* An actor ends: the callers in its mailbox get an answer, as their reply senders
\* are dropped with it.
LEMMA ExitStep ==
  ASSUME IInv, IInv', RInv, NEW g \in Gens, Exit(g)
  PROVE  RInv'
<1> DEFINE a == actor[g]
           b == [a EXCEPT !.pc = "stopped", !.mailbox = <<>>,
                          !.conn = IF a.conn = "open" THEN "closed" ELSE a.conn,
                          !.permit = FALSE, !.idleActive = FALSE, !.pending = FALSE, !.wake = FALSE]
<1>1. a \in Actor /\ a.pc = "exit"
  BY DEF IInv, ActorsOK, Exit, At
<1>2. /\ Become(g, b) /\ pool' = AfterSelect
      /\ UNCHANGED <<closed, queue, connections, nextGen>>
      /\ caller' = [c \in Callers |-> IF Boxed(a.mailbox, c)
                                      THEN Failed(caller[c], "Shutdown", g) ELSE caller[c]]
  BY DEF Exit, Boxed
<1>3. b.pc = "stopped" /\ b.id = a.id /\ b.req = a.req /\ b.mailbox = <<>>
  BY <1>1 DEF Actor
<1> HIDE DEF b
<1>4. Over(b)
  BY <1>3 DEF Over
<1>5. Onward
  BY <1>2, <1>3, <1>4, OneActorOnward
<1>6. SlotsOnward /\ SlotIds'
  BY <1>2, <1>5, SlotsKept
<1>7. \A c \in Callers : caller[c].pc # "waiting" => caller'[c] = caller[c]
  BY <1>2 DEF Failed
<1>8. ClosedOK'
  BY <1>2, <1>7 DEF RInv, ClosedOK, Busy, AfterSelect
<1>9. Gens' = Gens /\ actor'[g] = b /\ \A h \in Gens \ {g} : actor'[h] = actor[h]
  BY <1>2, OneActor
<1>10. Frame
  BY <1>2, <1>5, <1>6, <1>8 DEF Frame, QueueStep
<1>11. \A c : ~Boxed(b.mailbox, c) /\ BoxedOnce(b.mailbox, c)
  BY <1>3 DEF Boxed, BoxedOnce
<1>12. ASSUME NEW c \in Callers, caller[c].pc # "gone" PROVE CallerInv(c)'
  <2>1. OnePlace(c)
    BY <1>12, HereWaits
  <2>2. c \notin a.req
    BY <1>1, <2>1 DEF OnePlace
  <2>3. QueueQuiet(c)
    BY <1>2, <2>1, QueueSameQuiet DEF OnePlace
  <2>4. CASE ~Boxed(a.mailbox, c)
    <3>1. BoxesQuiet(c)
      BY <1>3, <1>9, <1>11, <2>1, <2>2, <2>4 DEF BoxesQuiet, OnePlace
    <3>2. caller'[c] = caller[c]
      BY <1>2, <2>4
    <3>3. QED BY <1>10, <2>3, <3>1, <3>2, Bystander
  <2>5. CASE Boxed(a.mailbox, c)
    <3>1. caller[c].pc = "waiting"
      BY <1>12, <2>5, HereWaits
    <3>2. Has(g, c)
      BY <2>5 DEF Has
    <3>3. ~Queued(queue, c) /\ \A h \in Gens \ {g} : ~Has(h, c)
      BY <2>1, <3>2 DEF OnePlace
    <3>4. Nowhere(c)
      BY <1>3, <1>9, <1>11, <2>2, <2>3, <3>3 DEF Nowhere, Has, QueueQuiet
    <3>5. caller'[c] = Failed(caller[c], "Shutdown", g)
      BY <1>2, <2>5
    <3>6. \E e, n : caller'[c] = Failed(caller[c], e, n) /\ e # "Closed"
      BY <3>5
    <3>7. QED BY <1>10, <3>1, <3>4, <3>6, EndedCaller
  <2>6. QED BY <2>4, <2>5
<1>13. \A d \in Callers : CallerInv(d)'
  <2>1. \A d \in Callers : caller[d].pc = "gone" => CallerInv(d)'
    BY <1>7 DEF CallerInv
  <2>2. QED BY <1>12, <2>1
<1>14. QED BY <1>10, <1>13, FrameRInv

-----------------------------------------------------------------------------
(* Steps of the pool actor.                                                *)

\* Handling a message keeps the pool's states in line with closed.
LEMMA HandlingClosed ==
  ASSUME RInv, NEW t, Handling(t), closed' = closed, \A c \in Callers : ~Busy(c) => ~Busy(c)'
  PROVE  ClosedOK'
BY DEF RInv, ClosedOK, Handling, AfterSelect

\* The request that is taken from the queue is the only one of its caller, who waits
\* for it; the slots of the generations its operation gave up on are gone.
LEMMA RequestTaken ==
  ASSUME IInv, RInv, Handling("Request"), NEW c \in Callers, c = Head(queue).caller,
         caller[c].pc # "gone"
  PROVE  /\ OnePlace(c) /\ caller[c].pc = "waiting"
         /\ ~Queued(queue', c) /\ QueuedOnce(queue', c)
         /\ \A h \in Gens : ~Boxed(actor[h].mailbox, c) /\ c \notin actor[h].req
         /\ Head(queue).id \in caller[c].peer
         /\ \A g \in caller[c].burned : Avoids(c, g) /\ connections[actor[g].id] # g
<1>1. /\ queue \in Seq(Msg) /\ queue # <<>> /\ queue' = Tail(queue) /\ Asks(Head(queue), c)
      /\ Head(queue).type = "Request"
  BY DEF IInv, PoolTypes, Handling, Asks
<1>2. Len(queue) \in Nat \ {0} /\ Head(queue) = queue[1] /\ 1 \in 1 .. Len(queue)
  BY <1>1, EmptySeq
<1>3. Queued(queue, c)
  BY <1>1, <1>2 DEF Queued
<1>4. OnePlace(c) /\ caller[c].pc = "waiting"
  BY <1>3, HereWaits
<1>5. ~Queued(queue', c) /\ QueuedOnce(queue', c)
  BY <1>1, <1>4, TailQueued DEF OnePlace
<1>6. \A h \in Gens : ~Boxed(actor[h].mailbox, c) /\ c \notin actor[h].req
  BY <1>3, <1>4 DEF OnePlace, Has
<1>7. Head(queue).id \in caller[c].peer
  BY <1>1, <1>2 DEF RInv, CallerInv, RightPeer
<1>8. ASSUME NEW g \in caller[c].burned PROVE Avoids(c, g) /\ connections[actor[g].id] # g
  <2>1. Avoids(c, g)
    BY DEF RInv, CallerInv
  <2>2. Head(queue) # ShutdownMsg(actor[g].id, g)
    BY <1>1, ShutdownIsMsg
  <2>3. ~Ahead(queue, ShutdownMsg(actor[g].id, g), c)
    BY <1>1, <2>2, TailAhead
  <2>4. QED BY <2>1, <2>3 DEF Avoids
<1>9. QED BY <1>4, <1>5, <1>6, <1>7, <1>8

\* The requests of the other callers stay in the queue.
LEMMA OthersStay ==
  ASSUME IInv, NEW t, Handling(t), NEW d, OnePlace(d), t = "Request" => Head(queue).caller # d
  PROVE  QueueQuiet(d)
<1>1. queue \in Seq(Msg) /\ queue # <<>> /\ queue' = Tail(queue) /\ ~Asks(Head(queue), d)
  BY DEF IInv, PoolTypes, Handling, Asks
<1>2. QED BY <1>1, QueueTakeQuiet DEF OnePlace

\* A request is refused by the pool (Busy or TooManyConnections).
LEMMA RejectStep ==
  ASSUME IInv, IInv', RInv, Handling("Request"), UNCHANGED <<closed, nextGen, actor>>,
         \A p \in Peers : connections'[p] = connections[p] \/ connections'[p] = 0,
         NEW c \in Callers, c = Head(queue).caller,
         NEW e, NEW n, e # "Closed", caller' = [caller EXCEPT ![c] = Failed(caller[c], e, n)]
  PROVE  RInv'
<1>1. caller'[c] = Failed(caller[c], e, n) /\ \A d \in Callers \ {c} : caller'[d] = caller[d]
  BY DEF IInv, CallersOK
<1>2. \A d \in Callers : caller[d].pc # "waiting" => caller'[d] = caller[d]
  BY <1>1 DEF Failed
<1>3. Onward /\ (\A d : OnePlace(d) => BoxesQuiet(d)) /\ Gens' = Gens
  BY ActorsSameQuiet DEF Gens
<1>4. SlotsOnward /\ SlotIds'
  BY <1>3, SlotsKept
<1>5. \A d \in Callers : ~Busy(d) => ~Busy(d)'
  BY <1>2 DEF Busy
<1>6. ClosedOK'
  BY <1>5, HandlingClosed
<1>7. QueueStep
  BY DEF Handling, QueueStep
<1>8. Frame
  BY <1>3, <1>4, <1>6, <1>7 DEF Frame
<1>9. ASSUME NEW d \in Callers, d # c, caller[d].pc # "gone" PROVE CallerInv(d)'
  <2>1. OnePlace(d)
    BY <1>9, HereWaits
  <2>2. QueueQuiet(d)
    BY <1>9, <2>1, OthersStay
  <2>3. QED BY <1>1, <1>3, <1>8, <1>9, <2>1, <2>2, Bystander
<1>10. ASSUME caller[c].pc # "gone" PROVE CallerInv(c)'
  <2>1. /\ caller[c].pc = "waiting" /\ ~Queued(queue', c)
        /\ \A h \in Gens : ~Boxed(actor[h].mailbox, c) /\ c \notin actor[h].req
    BY <1>10, RequestTaken
  <2>2. Nowhere(c)
    BY <1>3, <2>1 DEF Nowhere
  <2>3. \E f, k : caller'[c] = Failed(caller[c], f, k) /\ f # "Closed"
    BY <1>1
  <2>4. QED BY <1>8, <2>1, <2>2, <2>3, EndedCaller
<1>11. \A d \in Callers : CallerInv(d)'
  <2>1. \A d \in Callers : caller[d].pc = "gone" => CallerInv(d)'
    BY <1>2 DEF CallerInv
  <2>2. QED BY <1>9, <1>10, <2>1
<1>12. QED BY <1>8, <1>11, FrameRInv

\* The request of c is in the mailbox of g, and nowhere else.
LEMMA Arrived ==
  ASSUME IInv, IInv', RInv, Frame, Handling("Request"), NEW c \in Callers, c = Head(queue).caller,
         caller[c].pc # "gone", caller'[c] = caller[c],
         NEW g \in Gens', g \notin caller[c].burned,
         BoxedOnce(actor'[g].mailbox, c), Boxed(actor'[g].mailbox, c), c \notin actor'[g].req,
         actor'[g].id = Head(queue).id,
         \A h \in Gens' \ {g} : actor'[h].mailbox = actor[h].mailbox /\ actor'[h].req = actor[h].req
                                /\ h \in Gens
  PROVE  CallerInv(c)'
<1>1. /\ OnePlace(c) /\ caller[c].pc = "waiting"
      /\ ~Queued(queue', c) /\ QueuedOnce(queue', c)
      /\ \A h \in Gens : ~Boxed(actor[h].mailbox, c) /\ c \notin actor[h].req
      /\ Head(queue).id \in caller[c].peer
      /\ \A h \in caller[c].burned : Avoids(c, h)
  BY RequestTaken
<1>2. \A h \in Gens' : /\ Boxed(actor'[h].mailbox, c) <=> h = g
                       /\ c \notin actor'[h].req
                       /\ BoxedOnce(actor'[h].mailbox, c)
  BY <1>1 DEF OnePlace
<1>3. \A h \in Gens' : Has(h, c)' <=> h = g
  BY <1>2 DEF Has
<1>4. OnePlace(c)'
  BY <1>1, <1>2, <1>3 DEF OnePlace
<1>5. Somewhere(c)'
  BY <1>3 DEF Somewhere
<1>6. RightPeer(c)'
  <2>1. caller[c].gen = 0
    BY <1>1 DEF IInv, CallersOK, OwnsLease
  <2>2. \E p \in Peers : caller[c].peer = {p}
    BY <1>1 DEF RInv, CallerInv, RightPeer
  <2>3. \A i \in 1 .. Len(queue') : ~Asks(queue'[i], c)
    BY <1>1 DEF Queued
  <2>4. QED BY <1>1, <1>2, <2>1, <2>2, <2>3 DEF RightPeer
<1>7. ASSUME NEW h \in caller[c].burned PROVE Avoids(c, h)'
  <2>1. Avoids(c, h) /\ h \in Gens'
    BY <1>1, OnwardGens DEF Avoids, Frame
  <2>2. ~Boxed(actor'[h].mailbox, c)
    BY <1>2, <2>1
  <2>3. QED BY <2>1, <2>2, AvoidsKept
<1>8. QED BY <1>1, <1>4, <1>5, <1>6, <1>7 DEF CallerInv, Placed

\* The first request of the queue has gone to the mailbox of g: the actor of the
\* peer's slot, or a new one.
LEMMA ArrivalStep ==
  ASSUME IInv, IInv', RInv, Frame, Handling("Request"), caller' = caller,
         NEW c \in Callers, c = Head(queue).caller,
         NEW g \in Gens', actor'[g].id = Head(queue).id,
         \A h \in Gens' \ {g} : h \in Gens /\ actor'[h] = actor[h],
         \/ /\ g \notin Gens /\ actor'[g].mailbox = <<c>> /\ actor'[g].req = {}
         \/ /\ g \in Gens /\ connections[Head(queue).id] = g
            /\ actor'[g].mailbox = Append(actor[g].mailbox, c)
            /\ actor'[g].req = actor[g].req /\ actor'[g].pc = actor[g].pc
  PROVE  RInv'
<1>1. Gens \subseteq Gens' /\ \A h \in Gens : actor'[h].id = actor[h].id
  BY OnwardGens DEF Frame, Onward
<1>2. \A h \in Gens : actor[h].mailbox \in Seq(Callers)
  BY DEF IInv, ActorsOK, Actor
<1>3. Len(<<c>>) = 1 /\ <<c>>[1] = c
  OBVIOUS
<1>4. ASSUME NEW d \in Callers, d # c, caller[d].pc # "gone" PROVE CallerInv(d)'
  <2>1. OnePlace(d)
    BY <1>4, HereWaits
  <2>2. QueueQuiet(d)
    BY <1>4, <2>1, OthersStay
  <2>3. ASSUME NEW h \in Gens
        PROVE  /\ BoxedOnce(actor'[h].mailbox, d)
               /\ Boxed(actor'[h].mailbox, d) <=> Boxed(actor[h].mailbox, d)
               /\ d \in actor'[h].req <=> d \in actor[h].req
               /\ d \in actor[h].req => actor'[h].pc = actor[h].pc
    <3>1. BoxedOnce(actor[h].mailbox, d)
      BY <2>1 DEF OnePlace
    <3>2. CASE h # g
      BY <1>1, <3>1, <3>2
    <3>3. CASE h = g
      <4>1. actor'[h].mailbox = Append(actor[h].mailbox, c)
        BY <3>3
      <4>2. /\ BoxedOnce(Append(actor[h].mailbox, c), d)
            /\ Boxed(Append(actor[h].mailbox, c), d) <=> Boxed(actor[h].mailbox, d) \/ c = d
        BY <1>2, <1>4, <3>1, AppendBoxed
      <4>3. QED BY <1>4, <3>3, <4>1, <4>2
    <3>4. QED BY <3>2, <3>3
  <2>4. ASSUME NEW h \in Gens' \ Gens
        PROVE  ~Boxed(actor'[h].mailbox, d) /\ d \notin actor'[h].req
    <3>1. h = g /\ actor'[h].mailbox = <<c>> /\ actor'[h].req = {}
      BY <2>4
    <3>2. QED BY <1>3, <1>4, <3>1 DEF Boxed
  <2>5. BoxesQuiet(d)
    BY <2>3, <2>4 DEF BoxesQuiet
  <2>6. QED BY <2>2, <2>5, Bystander
<1>5. ASSUME caller[c].pc # "gone" PROVE CallerInv(c)'
  <2>1. /\ \A h \in Gens : ~Boxed(actor[h].mailbox, c) /\ c \notin actor[h].req
        /\ \A h \in caller[c].burned : Avoids(c, h) /\ connections[actor[h].id] # h
        /\ OnePlace(c)
    BY <1>5, RequestTaken
  <2>2. g \notin caller[c].burned
    BY <1>1, <2>1 DEF Avoids
  <2>3. BoxedOnce(actor'[g].mailbox, c) /\ Boxed(actor'[g].mailbox, c) /\ c \notin actor'[g].req
    <3>1. CASE g \notin Gens
      BY <1>3, <3>1 DEF Boxed, BoxedOnce
    <3>2. CASE g \in Gens
      <4>1. ~Boxed(actor[g].mailbox, c) /\ BoxedOnce(actor[g].mailbox, c)
        BY <2>1, <3>2 DEF OnePlace
      <4>2. BoxedOnce(Append(actor[g].mailbox, c), c) /\ Boxed(Append(actor[g].mailbox, c), c)
        BY <1>2, <3>2, <4>1, AppendBoxed
      <4>3. QED BY <2>1, <3>2, <4>2
    <3>3. QED BY <3>1, <3>2
  <2>4. QED BY <1>5, <2>2, <2>3, Arrived
<1>6. \A d \in Callers : CallerInv(d)'
  <2>1. \A d \in Callers : caller[d].pc = "gone" => CallerInv(d)'
    BY DEF CallerInv
  <2>2. QED BY <1>4, <1>5, <2>1
<1>7. QED BY <1>6, FrameRInv

\* Forward: the request joins the mailbox of the peer's actor.
LEMMA ForwardStep ==
  ASSUME IInv, IInv', RInv, Forward
  PROVE  RInv'
<1> DEFINE m == Head(queue)
<1>1. Handling("Request") /\ m.id \in Peers /\ m.caller \in Callers
  BY HandlingOK DEF Forward
<1>2. PICK c \in Callers : c = m.caller
  BY <1>1
<1>3. PICK g \in Gens : g = connections[m.id]
  BY <1>1 DEF Forward, SlotOpen, IInv, SlotsOK, PoolTypes, Gens
<1> DEFINE b == [actor[g] EXCEPT !.mailbox = Append(actor[g].mailbox, c)]
<1>4. Become(g, b) /\ UNCHANGED <<closed, connections, nextGen, caller>>
  BY <1>2, <1>3 DEF Forward
<1>5. actor[g] \in Actor /\ g # 0
  BY GenFacts
<1>6. /\ b.id = actor[g].id /\ b.req = actor[g].req /\ b.pc = actor[g].pc /\ b.conn = actor[g].conn
      /\ b.mailbox = Append(actor[g].mailbox, c)
  BY <1>5 DEF Actor
<1>7. Over(actor[g]) => Over(b)
  BY <1>6 DEF Over
<1>8. actor[g].id = m.id
  BY <1>1, <1>3, <1>5 DEF RInv, SlotIds
<1> HIDE DEF b, m
<1>9. Gens' = Gens /\ actor'[g] = b /\ \A h \in Gens \ {g} : actor'[h] = actor[h]
  BY <1>4, OneActor
<1>10. Onward
  BY <1>4, <1>6, <1>7, OneActorOnward
<1>11. SlotsOnward /\ SlotIds'
  BY <1>4, <1>10, SlotsKept
<1>12. ClosedOK'
  <2>1. closed' = closed /\ \A d \in Callers : ~Busy(d) => ~Busy(d)'
    BY <1>4 DEF Busy
  <2>2. QED BY <1>1, <2>1, HandlingClosed
<1>13. QueueStep
  BY <1>1 DEF Handling, QueueStep
<1>14. Frame
  BY <1>10, <1>11, <1>12, <1>13 DEF Frame
<1>15. actor'[g].id = Head(queue).id /\ connections[Head(queue).id] = g /\ c = Head(queue).caller
  BY <1>2, <1>3, <1>6, <1>8, <1>9 DEF m
<1>16. /\ caller' = caller /\ g \in Gens'
       /\ \A h \in Gens' \ {g} : h \in Gens /\ actor'[h] = actor[h]
       /\ actor'[g].mailbox = Append(actor[g].mailbox, c)
       /\ actor'[g].req = actor[g].req /\ actor'[g].pc = actor[g].pc
  BY <1>4, <1>6, <1>9
<1>17. QED BY <1>1, <1>14, <1>15, <1>16, ArrivalStep

\* A new slot whose actor starts with the request, in a table that has lost slots.
LEMMA SpawnArrival ==
  ASSUME IInv, IInv', RInv, Handling("Request"), NEW table, NEW q,
         Spawn(Head(queue), table, q), table \in [Peers -> Nat],
         \A p \in Peers : table[p] = connections[p] \/ table[p] = 0
  PROVE  RInv'
<1> DEFINE m == Head(queue)
<1>1. m.id \in Peers /\ m.caller \in Callers
  BY HandlingOK
<1>2. PICK c \in Callers : c = m.caller
  BY <1>1
<1>3. /\ connections' = [table EXCEPT ![m.id] = nextGen] /\ nextGen' = nextGen + 1
      /\ actor' = [h \in 1 .. nextGen |-> IF h = nextGen THEN NewActor(m.id, c) ELSE actor[h]]
      /\ UNCHANGED <<closed, caller>>
  BY <1>2 DEF Spawn
<1>4. nextGen \in Nat \ {0} /\ Gens' = 1 .. nextGen /\ Gens = 1 .. (nextGen - 1)
  BY <1>3 DEF IInv, PoolTypes, Gens
<1>5. PICK g \in Gens' : g = nextGen
  BY <1>4
<1>6. /\ g \notin Gens /\ \A h \in Gens : actor'[h] = actor[h]
      /\ \A h \in Gens' \ {g} : h \in Gens /\ actor'[h] = actor[h]
      /\ actor'[g] = NewActor(m.id, c)
  BY <1>3, <1>4, <1>5
<1>7. actor'[g].id = m.id /\ actor'[g].mailbox = <<c>> /\ actor'[g].req = {}
  BY <1>6 DEF NewActor
<1>8. Onward
  BY <1>3, <1>4, <1>6 DEF Onward
<1>9. connections'[m.id] = g /\ \A p \in Peers \ {m.id} : connections'[p] = connections[p] \/ connections'[p] = 0
  BY <1>1, <1>3, <1>5
<1>10. \A p \in Peers : connections[p] # 0 => connections[p] \in Gens
  BY GenFacts DEF IInv, SlotsOK, PoolTypes
<1>11. 0 \notin Gens
  BY GenFacts
<1>12. SlotsOnward
  BY <1>1, <1>6, <1>9, <1>11 DEF SlotsOnward
<1>13. SlotIds'
  <2> SUFFICES ASSUME NEW p \in Peers, connections'[p] # 0 PROVE actor'[connections'[p]].id = p
    BY DEF SlotIds
  <2>1. CASE p = m.id
    BY <1>7, <1>9, <2>1
  <2>2. CASE p # m.id
    BY <1>6, <1>9, <1>10, <2>2 DEF RInv, SlotIds
  <2>3. QED BY <2>1, <2>2
<1>14. ClosedOK'
  <2>1. closed' = closed /\ \A d \in Callers : ~Busy(d) => ~Busy(d)'
    BY <1>3 DEF Busy
  <2>2. QED BY <2>1, HandlingClosed
<1>15. QueueStep
  BY DEF Handling, QueueStep
<1>16. Frame
  BY <1>8, <1>12, <1>13, <1>14, <1>15 DEF Frame
<1>17. actor'[g].id = Head(queue).id /\ c = Head(queue).caller /\ caller' = caller
  BY <1>2, <1>3, <1>7
<1> HIDE DEF m
<1>18. QED BY <1>6, <1>7, <1>16, <1>17, ArrivalStep

\* A step that handles a message other than a request, or none.
LEMMA PoolQuiet ==
  ASSUME IInv, IInv', RInv, UNCHANGED <<nextGen, actor, caller>>,
         \A p \in Peers : connections'[p] = connections[p] \/ connections'[p] = 0,
         QueueStep, ClosedOK', \A c \in Callers : caller[c].pc # "gone" => QueueQuiet(c)
  PROVE  RInv'
<1>1. Onward /\ \A d : OnePlace(d) => BoxesQuiet(d)
  BY ActorsSameQuiet
<1>2. Frame
  BY <1>1, SlotsKept DEF Frame
<1>3. ASSUME NEW d \in Callers PROVE CallerInv(d)'
  <2>1. CASE caller[d].pc = "gone"
    BY <2>1 DEF CallerInv
  <2>2. CASE caller[d].pc # "gone"
    <3>1. OnePlace(d)
      BY <2>2, HereWaits
    <3>2. QED BY <1>1, <1>2, <2>2, <3>1, Bystander
  <2>3. QED BY <2>1, <2>2
<1>4. QED BY <1>2, <1>3, FrameRInv

\* The steps of PoolActor::handle and PoolActor::run.
LEMMA PoolStepRInv ==
  ASSUME IInv, IInv', RInv, PoolStep
  PROVE  RInv'
<1>1. CASE Forward
  BY <1>1, ForwardStep
<1>2. CASE RejectBusy
  <2>1. Handling("Request") /\ Head(queue).caller \in Callers
    BY <1>2, HandlingOK DEF RejectBusy
  <2>2. PICK c \in Callers : c = Head(queue).caller
    BY <2>1
  <2>3. /\ caller' = [caller EXCEPT ![c] = Failed(caller[c], "Busy", 0)]
        /\ UNCHANGED <<closed, nextGen, actor>>
        /\ \A p \in Peers : connections'[p] = connections[p] \/ connections'[p] = 0
    BY <1>2, <2>2 DEF RejectBusy
  <2>4. QED BY <2>1, <2>2, <2>3, RejectStep
<1>3. CASE RejectTooMany
  <2>1. Handling("Request") /\ Head(queue).caller \in Callers /\ Head(queue).id \in Peers
    BY <1>3, HandlingOK DEF RejectTooMany
  <2>2. PICK c \in Callers : c = Head(queue).caller
    BY <2>1
  <2>3. /\ caller' = [caller EXCEPT ![c] = Failed(caller[c], "TooManyConnections", 0)]
        /\ UNCHANGED <<closed, nextGen, actor>> /\ connections' = Pruned(Head(queue).id)
    BY <1>3, <2>2 DEF RejectTooMany
  <2>4. \A p \in Peers : connections'[p] = connections[p] \/ connections'[p] = 0
    BY <2>1, <2>3 DEF Pruned, IInv, PoolTypes
  <2>5. QED BY <2>1, <2>2, <2>3, <2>4, RejectStep
<1>4. CASE SpawnConnection
  <2>1. /\ Handling("Request") /\ Head(queue).id \in Peers
        /\ Spawn(Head(queue), Pruned(Head(queue).id), RemoveIdle(Head(queue).id))
    BY <1>4, HandlingOK DEF SpawnConnection
  <2> DEFINE table == Pruned(Head(queue).id)
  <2>2. table \in [Peers -> Nat] /\ \A p \in Peers : table[p] = connections[p] \/ table[p] = 0
    BY <2>1 DEF Pruned, IInv, PoolTypes
  <2> HIDE DEF table
  <2>3. Spawn(Head(queue), table, RemoveIdle(Head(queue).id))
    BY <2>1 DEF table
  <2>4. QED BY <2>1, <2>2, <2>3, SpawnArrival
<1>5. CASE EvictAndSpawn
  <2> DEFINE q == RemoveIdle(Head(queue).id)
             i == FirstOf(Evictable(Pruned(Head(queue).id), q))
             table == [Pruned(Head(queue).id) EXCEPT ![q[i].id] = 0]
  <2>1. /\ Handling("Request") /\ Head(queue).id \in Peers
        /\ Spawn(Head(queue), table, SubSeq(q, i + 1, Len(q)))
    BY <1>5, HandlingOK DEF EvictAndSpawn
  <2>2. /\ Pruned(Head(queue).id) \in [Peers -> Nat]
        /\ \A p \in Peers : \/ Pruned(Head(queue).id)[p] = connections[p]
                            \/ Pruned(Head(queue).id)[p] = 0
    BY <2>1 DEF Pruned, IInv, PoolTypes
  <2> HIDE DEF q, i
  <2>3. table \in [Peers -> Nat] /\ \A p \in Peers : table[p] = connections[p] \/ table[p] = 0
    BY <2>2
  <2> HIDE DEF table
  <2>4. QED BY <2>1, <2>3, SpawnArrival
<1>6. CASE HandleIdle
  <2>1. Handling("Idle") /\ UNCHANGED <<closed, connections, nextGen, actor, caller>>
    BY <1>6 DEF HandleIdle
  <2>2. \A c \in Callers : ~Busy(c) => ~Busy(c)'
    BY <2>1 DEF Busy
  <2>3. ClosedOK' /\ QueueStep
    BY <2>1, <2>2, HandlingClosed DEF Handling, QueueStep
  <2>4. \A c \in Callers : caller[c].pc # "gone" => QueueQuiet(c)
    BY <2>1, HereWaits, OthersStay
  <2>5. QED BY <2>1, <2>3, <2>4, PoolQuiet
<1>7. CASE HandleShutdown
  <2>1. /\ Handling("Shutdown") /\ UNCHANGED <<closed, nextGen, actor, caller>>
        /\ Head(queue).id \in Peers
    BY <1>7, HandlingOK DEF HandleShutdown
  <2>2. \A c \in Callers : ~Busy(c) => ~Busy(c)'
    BY <2>1 DEF Busy
  <2>3. Head(queue).generation # 0
    <3>1. queue \in Seq(Msg) /\ queue # <<>> /\ Head(queue).type = "Shutdown"
      BY <2>1 DEF Handling, IInv, PoolTypes
    <3>2. Head(queue) = queue[1] /\ 1 \in 1 .. Len(queue)
      BY <3>1, EmptySeq
    <3>3. QED BY <3>1, <3>2, GenFacts DEF RInv, ShutdownsTrue
  <2>4. /\ \A p \in Peers : connections'[p] = connections[p] \/ connections'[p] = 0
        /\ connections'[Head(queue).id] # Head(queue).generation
    BY <1>7, <2>1, <2>3 DEF HandleShutdown, RemoveConnectionIfMatch, MatchesGeneration, IInv, PoolTypes
  <2>5. ClosedOK' /\ QueueStep
    BY <2>1, <2>2, <2>4, HandlingClosed DEF Handling, QueueStep
  <2>6. \A c \in Callers : caller[c].pc # "gone" => QueueQuiet(c)
    BY <2>1, HereWaits, OthersStay
  <2>7. QED BY <2>1, <2>4, <2>5, <2>6, PoolQuiet
<1>8. CASE PoolStop
  <2>1. /\ UNCHANGED <<closed, nextGen, actor, caller>> /\ pool = "stopping" /\ pool' = "draining"
        /\ queue' = <<>> /\ \A p \in Peers : connections'[p] = 0
    BY <1>8 DEF PoolStop
  <2>2. closed /\ \A c \in Callers : ~Busy(c)
    BY <2>1 DEF RInv, ClosedOK
  <2>3. ClosedOK' /\ QueueStep
    BY <2>1, <2>2 DEF ClosedOK, QueueStep, Busy
  <2>4. ASSUME NEW c \in Callers, caller[c].pc # "gone" PROVE QueueQuiet(c)
    <3>1. caller[c].pc # "waiting"
      BY <2>2 DEF Busy
    <3>2. ~Queued(queue, c)
      BY <2>4, <3>1, HereWaits
    <3>3. Len(queue') = 0
      BY <2>1
    <3>4. QED BY <3>2, <3>3 DEF QueueQuiet, Queued, QueuedOnce
  <2>5. QED BY <2>1, <2>3, <2>4, PoolQuiet
<1>9. CASE PoolJoined
  <2>1. UNCHANGED <<closed, queue, connections, nextGen, actor, caller>>
        /\ pool = "draining" /\ pool' = "stopped"
    BY <1>9 DEF PoolJoined
  <2>2. closed /\ \A c \in Callers : ~Busy(c)
    BY <2>1 DEF RInv, ClosedOK
  <2>3. ClosedOK' /\ QueueStep
    BY <2>1, <2>2 DEF ClosedOK, QueueStep, Busy
  <2>4. \A c \in Callers : caller[c].pc # "gone" => QueueQuiet(c)
    BY <2>1, HereWaits, QueueSameQuiet DEF OnePlace
  <2>5. QED BY <2>1, <2>3, <2>4, PoolQuiet
<1>10. QED
  BY <1>1, <1>2, <1>3, <1>4, <1>5, <1>6, <1>7, <1>8, <1>9 DEF PoolStep

-----------------------------------------------------------------------------
(* Steps of a caller, and the end of the last handle.                      *)

\* No actor gets, takes or answers a request, or moves on.
Calm ==
  /\ nextGen' = nextGen
  /\ \A h \in Gens : /\ actor'[h].mailbox = actor[h].mailbox /\ actor'[h].req = actor[h].req
                     /\ actor'[h].pc = actor[h].pc /\ actor'[h].id = actor[h].id
                     /\ actor'[h].conn = actor[h].conn

LEMMA CalmOK ==
  ASSUME IInv, Calm
  PROVE  Gens' = Gens /\ Onward /\ \A d : OnePlace(d) => BoxesQuiet(d)
<1>1. Gens' = Gens /\ nextGen <= nextGen'
  BY GenFacts DEF Calm, Gens
<1>2. Onward
  BY <1>1 DEF Calm, Onward, Over
<1>3. ASSUME NEW d, OnePlace(d) PROVE BoxesQuiet(d)
  BY <1>1, <1>3 DEF Calm, OnePlace, BoxesQuiet
<1>4. QED BY <1>1, <1>2, <1>3

\* The end of a lease is calm.
LEMMA DropCalm ==
  ASSUME IInv, NEW g \in Gens, Become(g, Dropped(actor[g])), nextGen' = nextGen
  PROVE  Calm
<1>1. actor[g] \in Actor
  BY GenFacts
<1>2. actor'[g] = Dropped(actor[g]) /\ \A h \in Gens \ {g} : actor'[h] = actor[h]
  BY OneActor
<1>3. QED BY <1>1, <1>2, DroppedFields DEF Calm

\* What a caller does to the pool's queue.
Says(c) ==
  \/ queue' = queue
  \/ \E m \in Msg : /\ queue' = Append(queue, m)
                    /\ m.type = "Request" => m.caller = c
                    /\ m.type = "Shutdown" => m.generation \in Gens /\ Over(actor[m.generation])

LEMMA CallerFrame ==
  ASSUME IInv, IInv', RInv, Calm, NEW c \in Callers, Says(c),
         UNCHANGED <<closed, connections>>, pool' = pool \/ pool' = "running",
         \A d \in Callers \ {c} : caller'[d] = caller[d], closed => ~Busy(c)'
  PROVE  Frame
<1>1. Gens' = Gens /\ Onward
  BY CalmOK
<1>2. SlotsOnward /\ SlotIds'
  BY <1>1, SlotsKept
<1>3. ClosedOK'
  <2>1. \A d \in Callers \ {c} : Busy(d)' <=> Busy(d)
    BY DEF Busy
  <2>2. QED BY <2>1 DEF RInv, ClosedOK
<1>4. \A h \in Gens : Over(actor[h]) => Over(actor'[h])
  BY <1>1 DEF Onward
<1>5. QueueStep
  <2>1. CASE queue' = queue
    BY <2>1 DEF QueueStep
  <2>2. ASSUME NEW m \in Msg, queue' = Append(queue, m),
               m.type = "Shutdown" => m.generation \in Gens /\ Over(actor[m.generation])
        PROVE  QueueStep
    BY <1>4, <2>2 DEF QueueStep
  <2>3. QED BY <2>1, <2>2 DEF Says
<1>6. QED BY <1>1, <1>2, <1>3, <1>5 DEF Frame

\* Nobody else notices.
LEMMA CallerAlone ==
  ASSUME IInv, IInv', RInv, Frame, Calm, NEW c \in Callers, Says(c),
         \A d \in Callers \ {c} : caller'[d] = caller[d],
         caller[c].pc # "gone" => CallerInv(c)', caller'[c].pc = "gone" \/ caller[c].pc # "gone"
  PROVE  RInv'
<1>1. queue \in Seq(Msg)
  BY DEF IInv, PoolTypes
<1>2. ASSUME NEW d \in Callers, d # c PROVE CallerInv(d)'
  <2>1. CASE caller[d].pc = "gone"
    BY <1>2, <2>1 DEF CallerInv
  <2>2. CASE caller[d].pc # "gone"
    <3>1. OnePlace(d) /\ QueuedOnce(queue, d)
      BY <2>2, HereWaits DEF OnePlace
    <3>2. BoxesQuiet(d)
      BY <3>1, CalmOK
    <3>3. QueueQuiet(d)
      <4>1. CASE queue' = queue
        BY <3>1, <4>1, QueueSameQuiet
      <4>2. ASSUME NEW m \in Msg, queue' = Append(queue, m), m.type = "Request" => m.caller = c
            PROVE  QueueQuiet(d)
        <5>1. ~Asks(m, d)
          BY <1>2, <4>2 DEF Asks
        <5>2. QED BY <1>1, <3>1, <4>2, <5>1, QueueSendQuiet
      <4>3. QED BY <4>1, <4>2 DEF Says
    <3>4. QED BY <1>2, <3>2, <3>3, Bystander
  <2>3. QED BY <2>1, <2>2
<1>3. CallerInv(c)'
  BY DEF CallerInv
<1>4. QED BY <1>2, <1>3, FrameRInv

\* A caller that does not wait has no request anywhere.
LEMMA Unasked ==
  ASSUME RInv, NEW c \in Callers, caller[c].pc \notin {"waiting", "gone"}
  PROVE  /\ ~Queued(queue, c)
         /\ \A h \in Gens : ~Boxed(actor[h].mailbox, c) /\ c \notin actor[h].req
BY HereWaits

\* A caller goes on without asking.
LEMMA StaysUnasked ==
  ASSUME IInv, IInv', RInv, Frame, Calm, NEW c \in Callers,
         caller[c].pc \notin {"waiting", "gone"}, caller'[c].pc # "waiting",
         queue' = queue \/ \E m \in Msg : queue' = Append(queue, m) /\ m.type # "Request",
         caller'[c].pc # "ready" => \E p \in Peers : caller'[c].peer = {p},
         caller'[c].gen # 0 => actor'[caller'[c].gen].id \in caller'[c].peer,
         caller'[c].pc = "invalidating" => Over(actor'[caller'[c].gen]),
         \A g \in caller'[c].burned : g \in caller[c].burned \/ Avoids(c, g)'
  PROVE  CallerInv(c)'
<1>1. /\ ~Queued(queue, c)
      /\ \A h \in Gens : ~Boxed(actor[h].mailbox, c) /\ c \notin actor[h].req
  BY Unasked
<1>2. Gens' = Gens
  BY CalmOK
<1>3. \A h \in Gens' : ~Boxed(actor'[h].mailbox, c) /\ c \notin actor'[h].req
  BY <1>1, <1>2 DEF Calm
<1>4. ~Queued(queue', c)
  <2>1. queue \in Seq(Msg) /\ QueuedOnce(queue, c)
    BY HereWaits DEF IInv, PoolTypes, OnePlace
  <2>2. ASSUME NEW m \in Msg, queue' = Append(queue, m), m.type # "Request"
        PROVE  ~Queued(queue', c)
    <3>1. ~Asks(m, c)
      BY <2>2 DEF Asks
    <3>2. QED BY <1>1, <2>1, <2>2, <3>1, AppendQueued
  <2>3. QED BY <1>1, <2>2
<1>5. Nowhere(c)
  BY <1>3, <1>4 DEF Nowhere
<1>6. ASSUME NEW g \in caller'[c].burned PROVE Avoids(c, g)'
  <2>1. CASE g \in caller[c].burned
    <3>1. Avoids(c, g)
      BY <2>1 DEF RInv, CallerInv
    <3>2. ~Boxed(actor'[g].mailbox, c)
      BY <1>2, <1>3, <3>1 DEF Avoids
    <3>3. QED BY <3>1, <3>2, AvoidsKept
  <2>2. QED BY <2>1
<1>7. QED BY <1>5, <1>6, NowhereOK

\* A leased connection is open or lost, and its actor is past connecting.
LEMMA LeaseStands ==
  ASSUME IInv, NEW c \in Callers, caller[c].gen # 0
  PROVE  /\ caller[c].gen \in Gens
         /\ actor[caller[c].gen].conn # "open" => Over(actor[caller[c].gen])
<1> DEFINE g == caller[c].gen
<1>1. g \in Gens
  BY GenFacts DEF IInv, CallersOK, Caller
<1>2. c \in Holders(g)
  BY DEF Holders
<1>3. Cardinality(Holders(g)) # 0
  BY <1>2, HoldersFinite, FS_EmptySet
<1>4. actor[g].count # 0 /\ Unleased(actor[g])
  BY <1>1, <1>3 DEF IInv, CountIsHolders, ActorsOK
<1>5. actor[g].pc # "connecting"
  BY <1>4 DEF Unleased
<1>6. QED BY <1>1, <1>5 DEF Over

\* The steps of get_or_connect, open_stream and the owners of leases.
LEMMA CallerStepRInv ==
  ASSUME IInv, IInv', RInv, NEW c \in Callers, CallerStep(c)
  PROVE  RInv'
<1> DEFINE k == caller[c]
<1>1. /\ k \in Caller /\ OwnsLease(k) /\ caller \in [Callers -> Caller]
      /\ closed => ~Busy(c)
  BY DEF IInv, CallersOK, RInv, ClosedOK
<1>2. Returned.pc = "ready" /\ Returned.gen = 0 /\ Returned.burned = {}
  BY DEF Returned
<1>3. ASSUME NEW n, caller' = [caller EXCEPT ![c] = n]
      PROVE  caller'[c] = n /\ \A d \in Callers \ {c} : caller'[d] = caller[d]
  BY <1>1, <1>3
<1>4. UNCHANGED <<actor, nextGen>> => Calm
  BY DEF Calm
<1>5. queue' = queue => Says(c)
  BY DEF Says
<1>6. k.pc # "gone" => /\ OnePlace(c) /\ RightPeer(c)
                       /\ k.pc = "invalidating" => Over(actor[k.gen])
                       /\ \A g \in k.burned : Avoids(c, g)
  BY DEF RInv, CallerInv, Placed
<1>7. ASSUME NEW p \in Peers, NEW op \in Ops, Start(c, p, op) PROVE RInv'
  <2> DEFINE n == [Returned EXCEPT !.pc = "sending", !.op = op, !.peer = {p}]
  <2>1. /\ k.pc = "ready" /\ ~closed /\ caller' = [caller EXCEPT ![c] = n]
        /\ pool' = pool \/ pool' = "running"
        /\ UNCHANGED <<closed, queue, connections, nextGen, actor>>
    BY <1>7 DEF Start
  <2>2. n.pc = "sending" /\ n.gen = 0 /\ n.peer = {p} /\ n.burned = {}
    BY DEF Returned
  <2> HIDE DEF n
  <2>3. caller'[c] = n /\ \A d \in Callers \ {c} : caller'[d] = caller[d]
    BY <1>3, <2>1
  <2>4. Calm /\ Says(c)
    BY <1>4, <1>5, <2>1
  <2>5. Frame
    BY <2>1, <2>3, <2>4, CallerFrame
  <2>6. CallerInv(c)'
    BY <2>1, <2>2, <2>3, <2>4, <2>5, StaysUnasked
  <2>7. QED BY <2>1, <2>3, <2>4, <2>5, <2>6, CallerAlone
<1>8. ASSUME NEW t \in {"holding", "invalidating"}, k.pc = "opening",
             caller' = [caller EXCEPT ![c] = [k EXCEPT !.pc = t]], OnlyCaller,
             t = "invalidating" => actor[k.gen].conn # "open"
      PROVE  RInv'
  <2> DEFINE n == [k EXCEPT !.pc = t]
  <2>1. UNCHANGED <<closed, pool, queue, connections, nextGen, actor>>
    BY <1>8 DEF OnlyCaller
  <2>2. n.pc = t /\ n.gen = k.gen /\ n.peer = k.peer /\ n.burned = k.burned
    BY <1>1 DEF Caller
  <2>3. caller' = [caller EXCEPT ![c] = n]
    BY <1>8
  <2> HIDE DEF n
  <2>4. caller'[c] = n /\ \A d \in Callers \ {c} : caller'[d] = caller[d]
    BY <1>3, <2>3
  <2>5. Calm /\ Says(c)
    BY <1>4, <1>5, <2>1
  <2>6. ~closed
    BY <1>1, <1>8 DEF Busy
  <2>7. Frame
    BY <2>1, <2>4, <2>5, <2>6, CallerFrame
  <2>8. k.gen # 0
    BY <1>1, <1>8 DEF OwnsLease
  <2>9. t = "invalidating" => Over(actor[k.gen])
    BY <1>8, <2>8, LeaseStands
  <2>10. RightPeer(c)
    BY <1>6, <1>8
  <2>11. /\ \E p \in Peers : k.peer = {p}
         /\ actor[k.gen].id \in k.peer
    BY <1>8, <2>8, <2>10 DEF RightPeer
  <2>12. CallerInv(c)'
    BY <1>8, <2>1, <2>2, <2>4, <2>5, <2>7, <2>9, <2>11, StaysUnasked
  <2>13. QED BY <1>8, <2>4, <2>5, <2>7, <2>12, CallerAlone
<1>9. CASE OpenBi(c)
  BY <1>8, <1>9 DEF OpenBi
<1>10. CASE OpenBiFails(c)
  BY <1>8, <1>10 DEF OpenBiFails
<1>11. CASE Release(c)
  <2>1. /\ k.pc = "holding" /\ caller' = [caller EXCEPT ![c] = Returned]
        /\ Become(k.gen, Dropped(actor[k.gen]))
        /\ UNCHANGED <<closed, pool, queue, connections, nextGen>>
    BY <1>11 DEF Release
  <2>2. k.gen # 0 /\ k.gen \in Gens
    BY <1>1, <2>1, LeaseStands DEF OwnsLease
  <2>3. caller'[c] = Returned /\ \A d \in Callers \ {c} : caller'[d] = caller[d]
    BY <1>3, <2>1
  <2>4. Calm /\ Says(c)
    BY <1>5, <2>1, <2>2, DropCalm
  <2>5. ~Busy(c)'
    BY <1>2, <2>3 DEF Busy
  <2>6. Frame
    BY <2>1, <2>3, <2>4, <2>5, CallerFrame
  <2>7. CallerInv(c)'
    BY <1>2, <2>1, <2>3, <2>4, <2>6, StaysUnasked
  <2>8. QED BY <2>1, <2>3, <2>4, <2>6, <2>7, CallerAlone
<1>12. CASE Cancel(c)
  <2> DEFINE n == [Returned EXCEPT !.pc = "gone"]
  <2>1. /\ caller' = [caller EXCEPT ![c] = n] /\ nextGen' = nextGen
        /\ UNCHANGED <<closed, pool, queue, connections>>
    BY <1>12 DEF Cancel
  <2>2. n.pc = "gone"
    BY DEF Returned
  <2> HIDE DEF n
  <2>3. caller'[c] = n /\ \A d \in Callers \ {c} : caller'[d] = caller[d]
    BY <1>3, <2>1
  <2>4. Says(c)
    BY <1>5, <2>1
  <2>5. Calm
    <3>1. CASE k.gen = 0
      BY <1>4, <1>12, <2>1, <3>1 DEF Cancel
    <3>2. CASE k.gen # 0
      <4>1. k.gen \in Gens /\ Become(k.gen, Dropped(actor[k.gen]))
        BY <1>12, <3>2, LeaseStands DEF Cancel
      <4>2. QED BY <2>1, <4>1, DropCalm
    <3>3. QED BY <3>1, <3>2
  <2>6. ~Busy(c)'
    BY <2>2, <2>3 DEF Busy
  <2>7. Frame
    BY <2>1, <2>3, <2>4, <2>5, <2>6, CallerFrame
  <2>8. CallerInv(c)'
    BY <2>2, <2>3 DEF CallerInv
  <2>9. QED BY <2>2, <2>3, <2>4, <2>5, <2>7, <2>8, CallerAlone
<1>13. CASE SendRequest(c)
  <2> DEFINE n == [k EXCEPT !.pc = "waiting"]
  <2>1. /\ k.pc = "sending" /\ caller' = [caller EXCEPT ![c] = n]
        /\ UNCHANGED <<closed, pool, connections, nextGen, actor>>
    BY <1>13 DEF SendRequest
  <2>2. n.pc = "waiting" /\ n.gen = k.gen /\ n.peer = k.peer /\ n.burned = k.burned
    BY <1>1 DEF Caller
  <2> HIDE DEF n
  <2>3. caller'[c] = n /\ \A d \in Callers \ {c} : caller'[d] = caller[d]
    BY <1>3, <2>1
  <2>4. PICK p \in k.peer : queue' = Append(queue, RequestMsg(c, p))
    BY <1>13 DEF SendRequest
  <2>5. PICK m : m = RequestMsg(c, p)
    OBVIOUS
  <2>6. m \in Msg /\ m.type = "Request" /\ m.caller = c /\ m.id = p /\ Asks(m, c)
    BY <1>1, <2>4, <2>5 DEF RequestMsg, Msg, Caller, Asks
  <2>7. queue' = Append(queue, m)
    BY <2>4, <2>5
  <2>8. Calm /\ Says(c)
    BY <1>4, <2>1, <2>6, <2>7 DEF Says
  <2>9. ~closed
    BY <1>1, <2>1 DEF Busy
  <2>10. Frame
    BY <2>1, <2>3, <2>8, <2>9, CallerFrame
  <2>11. /\ ~Queued(queue, c)
         /\ \A h \in Gens : ~Boxed(actor[h].mailbox, c) /\ c \notin actor[h].req
    BY <2>1, Unasked
  <2>12. Gens' = Gens /\ actor' = actor
    BY <2>1 DEF Gens
  <2>13. queue \in Seq(Msg) /\ OnePlace(c) /\ QueuedOnce(queue, c) /\ RightPeer(c)
    BY <1>6, <2>1 DEF IInv, PoolTypes, OnePlace
  <2>14. QueuedOnce(queue', c) /\ Queued(queue', c)
    BY <2>6, <2>7, <2>11, <2>13, AppendQueued
  <2>15. OnePlace(c)'
    BY <2>11, <2>12, <2>13, <2>14 DEF OnePlace, Has
  <2>16. RightPeer(c)'
    <3>1. k.gen = 0
      BY <1>1, <2>1 DEF OwnsLease
    <3>2. \E r \in Peers : k.peer = {r}
      BY <2>1, <2>13 DEF RightPeer
    <3>3. /\ Len(queue) \in Nat /\ Len(queue') = Len(queue) + 1 /\ queue'[Len(queue) + 1] = m
          /\ \A i \in 1 .. Len(queue) : queue'[i] = queue[i]
      BY <2>6, <2>7, <2>13, AppendProperties
    <3>4. \A i \in 1 .. Len(queue) : ~Asks(queue[i], c)
      BY <2>11 DEF Queued
    <3>5. \A i \in 1 .. Len(queue') : Asks(queue'[i], c) => queue'[i] = m
      BY <3>3, <3>4
    <3>6. \A i \in 1 .. Len(queue') : Asks(queue'[i], c) => queue'[i].id \in caller'[c].peer
      BY <2>2, <2>3, <2>4, <2>6, <3>5
    <3>7. QED BY <2>2, <2>3, <2>11, <2>12, <3>1, <3>2, <3>6 DEF RightPeer
  <2>17. ASSUME NEW g \in k.burned PROVE Avoids(c, g)'
    <3>1. Avoids(c, g) /\ ~Boxed(actor'[g].mailbox, c)
      BY <1>6, <2>1, <2>12 DEF Avoids
    <3>2. QED BY <2>10, <3>1, AvoidsKept
  <2>18. CallerInv(c)'
    <3>1. Somewhere(c)'
      BY <2>14 DEF Somewhere
    <3>2. QED BY <2>2, <2>3, <2>15, <2>16, <2>17, <3>1 DEF CallerInv, Placed
  <2>19. QED BY <2>1, <2>3, <2>8, <2>10, <2>18, CallerAlone
<1>14. CASE Invalidate(c)
  <2> DEFINE f == [k EXCEPT !.pc = "sending", !.tries = k.tries + 1, !.attempt = 0,
                            !.gen = 0, !.burned = k.burned \cup {k.gen}]
             n == IF k.tries + 1 = Retries THEN Returned ELSE f
  <2>1. /\ k.pc = "invalidating" /\ caller' = [caller EXCEPT ![c] = n]
        /\ Become(k.gen, Dropped(actor[k.gen]))
        /\ UNCHANGED <<closed, pool, connections, nextGen>>
    BY <1>14 DEF Invalidate
  <2>2. f.pc = "sending" /\ f.gen = 0 /\ f.peer = k.peer /\ f.burned = k.burned \cup {k.gen}
    BY <1>1 DEF Caller
  <2>3. n = Returned \/ n = f
    OBVIOUS
  <2> HIDE DEF n, f
  <2>4. caller'[c] = n /\ \A d \in Callers \ {c} : caller'[d] = caller[d]
    BY <1>3, <2>1
  <2>5. PICK g \in Gens : g = k.gen /\ g # 0
    BY <1>1, <2>1, LeaseStands DEF OwnsLease
  <2>6. Calm
    BY <2>1, <2>5, DropCalm
  <2>7. Over(actor[g]) /\ RightPeer(c)
    BY <1>6, <2>1, <2>5
  <2>8. PICK r \in Peers : k.peer = {r}
    BY <2>1, <2>7 DEF RightPeer
  <2>9. actor[g].id = r
    BY <2>5, <2>7, <2>8 DEF RightPeer
  <2>10. PICK m : m = ShutdownMsg(r, g)
    OBVIOUS
  <2>11. queue' = Append(queue, m)
    BY <1>14, <2>5, <2>8, <2>10 DEF Invalidate
  <2>12. m \in Msg /\ m.type = "Shutdown" /\ m.generation = g /\ ~Asks(m, c)
    BY <1>1, <2>5, <2>10 DEF ShutdownMsg, Msg, Caller, Asks
  <2>13. Says(c)
    BY <2>5, <2>7, <2>11, <2>12 DEF Says
  <2>14. ~closed
    BY <1>1, <2>1 DEF Busy
  <2>15. Frame
    BY <2>1, <2>4, <2>6, <2>13, <2>14, CallerFrame
  <2>16. Avoids(c, g)'
    <3>1. Gens' = Gens
      BY <2>6, CalmOK
    <3>2. ~Queued(queue, c) /\ ~Boxed(actor[g].mailbox, c)
      BY <2>1, <2>5, Unasked
    <3>3. actor'[g].id = r /\ ~Boxed(actor'[g].mailbox, c)
      BY <2>5, <2>6, <2>9, <3>2 DEF Calm
    <3>4. queue \in Seq(Msg)
      BY DEF IInv, PoolTypes
    <3>5. Ahead(queue', m, c)
      BY <2>11, <2>12, <3>2, <3>4, AppendAhead
    <3>6. QED BY <2>10, <3>1, <3>3, <3>5 DEF Avoids
  <2>17. CallerInv(c)'
    <3>1. \A h \in caller'[c].burned : h \in caller[c].burned \/ Avoids(c, h)'
      BY <1>2, <2>2, <2>3, <2>4, <2>5, <2>16
    <3>2. caller'[c].pc # "waiting" /\ caller'[c].pc # "invalidating" /\ caller'[c].gen = 0
      BY <1>2, <2>2, <2>3, <2>4
    <3>3. caller'[c].pc # "ready" => \E p \in Peers : caller'[c].peer = {p}
      BY <1>2, <2>2, <2>3, <2>4, <2>8
    <3>4. QED BY <2>1, <2>6, <2>11, <2>12, <2>15, <3>1, <3>2, <3>3, StaysUnasked
  <2>18. QED BY <2>1, <2>4, <2>6, <2>13, <2>15, <2>17, CallerAlone
<1>15. QED
  BY <1>7, <1>9, <1>10, <1>11, <1>12, <1>13, <1>14 DEF CallerStep

\* Dropping the last handle moves no request: nobody has one.
LEMMA CloseRInv ==
  ASSUME IInv, IInv', RInv, Close
  PROVE  RInv'
<1>1. /\ UNCHANGED <<queue, connections, nextGen, caller>> /\ closed'
      /\ \A c \in Callers : ~Busy(c)
  BY DEF Close
<1>2. PICK heard : actor' = [g \in Gens |-> [actor[g] EXCEPT !.wake = g \in heard]]
  BY DEF Close
<1>3. Calm
  <2>1. ASSUME NEW h \in Gens
        PROVE  /\ actor'[h].mailbox = actor[h].mailbox /\ actor'[h].req = actor[h].req
               /\ actor'[h].pc = actor[h].pc /\ actor'[h].id = actor[h].id
               /\ actor'[h].conn = actor[h].conn
    <3>1. actor'[h] = [actor[h] EXCEPT !.wake = h \in heard]
      BY <1>2, Zenon
    <3>2. actor[h] \in Actor
      BY GenFacts
    <3>3. QED BY <3>1, <3>2 DEF Actor
  <2>2. QED BY <1>1, <2>1 DEF Calm
<1>4. Onward /\ \A d : OnePlace(d) => BoxesQuiet(d)
  BY <1>3, CalmOK
<1>5. SlotsOnward /\ SlotIds'
  BY <1>1, <1>4, SlotsKept
<1>6. ClosedOK'
  BY <1>1 DEF ClosedOK, Busy
<1>7. Frame
  BY <1>1, <1>4, <1>5, <1>6 DEF Frame, QueueStep
<1>8. \A c \in Callers : OnePlace(c) => QueueQuiet(c) /\ BoxesQuiet(c)
  BY <1>1, <1>4, QueueSameQuiet DEF OnePlace
<1>9. QED BY <1>1, <1>7, <1>8, QuietStep

-----------------------------------------------------------------------------
(* The invariant of the specification.                                     *)

LEMMA InitRInv == Init => RInv
<1> SUFFICES ASSUME Init PROVE RInv
  OBVIOUS
<1>1. Gens = {} /\ Len(queue) = 0
  BY DEF Init, Gens
<1>2. \A c \in Callers : caller[c] = Returned
  BY DEF Init
<1>3. Returned.pc = "ready" /\ Returned.gen = 0 /\ Returned.burned = {}
  BY DEF Returned
<1>4. ClosedOK /\ SlotIds /\ ShutdownsTrue
  BY <1>1, <1>2, <1>3 DEF Init, ClosedOK, Busy, SlotIds, ShutdownsTrue
<1>5. ASSUME NEW c \in Callers PROVE CallerInv(c)
  <2>1. OnePlace(c) /\ ~Somewhere(c)
    BY <1>1 DEF OnePlace, Somewhere, Queued, QueuedOnce
  <2>2. RightPeer(c)
    BY <1>1, <1>2, <1>3 DEF RightPeer
  <2>3. QED BY <1>2, <1>3, <2>1, <2>2 DEF CallerInv, Placed
<1>6. QED BY <1>4, <1>5 DEF RInv

LEMMA NextRInv ==
  ASSUME IInv, IInv', RInv, [Next]_vars
  PROVE  RInv'
<1>1. CASE PoolStep
  BY <1>1, PoolStepRInv
<1>2. ASSUME NEW g \in Gens, ActorSends(g) \/ ActorMoves(g) \/ Lose(g) PROVE RInv'
  <2>1. CASE ReportFailure(g) \/ ReportIdle(g) \/ ReportDone(g)
    BY <2>1, ActorReportsQuiet
  <2>2. CASE Refused(g)
    BY <2>2, RefusedStep
  <2>3. CASE \/ Connected(g) \/ ConnectFailed(g) \/ SeeShutdown(g) \/ SeeClosed(g)
             \/ Notified(g) \/ IdleExpired(g) \/ Lose(g)
    BY <2>3, ActorMovesQuiet
  <2>4. CASE Serve(g) \/ ServeError(g)
    BY <2>4, ServeStep
  <2>5. CASE Refuse(g)
    BY <2>5, RefuseStep
  <2>6. CASE Exit(g)
    BY <2>6, ExitStep
  <2>7. QED BY <1>2, <2>1, <2>2, <2>3, <2>4, <2>5, <2>6 DEF ActorSends, ActorMoves
<1>3. ASSUME NEW c \in Callers, CallerStep(c) PROVE RInv'
  BY <1>3, CallerStepRInv
<1>4. CASE Close
  BY <1>4, CloseRInv
<1>5. CASE UNCHANGED vars
  <2>1. UNCHANGED <<closed, pool, queue, connections, nextGen, actor, caller>>
    BY <1>5 DEF vars
  <2>2. ClosedOK'
    BY <2>1 DEF RInv, ClosedOK, Busy
  <2>3. QueueStep /\ \A c \in Callers : caller[c].pc # "gone" => QueueQuiet(c)
    BY <2>1, HereWaits, QueueSameQuiet DEF OnePlace, QueueStep
  <2>4. QED BY <2>1, <2>2, <2>3, PoolQuiet
<1>6. QED BY <1>1, <1>2, <1>3, <1>4, <1>5 DEF Next

\* A caller whose future has been dropped has no operation to retry.
GoneClean == \A c \in Callers : caller[c].pc = "gone" => caller[c].burned = {}

LEMMA NextGoneClean ==
  ASSUME IInv, GoneClean, [Next]_vars
  PROVE  GoneClean'
<1> DEFINE Fine(k, n) == n = k \/ n.pc # "gone" \/ n.burned = {}
<1>1. caller \in [Callers -> Caller] /\ \A c \in Callers : caller[c] \in Caller
  BY DEF IInv, CallersOK
<1>2. Returned.pc = "ready"
  BY DEF Returned
<1>3. ASSUME NEW k \in Caller, NEW e, NEW g PROVE Fine(k, Failed(k, e, g)) /\ Fine(k, Leased(k, g))
  <2>1. CASE k.pc # "waiting"
    BY <2>1 DEF Failed, Leased
  <2>2. CASE k.pc = "waiting"
    <3>1. Fine(k, Failed(k, e, g))
      BY <1>2, <2>2, FailedCases
    <3>2. Leased(k, g).pc \in {"opening", "holding"}
      BY <2>2 DEF Leased, Caller
    <3>3. QED BY <3>1, <3>2
  <2>3. QED BY <2>1, <2>2
<1>4. ASSUME NEW x, NEW n, caller' = [caller EXCEPT ![x] = n], x \in Callers => Fine(caller[x], n)
      PROVE  \A c \in Callers : Fine(caller[c], caller'[c])
  BY <1>1, <1>4
<1> SUFFICES \A c \in Callers : Fine(caller[c], caller'[c])
  BY DEF GoneClean
<1> HIDE DEF Fine
<1>5. caller' = caller => \A c \in Callers : Fine(caller[c], caller'[c])
  BY DEF Fine
<1>6. CASE PoolStep
  <2>1. CASE RejectBusy
    <3>1. caller' = [caller EXCEPT ![Head(queue).caller] = Failed(caller[Head(queue).caller], "Busy", 0)]
      BY <2>1 DEF RejectBusy
    <3>2. QED BY <1>1, <1>3, <1>4, <3>1
  <2>2. CASE RejectTooMany
    <3>1. caller' = [caller EXCEPT ![Head(queue).caller] =
                                   Failed(caller[Head(queue).caller], "TooManyConnections", 0)]
      BY <2>2 DEF RejectTooMany
    <3>2. QED BY <1>1, <1>3, <1>4, <3>1
  <2>3. CASE ~RejectBusy /\ ~RejectTooMany
    <3>1. caller' = caller
      BY <1>6, <2>3 DEF PoolStep, Forward, SpawnConnection, EvictAndSpawn, Spawn, HandleIdle,
                        HandleShutdown, PoolStop, PoolJoined
    <3>2. QED BY <1>5, <3>1
  <2>4. QED BY <2>1, <2>2, <2>3
<1>7. ASSUME NEW g \in Gens, ActorSends(g) \/ ActorMoves(g) \/ Lose(g)
      PROVE  \A c \in Callers : Fine(caller[c], caller'[c])
  <2>1. CASE Serve(g)
    <3>1. caller' = [caller EXCEPT ![Head(actor[g].mailbox)] = Leased(caller[Head(actor[g].mailbox)], g)]
      BY <2>1 DEF Serve
    <3>2. QED BY <1>1, <1>3, <1>4, <3>1
  <2>2. CASE ServeError(g)
    <3>1. caller' = [caller EXCEPT ![Head(actor[g].mailbox)] =
                                   Failed(caller[Head(actor[g].mailbox)], "Connect", 0)]
      BY <2>2 DEF ServeError
    <3>2. QED BY <1>1, <1>3, <1>4, <3>1
  <2>3. CASE Refused(g)
    <3>1. \A c \in Callers : caller'[c] = caller[c] \/ caller'[c] = Failed(caller[c], "Closed", g)
      BY <2>3 DEF Refused
    <3>2. QED BY <1>1, <1>3, <3>1 DEF Fine
  <2>4. CASE Exit(g)
    <3>1. \A c \in Callers : caller'[c] = caller[c] \/ caller'[c] = Failed(caller[c], "Shutdown", g)
      BY <2>4 DEF Exit
    <3>2. QED BY <1>1, <1>3, <3>1 DEF Fine
  <2>5. CASE ~Serve(g) /\ ~ServeError(g) /\ ~Refused(g) /\ ~Exit(g)
    <3>1. caller' = caller
      BY <1>7, <2>5 DEF ActorSends, ActorMoves, ReportFailure, ReportIdle, ReportDone, Connected,
                        ConnectFailed, SeeShutdown, SeeClosed, Refuse, Notified, IdleExpired,
                        Lose, OnlyActor
    <3>2. QED BY <1>5, <3>1
  <2>6. QED BY <2>1, <2>2, <2>3, <2>4, <2>5
<1>8. ASSUME NEW d \in Callers, CallerStep(d)
      PROVE  \A c \in Callers : Fine(caller[c], caller'[c])
  <2> DEFINE k == caller[d]
  <2>1. k \in Caller
    BY <1>1
  <2>2. ASSUME NEW n, caller' = [caller EXCEPT ![d] = n], n.pc # "gone" \/ n.burned = {}
        PROVE  \A c \in Callers : Fine(caller[c], caller'[c])
    BY <1>1, <2>2 DEF Fine
  <2>3. ASSUME NEW p \in Peers, NEW op \in Ops, Start(d, p, op)
        PROVE  \A c \in Callers : Fine(caller[c], caller'[c])
    <3> DEFINE n == [Returned EXCEPT !.pc = "sending", !.op = op, !.peer = {p}]
    <3>1. caller' = [caller EXCEPT ![d] = n]
      BY <2>3 DEF Start
    <3>2. n.pc = "sending"
      BY DEF Returned
    <3> HIDE DEF n
    <3>3. QED BY <2>2, <3>1, <3>2
  <2>4. ASSUME NEW t, t # "gone", caller' = [caller EXCEPT ![d] = [k EXCEPT !.pc = t]]
        PROVE  \A c \in Callers : Fine(caller[c], caller'[c])
    <3>1. [k EXCEPT !.pc = t].pc = t
      BY <2>1 DEF Caller
    <3>2. QED BY <2>2, <2>4, <3>1
  <2>5. CASE SendRequest(d) \/ OpenBi(d) \/ OpenBiFails(d)
    BY <2>4, <2>5 DEF SendRequest, OpenBi, OpenBiFails
  <2>6. CASE Invalidate(d)
    <3> DEFINE f == [k EXCEPT !.pc = "sending", !.tries = k.tries + 1, !.attempt = 0,
                              !.gen = 0, !.burned = k.burned \cup {k.gen}]
               n == IF k.tries + 1 = Retries THEN Returned ELSE f
    <3>1. caller' = [caller EXCEPT ![d] = n]
      BY <2>6 DEF Invalidate
    <3>2. f.pc = "sending"
      BY <2>1 DEF Caller
    <3> HIDE DEF f
    <3>3. n.pc # "gone"
      BY <1>2, <3>2
    <3> HIDE DEF n
    <3>4. QED BY <2>2, <3>1, <3>3
  <2>7. CASE Release(d)
    BY <1>2, <2>2, <2>7 DEF Release
  <2>8. CASE Cancel(d)
    <3>1. caller' = [caller EXCEPT ![d] = [Returned EXCEPT !.pc = "gone"]]
      BY <2>8 DEF Cancel
    <3>2. [Returned EXCEPT !.pc = "gone"].burned = {}
      BY DEF Returned
    <3>3. QED BY <2>2, <3>1, <3>2
  <2>9. QED BY <1>8, <2>3, <2>5, <2>6, <2>7, <2>8 DEF CallerStep
<1>9. CASE Close \/ UNCHANGED vars
  <2>1. caller' = caller
    BY <1>9 DEF Close, vars
  <2>2. QED BY <1>5, <2>1
<1>10. QED BY <1>6, <1>7, <1>8, <1>9 DEF Next

\* These invariants hold in every reachable state.
LEMMA InvariantRInv == Spec => [](IInv /\ RInv /\ GoneClean)
<1>1. Init => IInv /\ RInv /\ GoneClean
  BY InitIInv, InitRInv DEF Init, GoneClean, Returned
<1>2. IInv /\ RInv /\ GoneClean /\ [Next]_vars => (IInv /\ RInv /\ GoneClean)'
  BY NextIInv, NextRInv, NextGoneClean
<1>3. QED BY <1>1, <1>2, PTL DEF Spec

-----------------------------------------------------------------------------
(* The theorems about requests.                                            *)

\* No request is lost or answered twice: whatever the interleaving of forwards,
\* refusals, actor exits, evictions, retries and cancellations, the request of a caller
\* that awaits its reply is in exactly one queue, mailbox or refusing actor, and no
\* other live caller has one anywhere.
THEOREM RequestsKept == Spec => []RequestNeverLost
<1>1. ASSUME IInv, RInv PROVE RequestNeverLost
  <2> SUFFICES ASSUME NEW c \in Callers, caller[c].pc # "gone"
               PROVE  /\ caller[c].pc = "waiting" => Cardinality(RequestPlaces(c)) = 1
                      /\ caller[c].pc # "waiting" => RequestPlaces(c) = {}
    BY DEF RequestNeverLost
  <2> DEFINE P == RequestPlaces(c)
  <2>1. OnePlace(c) /\ (caller[c].pc = "waiting" <=> Somewhere(c))
    BY <1>1 DEF RInv, CallerInv, Placed
  <2>2. \A x : x \in P <=>
          \/ \E i \in 1 .. Len(queue) : Asks(queue[i], c) /\ x = <<"queue", i>>
          \/ \E g \in Gens : \E i \in 1 .. Len(actor[g].mailbox) :
               actor[g].mailbox[i] = c /\ x = <<g, i>>
          \/ \E g \in Gens : c \in actor[g].req /\ x = <<g, 0>>
    <3> DEFINE A == {<<"queue", i>> : i \in {j \in 1 .. Len(queue) :
                                        queue[j].type = "Request" /\ queue[j].caller = c}}
               M(g) == {<<g, i>> : i \in {j \in 1 .. Len(actor[g].mailbox) :
                                              actor[g].mailbox[j] = c}}
               B == UNION {M(g) : g \in Gens}
               R == {<<g, 0>> : g \in {h \in Gens : c \in actor[h].req}}
    <3>1. P = A \cup B \cup R
      BY DEF RequestPlaces
    <3>2. \A x : x \in A <=> \E i \in 1 .. Len(queue) : Asks(queue[i], c) /\ x = <<"queue", i>>
      BY DEF Asks
    <3>3. \A x, g : x \in M(g) <=> \E i \in 1 .. Len(actor[g].mailbox) :
                                   actor[g].mailbox[i] = c /\ x = <<g, i>>
      OBVIOUS
    <3>4. \A x : x \in R <=> \E g \in Gens : c \in actor[g].req /\ x = <<g, 0>>
      OBVIOUS
    <3> HIDE DEF A, M, R, P
    <3>5. \A x : x \in B <=> \E g \in Gens : x \in M(g)
      OBVIOUS
    <3> HIDE DEF B
    <3>6. QED BY <3>1, <3>2, <3>3, <3>4, <3>5
  <2> HIDE DEF P
  <2>3. ASSUME ~Somewhere(c) PROVE P = {}
    BY <2>2, <2>3 DEF Somewhere, Queued, Has, Boxed
  <2>4. ASSUME Somewhere(c) PROVE \E x : P = {x}
    <3>1. ASSUME NEW i \in 1 .. Len(queue), Asks(queue[i], c) PROVE \E x : P = {x}
      <4>1. \A g \in Gens : ~Has(g, c)
        BY <2>1, <3>1 DEF OnePlace, Queued
      <4>2. \A j \in 1 .. Len(queue) : Asks(queue[j], c) => j = i
        BY <2>1, <3>1 DEF OnePlace, QueuedOnce
      <4>3. \A x : x \in P <=> x = <<"queue", i>>
        BY <2>2, <3>1, <4>1, <4>2 DEF Has, Boxed
      <4>4. P = {<<"queue", i>>}
        BY <4>3
      <4>5. QED BY <4>4
    <3>2. ASSUME NEW g \in Gens, Has(g, c) PROVE \E x : P = {x}
      <4>1. /\ \A i \in 1 .. Len(queue) : ~Asks(queue[i], c)
            /\ \A h \in Gens : Has(h, c) => h = g
        BY <2>1, <3>2 DEF OnePlace, Queued
      <4>2. ASSUME NEW i \in 1 .. Len(actor[g].mailbox), actor[g].mailbox[i] = c
            PROVE  \E x : P = {x}
        <5>1. c \notin actor[g].req /\ \A j \in 1 .. Len(actor[g].mailbox) : actor[g].mailbox[j] = c => j = i
          BY <2>1, <4>2 DEF OnePlace, Boxed, BoxedOnce
        <5>2. \A x : x \in P <=> x = <<g, i>>
          BY <2>2, <4>1, <4>2, <5>1 DEF Has, Boxed
        <5>3. P = {<<g, i>>}
          BY <5>2
        <5>4. QED BY <5>3
      <4>3. ASSUME c \in actor[g].req PROVE \E x : P = {x}
        <5>1. \A j \in 1 .. Len(actor[g].mailbox) : actor[g].mailbox[j] # c
          BY <2>1, <4>3 DEF OnePlace, Boxed
        <5>2. \A x : x \in P <=> x = <<g, 0>>
          BY <2>2, <4>1, <4>3, <5>1 DEF Has, Boxed
        <5>3. P = {<<g, 0>>}
          BY <5>2
        <5>4. QED BY <5>3
      <4>4. QED BY <3>2, <4>2, <4>3 DEF Has, Boxed
    <3>3. QED BY <2>4, <3>1, <3>2 DEF Somewhere, Queued
  <2>5. \A x : Cardinality({x}) = 1
    BY FS_Singleton
  <2>6. QED BY <2>1, <2>3, <2>4, <2>5 DEF P
<1>2. QED BY <1>1, InvariantRInv, PTL

\* Retries make progress: an operation that was told Closed, or whose stream could not
\* be opened, never finds its request in the mailbox of the same connection again.
THEOREM RetriesMoveOn == Spec => []RetryAvoidsDead
<1>1. ASSUME RInv, GoneClean PROVE RetryAvoidsDead
  <2> SUFFICES ASSUME NEW c \in Callers, NEW g \in caller[c].burned
               PROVE  ~Boxed(actor[g].mailbox, c)
    BY DEF RetryAvoidsDead, Boxed
  <2>1. caller[c].pc # "gone"
    BY <1>1 DEF GoneClean
  <2>2. QED BY <1>1, <2>1 DEF RInv, CallerInv, Avoids
<1>2. QED BY <1>1, InvariantRInv, PTL

-----------------------------------------------------------------------------
(* Induction on a number, for a set.                                       *)

\* A set of numbers has a least element.
LEMMA LeastNat ==
  ASSUME NEW T \in SUBSET Nat, T # {}
  PROVE  \E m \in T : \A k \in T : m <= k
<1> DEFINE R == OpToRel(<, Nat)
<1>1. IsWellFoundedOn(R, Nat)
  BY NatLessThanWellFounded, Zenon
<1>2. \A x, y \in Nat : y < x => <<y, x>> \in R
  BY DEF OpToRel
<1> HIDE DEF R
<1>3. PICK x \in T : \A y \in T : ~ (<<y, x>> \in R)
  BY <1>1, WFMin
<1>4. \A y \in T : ~ (y < x)
  BY <1>2, <1>3
<1>5. \A y \in T : x <= y
  BY <1>4
<1>6. QED BY <1>5

\* A set that has 0 and every successor of its elements has all numbers.
LEMMA NatSetInduction ==
  ASSUME NEW S, 0 \in S, \A n \in Nat : n \in S => n + 1 \in S
  PROVE  Nat \subseteq S
<1> DEFINE T == Nat \ S
<1> SUFFICES ASSUME T # {} PROVE FALSE
  OBVIOUS
<1>1. PICK m \in T : \A k \in T : m <= k
  <2> HIDE DEF T
  <2>1. T \subseteq Nat
    BY DEF T
  <2>2. QED BY <2>1, LeastNat
<1>2. m - 1 \in Nat /\ m - 1 \in S
  BY <1>1
<1>3. QED BY <1>2

-----------------------------------------------------------------------------
(* What remove_idle leaves of the idle list.                               *)

\* g is the function that KeptIdle(p) chooses, on the first n entries.
Scan(g, p, n) ==
  g = [m \in 0 .. n |-> IF m = 0 THEN <<>>
                        ELSE IF idle[m].id = p THEN g[m - 1] ELSE Append(g[m - 1], idle[m])]

LEMMA ScanExists ==
  ASSUME NEW p, Len(idle) \in Nat
  PROVE  \E g : Scan(g, p, Len(idle))
<1> DEFINE T == {n \in Nat : \E g : Scan(g, p, n)}
<1>1. 0 \in T
  <2>1. Scan([m \in 0 .. 0 |-> <<>>], p, 0)
    BY DEF Scan
  <2>2. QED BY <2>1
<1>2. ASSUME NEW n \in Nat, n \in T PROVE n + 1 \in T
  <2>1. PICK g : Scan(g, p, n)
    BY <1>2
  <2> DEFINE h == [m \in 0 .. n + 1 |-> IF m <= n THEN g[m]
                     ELSE IF idle[m].id = p THEN g[m - 1] ELSE Append(g[m - 1], idle[m])]
  <2>2. \A m \in 0 .. n : g[m] = IF m = 0 THEN <<>>
        ELSE IF idle[m].id = p THEN g[m - 1] ELSE Append(g[m - 1], idle[m])
    BY <2>1 DEF Scan
  <2>3. \A m \in 0 .. n + 1 : h[m] = IF m = 0 THEN <<>>
        ELSE IF idle[m].id = p THEN h[m - 1] ELSE Append(h[m - 1], idle[m])
    <3> TAKE m \in 0 .. n + 1
    <3>1. CASE m <= n
      <4>1. m # 0 => m - 1 \in 0 .. n /\ h[m - 1] = g[m - 1]
        BY <3>1
      <4>2. h[m] = g[m]
        BY <3>1
      <4>3. QED BY <4>1, <4>2, <2>2, <3>1
    <3>2. CASE m = n + 1
      <4>1. h[m - 1] = g[m - 1] /\ m # 0
        BY <3>2
      <4> HIDE DEF h
      <4>2. h[m] = IF idle[m].id = p THEN g[m - 1] ELSE Append(g[m - 1], idle[m])
        BY <3>2 DEF h
      <4>3. QED BY <4>1, <4>2
    <3>3. QED BY <3>1, <3>2
  <2>4. Scan(h, p, n + 1)
    <3>1. h = [m \in 0 .. n + 1 |-> h[m]]
      OBVIOUS
    <3> HIDE DEF h
    <3>2. QED BY <2>3, <3>1 DEF Scan
  <2>5. QED BY <2>4
<1>3. Nat \subseteq T
  <2> HIDE DEF T
  <2>1. QED BY <1>1, <1>2, NatSetInduction
<1>4. QED BY <1>3

LEMMA KeptIdleScans ==
  ASSUME NEW p, Len(idle) \in Nat
  PROVE  Scan(KeptIdle(p), p, Len(idle))
<1>1. PICK g : Scan(g, p, Len(idle))
  BY ScanExists
<1>2. g = [n \in 0 .. Len(idle) |->
             IF n = 0 THEN <<>>
             ELSE IF idle[n].id = p THEN g[n - 1] ELSE Append(g[n - 1], idle[n])]
  BY <1>1, Zenon DEF Scan
<1>3. QED BY <1>2, Zenon DEF KeptIdle, Scan

\* What is kept of the first n entries is some of them, in a list of its own, and
\* none of peer p.
Sifted(s, p, n) ==
  /\ s \in Seq(IdleEntry)
  /\ \A i \in 1 .. Len(s) : s[i].id # p /\ \E j \in 1 .. n : s[i] = idle[j]
  /\ IdleDistinct(s)

LEMMA RemoveIdleSifts ==
  ASSUME idle \in Seq(IdleEntry), IdleDistinct(idle), NEW p
  PROVE  Sifted(RemoveIdle(p), p, Len(idle))
<1> DEFINE k == KeptIdle(p)
           T == {n \in Nat : n <= Len(idle) => Sifted(k[n], p, n)}
<1>1. Len(idle) \in Nat
  OBVIOUS
<1>2. \A n \in 0 .. Len(idle) : k[n] = IF n = 0 THEN <<>>
        ELSE IF idle[n].id = p THEN k[n - 1] ELSE Append(k[n - 1], idle[n])
  <2>1. Scan(k, p, Len(idle))
    BY <1>1, KeptIdleScans
  <2> HIDE DEF k
  <2>2. QED BY <2>1 DEF Scan
<1> HIDE DEF k
<1>3. 0 \in T
  <2>1. k[0] = <<>>
    BY <1>1, <1>2
  <2>2. Len(<<>>) = 0 /\ <<>> \in Seq(IdleEntry)
    OBVIOUS
  <2>3. Sifted(<<>>, p, 0)
    BY <2>2 DEF Sifted, IdleDistinct
  <2>4. QED BY <2>1, <2>3
<1>4. ASSUME NEW n \in Nat, n \in T, n + 1 <= Len(idle) PROVE Sifted(k[n + 1], p, n + 1)
  <2> DEFINE s == k[n]
             e == idle[n + 1]
  <2>1. Sifted(s, p, n)
    BY <1>1, <1>4
  <2>2. n + 1 \in 1 .. Len(idle) /\ e \in IdleEntry
    BY <1>1, <1>4
  <2>3. k[n + 1] = IF e.id = p THEN s ELSE Append(s, e)
    BY <1>1, <1>2, <2>2
  <2> HIDE DEF s
  <2>4. \A j \in 1 .. n : j \in 1 .. Len(idle) /\ j \in 1 .. n + 1 /\ j # n + 1
    BY <1>1, <2>2
  <2>5. CASE e.id = p
    BY <2>1, <2>3, <2>4, <2>5 DEF Sifted
  <2>6. CASE e.id # p
    <3> DEFINE r == Append(s, e)
    <3>1. /\ s \in Seq(IdleEntry) /\ IdleDistinct(s)
          /\ \A i \in 1 .. Len(s) : s[i].id # p /\ \E j \in 1 .. n : s[i] = idle[j]
      BY <2>1 DEF Sifted
    <3>2. /\ Len(s) \in Nat /\ Len(r) = Len(s) + 1 /\ r[Len(s) + 1] = e
          /\ \A i \in 1 .. Len(s) : r[i] = s[i]
          /\ r \in Seq(IdleEntry)
      BY <2>2, <3>1, AppendProperties
    <3>3. \A i \in 1 .. Len(s) : s[i].id # e.id
      BY <2>2, <2>4, <3>1 DEF IdleDistinct
    <3> HIDE DEF r, e
    <3>4. IdleDistinct(r)
      BY <3>1, <3>2, <3>3 DEF IdleDistinct
    <3>5. ASSUME NEW i \in 1 .. Len(r)
          PROVE  r[i].id # p /\ \E j \in 1 .. n + 1 : r[i] = idle[j]
      <4>1. CASE i \in 1 .. Len(s)
        BY <2>4, <3>1, <3>2, <4>1
      <4>2. CASE i = Len(s) + 1
        BY <2>6, <3>2, <4>2 DEF e
      <4>3. QED BY <3>2, <4>1, <4>2
    <3>6. Sifted(r, p, n + 1)
      BY <3>2, <3>4, <3>5 DEF Sifted
    <3>7. QED BY <2>3, <2>6, <3>6 DEF r
  <2>7. QED BY <2>5, <2>6
<1>5. \A n \in Nat : n \in T => n + 1 \in T
  BY <1>4
<1>6. Nat \subseteq T
  <2> HIDE DEF T
  <2>1. QED BY <1>3, <1>5, NatSetInduction
<1>7. Sifted(k[Len(idle)], p, Len(idle))
  BY <1>1, <1>6
<1>8. QED BY <1>7 DEF k, RemoveIdle

-----------------------------------------------------------------------------
(* The slot table and the idle list.                                       *)

Slots(table) == {p \in Peers : table[p] # 0}

\* The idle list q is a second index of the slot table.
IdleOK(q, table) ==
  /\ q \in Seq(IdleEntry) /\ IdleDistinct(q)
  /\ \A i \in 1 .. Len(q) : q[i].generation # 0 /\ table[q[i].id] = q[i].generation

LEMMA SlotsInvParts ==
  SlotsInv <=> /\ IdleOK(idle, connections) /\ IsFiniteSet(Slots(connections))
               /\ SlotsUsed(connections) <= MaxConnections
BY DEF SlotsInv, SlotsConsistent, IdleOK, IdleDistinct, Slots

\* A table that has lost slots has fewer of them.
LEMMA FewerSlots ==
  ASSUME NEW f \in [Peers -> Nat], NEW table \in [Peers -> Nat], IsFiniteSet(Slots(f)),
         \A p \in Peers : table[p] = f[p] \/ table[p] = 0
  PROVE  /\ IsFiniteSet(Slots(table)) /\ SlotsUsed(table) \in Nat
         /\ SlotsUsed(f) \in Nat /\ SlotsUsed(table) <= SlotsUsed(f)
<1>1. Slots(table) \in SUBSET Slots(f)
  BY DEF Slots
<1>2. /\ IsFiniteSet(Slots(table)) /\ Cardinality(Slots(table)) <= Cardinality(Slots(f))
  BY <1>1, FS_Subset
<1>3. Cardinality(Slots(table)) \in Nat /\ Cardinality(Slots(f)) \in Nat
  BY <1>2, FS_CardinalityType
<1>4. SlotsUsed(table) = Cardinality(Slots(table)) /\ SlotsUsed(f) = Cardinality(Slots(f))
  BY DEF SlotsUsed, Slots
<1>5. QED BY <1>2, <1>3, <1>4

\* A new slot counts for one at most, a slot that is emptied for one.
LEMMA OneSlotMore ==
  ASSUME NEW table \in [Peers -> Nat], IsFiniteSet(Slots(table)), NEW p \in Peers, NEW g \in Nat \ {0}
  PROVE  /\ IsFiniteSet(Slots([table EXCEPT ![p] = g]))
         /\ SlotsUsed([table EXCEPT ![p] = g]) <= SlotsUsed(table) + 1
<1> DEFINE t == [table EXCEPT ![p] = g]
<1>1. Slots(t) = Slots(table) \cup {p}
  BY DEF Slots
<1>2. Cardinality(Slots(table)) \in Nat
  BY FS_CardinalityType
<1>3. /\ IsFiniteSet(Slots(table) \cup {p})
      /\ Cardinality(Slots(table) \cup {p}) <= Cardinality(Slots(table)) + 1
  <2>1. /\ IsFiniteSet(Slots(table) \cup {p})
        /\ Cardinality(Slots(table) \cup {p}) =
             IF p \in Slots(table) THEN Cardinality(Slots(table)) ELSE Cardinality(Slots(table)) + 1
    BY FS_AddElement
  <2>2. QED BY <1>2, <2>1
<1>4. SlotsUsed(table) = Cardinality(Slots(table)) /\ SlotsUsed(t) = Cardinality(Slots(t))
  BY DEF SlotsUsed, Slots
<1>5. QED BY <1>1, <1>3, <1>4

LEMMA OneSlotLess ==
  ASSUME NEW table \in [Peers -> Nat], IsFiniteSet(Slots(table)), NEW p \in Peers, table[p] # 0
  PROVE  /\ IsFiniteSet(Slots([table EXCEPT ![p] = 0]))
         /\ SlotsUsed([table EXCEPT ![p] = 0]) = SlotsUsed(table) - 1
<1> DEFINE t == [table EXCEPT ![p] = 0]
<1>1. Slots(t) = Slots(table) \ {p} /\ p \in Slots(table)
  BY DEF Slots
<1>2. /\ IsFiniteSet(Slots(table) \ {p})
      /\ Cardinality(Slots(table) \ {p}) = Cardinality(Slots(table)) - 1
  BY <1>1, FS_RemoveElement
<1>3. SlotsUsed(table) = Cardinality(Slots(table)) /\ SlotsUsed(t) = Cardinality(Slots(t))
  BY DEF SlotsUsed, Slots
<1>4. QED BY <1>1, <1>2, <1>3

\* remove_idle(p) leaves an index of any table that differs from this one at p only.
LEMMA RemoveIdleOK ==
  ASSUME IdleOK(idle, connections), NEW p, NEW table,
         \A r \in Peers \ {p} : table[r] = connections[r]
  PROVE  /\ IdleOK(RemoveIdle(p), table)
         /\ \A i \in 1 .. Len(RemoveIdle(p)) :
              RemoveIdle(p)[i].id # p /\ \E j \in 1 .. Len(idle) : RemoveIdle(p)[i] = idle[j]
<1> DEFINE q == RemoveIdle(p)
<1>1. Sifted(q, p, Len(idle))
  BY RemoveIdleSifts DEF IdleOK
<1> HIDE DEF q
<1>2. /\ q \in Seq(IdleEntry) /\ IdleDistinct(q)
      /\ \A i \in 1 .. Len(q) : q[i].id # p /\ \E j \in 1 .. Len(idle) : q[i] = idle[j]
  BY <1>1 DEF Sifted
<1>3. ASSUME NEW i \in 1 .. Len(q) PROVE q[i].generation # 0 /\ table[q[i].id] = q[i].generation
  <2>1. PICK j \in 1 .. Len(idle) : q[i] = idle[j]
    BY <1>2
  <2>2. q[i] \in IdleEntry
    BY <1>2
  <2>3. q[i].id \in Peers \ {p}
    BY <1>2, <2>2 DEF IdleEntry
  <2>4. QED BY <2>1, <2>3 DEF IdleOK
<1>4. QED BY <1>2, <1>3 DEF IdleOK, q

\* The empty list is an index of any table.
LEMMA NoIdleOK == \A table : IdleOK(<<>>, table)
<1>1. <<>> \in Seq(IdleEntry) /\ Len(<<>>) = 0
  OBVIOUS
<1>2. QED BY <1>1 DEF IdleOK, IdleDistinct

\* The entry that evict_idle_connection takes.
LEMMA FirstEvictable ==
  ASSUME NEW table, NEW q \in Seq(IdleEntry), Evictable(table, q) # {}
  PROVE  /\ FirstOf(Evictable(table, q)) \in 1 .. Len(q)
         /\ table[q[FirstOf(Evictable(table, q))].id] = q[FirstOf(Evictable(table, q))].generation
<1> DEFINE S == Evictable(table, q)
<1>1. S \in SUBSET Nat /\ S # {}
  BY DEF Evictable
<1> HIDE DEF S
<1>2. \E i \in S : \A j \in S : i <= j
  BY <1>1, LeastNat
<1>3. FirstOf(S) \in S
  BY <1>2, Zenon DEF FirstOf
<1>4. FirstOf(S) \in {i \in 1 .. Len(q) : table[q[i].id] = q[i].generation}
  BY <1>3 DEF S, Evictable
<1>5. QED BY <1>4 DEF S

\* What is left of an index behind its i-th entry, when that entry's slot is emptied
\* and a peer that is not in the list gets a slot.
LEMMA EvictedIdleOK ==
  ASSUME NEW table \in [Peers -> Nat], NEW q, IdleOK(q, table), NEW i \in 1 .. Len(q),
         NEW p \in Peers, \A j \in 1 .. Len(q) : q[j].id # p, NEW g
  PROVE  IdleOK(SubSeq(q, i + 1, Len(q)), [[table EXCEPT ![q[i].id] = 0] EXCEPT ![p] = g])
<1> DEFINE s == SubSeq(q, i + 1, Len(q))
           t == [[table EXCEPT ![q[i].id] = 0] EXCEPT ![p] = g]
<1>1. /\ q \in Seq(IdleEntry) /\ IdleDistinct(q) /\ Len(q) \in Nat
      /\ \A j \in 1 .. Len(q) : q[j].generation # 0 /\ table[q[j].id] = q[j].generation
      /\ \A j \in 1 .. Len(q) : q[j] \in IdleEntry /\ q[j].id \in Peers
  <2>1. q \in Seq(IdleEntry)
    BY DEF IdleOK
  <2>2. Len(q) \in Nat /\ \A j \in 1 .. Len(q) : q[j] \in IdleEntry
    BY <2>1
  <2>3. \A e \in IdleEntry : e.id \in Peers
    BY DEF IdleEntry
  <2>4. QED BY <2>1, <2>2, <2>3 DEF IdleOK
<1>2. /\ s \in Seq(IdleEntry)
      /\ Len(s) = Len(q) - i /\ \A j \in 1 .. Len(q) - i : s[j] = q[i + j]
  <2>1. \A j \in i + 1 .. Len(q) : q[j] \in IdleEntry
    BY <1>1
  <2>2. /\ s \in Seq(IdleEntry)
        /\ Len(s) = IF i + 1 <= Len(q) THEN Len(q) - (i + 1) + 1 ELSE 0
        /\ \A j \in 1 .. Len(q) - (i + 1) + 1 : s[j] = q[(i + 1) + j - 1]
    BY <1>1, <2>1, SubSeqProperties
  <2> HIDE DEF s
  <2>3. \A j \in 1 .. Len(q) - i : (i + 1) + j - 1 = i + j /\ j \in 1 .. Len(q) - (i + 1) + 1
    BY <1>1
  <2>4. Len(s) = Len(q) - i
    <3>1. i + 1 <= Len(q) \/ i = Len(q)
      BY <1>1
    <3>2. QED BY <1>1, <2>2, <3>1
  <2>5. \A j \in 1 .. Len(q) - i : s[j] = q[i + j]
    BY <2>2, <2>3, Zenon
  <2>6. QED BY <2>2, <2>4, <2>5
<1>3. \A r \in Peers : r # q[i].id /\ r # p => t[r] = table[r]
  OBVIOUS
<1> HIDE DEF s, t
<1>4. \A j \in 1 .. Len(s) : i + j \in 1 .. Len(q) /\ i + j # i /\ s[j] = q[i + j]
  BY <1>1, <1>2
<1>5. IdleDistinct(s)
  <2> SUFFICES ASSUME NEW x \in 1 .. Len(s), NEW y \in 1 .. Len(s), s[x].id = s[y].id PROVE x = y
    BY DEF IdleDistinct
  <2>1. i + x \in 1 .. Len(q) /\ i + y \in 1 .. Len(q) /\ q[i + x].id = q[i + y].id
    BY <1>4
  <2>2. i + x = i + y
    BY <1>1, <2>1 DEF IdleDistinct
  <2>3. x \in Nat /\ y \in Nat /\ i \in Nat
    BY <1>2
  <2>4. QED BY <2>2, <2>3
<1>6. ASSUME NEW j \in 1 .. Len(s) PROVE s[j].generation # 0 /\ t[s[j].id] = s[j].generation
  <2>1. PICK n \in 1 .. Len(q) : n # i /\ s[j] = q[n]
    BY <1>4
  <2>2. q[n].id \in Peers /\ q[n].id # q[i].id /\ q[n].id # p
    BY <1>1, <2>1 DEF IdleDistinct
  <2>3. QED BY <1>1, <1>3, <2>1, <2>2
<1>7. QED BY <1>2, <1>5, <1>6 DEF IdleOK, s, t

\* What Pruned(p) does, when it is asked for a slot that is not open.
LEMMA PrunedOK ==
  ASSUME IInv, NEW p \in Peers
  PROVE  /\ Pruned(p) \in [Peers -> Nat]
         /\ \A r \in Peers \ {p} : Pruned(p)[r] = connections[r]
         /\ \A r \in Peers : Pruned(p)[r] = connections[r] \/ Pruned(p)[r] = 0
BY DEF Pruned, IInv, PoolTypes

\* Only the pool actor touches the slot table and the idle list.
LEMMA OnlyPool ==
  ASSUME [Next]_vars, ~PoolStep
  PROVE  UNCHANGED <<connections, idle>>
<1>1. ASSUME NEW g \in Gens, ActorSends(g) \/ ActorMoves(g) \/ Lose(g)
      PROVE  UNCHANGED <<connections, idle>>
  BY <1>1 DEF ActorSends, ActorMoves, ReportFailure, Refused, ReportIdle, ReportDone, Connected,
              ConnectFailed, SeeShutdown, SeeClosed, Serve, ServeError, Refuse, Notified,
              IdleExpired, Exit, Lose, OnlyActor
<1>2. ASSUME NEW c \in Callers, CallerStep(c) PROVE UNCHANGED <<connections, idle>>
  BY <1>2 DEF CallerStep, Start, SendRequest, OpenBi, OpenBiFails, Invalidate, Release, Cancel,
              OnlyCaller
<1>3. CASE Close \/ UNCHANGED vars
  BY <1>3 DEF Close, vars
<1>4. QED BY <1>1, <1>2, <1>3 DEF Next

\* A new slot within the limit, behind the eviction of an idle one or not.
LEMMA SpawnSlots ==
  ASSUME IInv, NEW m, m.id \in Peers, NEW table \in [Peers -> Nat], NEW q, Spawn(m, table, q),
         IsFiniteSet(Slots(table)), SlotsUsed(table) \in Nat, SlotsUsed(table) < MaxConnections,
         IdleOK(q, [table EXCEPT ![m.id] = nextGen])
  PROVE  SlotsInv'
<1>1. connections' = [table EXCEPT ![m.id] = nextGen] /\ idle' = q
  BY DEF Spawn
<1>2. nextGen \in Nat \ {0} /\ MaxConnections \in Nat
  BY BoundsAssumption DEF IInv, PoolTypes
<1>3. IsFiniteSet(Slots(connections')) /\ SlotsUsed(connections') <= SlotsUsed(table) + 1
  BY <1>1, <1>2, OneSlotMore
<1>4. SlotsUsed(connections') \in Nat
  BY <1>3, FS_CardinalityType DEF SlotsUsed, Slots
<1>5. SlotsUsed(connections') <= MaxConnections
  BY <1>2, <1>3, <1>4
<1>6. IdleOK(idle', connections')
  BY <1>1
<1>7. QED BY <1>3, <1>5, <1>6, SlotsInvParts DEF SlotsInv, SlotsConsistent, IdleOK, IdleDistinct, Slots

\* What EvictAndSpawn does to the table and the idle list.
LEMMA EvictFacts ==
  ASSUME IInv, SlotsInv, EvictAndSpawn
  PROVE  \E table \in [Peers -> Nat], q \in Seq(IdleEntry), i \in Nat :
           /\ Head(queue).id \in Peers /\ ~SlotOpen(Head(queue).id)
           /\ table = Pruned(Head(queue).id) /\ AtLimit(table)
           /\ IdleOK(q, table) /\ i \in 1 .. Len(q)
           /\ \A j \in 1 .. Len(q) : /\ q[j].id # Head(queue).id
                                     /\ \E n \in 1 .. Len(idle) : q[j] = idle[n]
           /\ Spawn(Head(queue), [table EXCEPT ![q[i].id] = 0], SubSeq(q, i + 1, Len(q)))
<1> DEFINE m == Head(queue)
           table == Pruned(m.id)
           q == RemoveIdle(m.id)
           i == FirstOf(Evictable(table, q))
<1>1. /\ m.id \in Peers /\ ~SlotOpen(m.id) /\ AtLimit(table) /\ Evictable(table, q) # {}
      /\ Spawn(m, [table EXCEPT ![q[i].id] = 0], SubSeq(q, i + 1, Len(q)))
  BY HandlingOK DEF EvictAndSpawn
<1>2. table \in [Peers -> Nat] /\ \A r \in Peers \ {m.id} : table[r] = connections[r]
  BY <1>1, PrunedOK
<1>3. IdleOK(idle, connections)
  BY SlotsInvParts
<1> HIDE DEF m, table
<1>4. /\ IdleOK(q, table)
      /\ \A j \in 1 .. Len(q) : q[j].id # m.id /\ \E n \in 1 .. Len(idle) : q[j] = idle[n]
  BY <1>2, <1>3, RemoveIdleOK
<1> HIDE DEF q
<1>5. q \in Seq(IdleEntry)
  BY <1>4 DEF IdleOK
<1>6. i \in 1 .. Len(q)
  BY <1>1, <1>5, FirstEvictable
<1>7. i \in Nat
  BY <1>5, <1>6
<1> HIDE DEF i
<1>8. QED BY <1>1, <1>2, <1>4, <1>5, <1>6, <1>7 DEF m, table

LEMMA NextSlotsInv ==
  ASSUME IInv, SlotsInv, [Next]_vars
  PROVE  SlotsInv'
<1> DEFINE m == Head(queue)
           f == connections
<1>1. /\ f \in [Peers -> Nat] /\ IdleOK(idle, f) /\ IsFiniteSet(Slots(f))
      /\ SlotsUsed(f) <= MaxConnections /\ MaxConnections \in Nat
  BY SlotsInvParts, BoundsAssumption DEF IInv, PoolTypes
<1>2. ASSUME IdleOK(idle', connections'), connections' \in [Peers -> Nat],
             \A p \in Peers : connections'[p] = f[p] \/ connections'[p] = 0
      PROVE  SlotsInv'
  <2>1. /\ IsFiniteSet(Slots(connections')) /\ SlotsUsed(connections') \in Nat
        /\ SlotsUsed(f) \in Nat /\ SlotsUsed(connections') <= SlotsUsed(f)
    BY <1>1, <1>2, FewerSlots
  <2>2. SlotsUsed(connections') <= MaxConnections
    BY <1>1, <2>1
  <2>3. QED BY <1>2, <2>1, <2>2 DEF SlotsInv, SlotsConsistent, IdleOK, IdleDistinct, Slots
<1>3. CASE Forward \/ RejectBusy
  <2>1. idle' = RemoveIdle(m.id) /\ connections' = f
    BY <1>3 DEF Forward, RejectBusy
  <2>2. IdleOK(RemoveIdle(m.id), f)
    BY <1>1, RemoveIdleOK
  <2>3. QED BY <1>1, <1>2, <2>1, <2>2
<1>4. CASE RejectTooMany
  <2>1. idle' = <<>> /\ connections' = Pruned(m.id) /\ m.id \in Peers
    BY <1>4, HandlingOK DEF RejectTooMany
  <2>2. QED BY <1>2, <2>1, PrunedOK, NoIdleOK
<1>5. CASE SpawnConnection
  <2> DEFINE table == Pruned(m.id)
             q == RemoveIdle(m.id)
  <2>1. Spawn(m, table, q) /\ m.id \in Peers /\ ~AtLimit(table)
    BY <1>5, HandlingOK DEF SpawnConnection
  <2>2. /\ table \in [Peers -> Nat] /\ \A r \in Peers \ {m.id} : table[r] = f[r]
        /\ \A r \in Peers : table[r] = f[r] \/ table[r] = 0
    BY <2>1, PrunedOK
  <2> HIDE DEF table, m
  <2>3. IsFiniteSet(Slots(table)) /\ SlotsUsed(table) \in Nat
    BY <1>1, <2>2, FewerSlots
  <2>4. SlotsUsed(table) < MaxConnections
    BY <1>1, <2>1, <2>3 DEF AtLimit
  <2> DEFINE t == [table EXCEPT ![m.id] = nextGen]
  <2>5. \A r \in Peers \ {m.id} : t[r] = f[r]
    BY <2>2
  <2> HIDE DEF t
  <2>6. IdleOK(q, t)
    BY <1>1, <2>5, RemoveIdleOK
  <2> HIDE DEF q
  <2>7. QED BY <2>1, <2>2, <2>3, <2>4, <2>6, SpawnSlots DEF t
<1>6. CASE EvictAndSpawn
  <2>1. PICK table \in [Peers -> Nat], q \in Seq(IdleEntry), i \in Nat :
           /\ m.id \in Peers /\ ~SlotOpen(m.id)
           /\ table = Pruned(m.id) /\ AtLimit(table)
           /\ IdleOK(q, table) /\ i \in 1 .. Len(q)
           /\ \A j \in 1 .. Len(q) : q[j].id # m.id
           /\ Spawn(m, [table EXCEPT ![q[i].id] = 0], SubSeq(q, i + 1, Len(q)))
    BY <1>6, EvictFacts
  <2> DEFINE t == [table EXCEPT ![q[i].id] = 0]
  <2>2. \A r \in Peers : table[r] = f[r] \/ table[r] = 0
    BY <2>1, PrunedOK
  <2>3. /\ IsFiniteSet(Slots(table)) /\ SlotsUsed(table) \in Nat
        /\ SlotsUsed(f) \in Nat /\ SlotsUsed(table) <= SlotsUsed(f)
    BY <1>1, <2>2, FewerSlots
  <2>4. q[i] \in IdleEntry
    BY <2>1
  <2>5. q[i].id \in Peers /\ table[q[i].id] # 0
    BY <2>1, <2>4 DEF IdleOK, IdleEntry
  <2>6. IsFiniteSet(Slots(t)) /\ SlotsUsed(t) = SlotsUsed(table) - 1
    BY <2>3, <2>5, OneSlotLess
  <2>7. SlotsUsed(t) \in Nat
    BY <2>6, FS_CardinalityType DEF SlotsUsed, Slots
  <2>8. SlotsUsed(t) < MaxConnections
    BY <1>1, <2>3, <2>6, <2>7
  <2>9. IdleOK(SubSeq(q, i + 1, Len(q)), [t EXCEPT ![m.id] = nextGen])
    BY <2>1, EvictedIdleOK
  <2>10. t \in [Peers -> Nat]
    OBVIOUS
  <2>11. Spawn(m, t, SubSeq(q, i + 1, Len(q))) /\ m.id \in Peers
    BY <2>1
  <2> HIDE DEF t, m
  <2>12. QED BY <2>6, <2>7, <2>8, <2>9, <2>10, <2>11, SpawnSlots
<1>7. CASE HandleIdle
  <2>1. /\ connections' = f /\ m.id \in Peers /\ m.generation \in Nat
        /\ idle' = IF MatchesGeneration(m.id, m.generation) THEN AddIdle(m.id, m.generation) ELSE idle
    BY <1>7, HandlingOK DEF HandleIdle
  <2>2. CASE ~MatchesGeneration(m.id, m.generation)
    BY <1>1, <1>2, <2>1, <2>2
  <2>3. CASE MatchesGeneration(m.id, m.generation)
    <3> DEFINE q == RemoveIdle(m.id)
               e == [id |-> m.id, generation |-> m.generation]
               r == Append(q, e)
    <3>1. f[m.id] = m.generation /\ m.generation # 0 /\ idle' = r
      BY <2>1, <2>3 DEF MatchesGeneration, AddIdle
    <3>2. IdleOK(q, f) /\ \A i \in 1 .. Len(q) : q[i].id # m.id
      BY <1>1, RemoveIdleOK
    <3> HIDE DEF q
    <3>3. e \in IdleEntry /\ e.id = m.id /\ e.generation = m.generation
      BY <2>1 DEF IdleEntry
    <3> HIDE DEF e
    <3>4. /\ q \in Seq(IdleEntry) /\ IdleDistinct(q)
          /\ \A i \in 1 .. Len(q) : q[i].generation # 0 /\ f[q[i].id] = q[i].generation
      BY <3>2 DEF IdleOK
    <3>5. /\ Len(q) \in Nat /\ Len(r) = Len(q) + 1 /\ r[Len(q) + 1] = e
          /\ \A i \in 1 .. Len(q) : r[i] = q[i]
          /\ r \in Seq(IdleEntry)
      BY <3>3, <3>4, AppendProperties
    <3> HIDE DEF r
    <3>6. \A i \in 1 .. Len(r) : i \in 1 .. Len(q) \/ i = Len(q) + 1
      BY <3>5
    <3>7. IdleDistinct(r)
      BY <3>2, <3>3, <3>4, <3>5, <3>6 DEF IdleDistinct
    <3>8. \A i \in 1 .. Len(r) : r[i].generation # 0 /\ f[r[i].id] = r[i].generation
      BY <3>1, <3>3, <3>4, <3>5, <3>6
    <3>9. IdleOK(r, f)
      BY <3>5, <3>7, <3>8 DEF IdleOK
    <3>10. QED BY <1>1, <1>2, <2>1, <3>1, <3>9
  <2>4. QED BY <2>2, <2>3
<1>8. CASE HandleShutdown
  <2>1. m.id \in Peers /\ RemoveConnectionIfMatch(m.id, m.generation)
    BY <1>8, HandlingOK DEF HandleShutdown
  <2>2. CASE UNCHANGED <<connections, idle>>
    BY <1>1, <1>2, <2>2
  <2>3. CASE connections' = [f EXCEPT ![m.id] = 0] /\ idle' = RemoveIdle(m.id)
    <3>1. \A r \in Peers \ {m.id} : connections'[r] = f[r]
      BY <1>1, <2>3
    <3>2. IdleOK(idle', connections')
      BY <1>1, <2>3, <3>1, RemoveIdleOK
    <3>3. QED BY <1>1, <1>2, <2>1, <2>3, <3>2
  <2>4. QED BY <2>1, <2>2, <2>3 DEF RemoveConnectionIfMatch
<1>9. CASE PoolStop
  <2>1. idle' = <<>> /\ connections' = [p \in Peers |-> 0]
    BY <1>9 DEF PoolStop
  <2>2. QED BY <1>2, <2>1, NoIdleOK
<1>10. CASE PoolJoined \/ ~PoolStep
  <2>1. UNCHANGED <<connections, idle>>
    BY <1>10, OnlyPool DEF PoolJoined
  <2>2. QED BY <1>1, <1>2, <2>1
<1>11. QED BY <1>3, <1>4, <1>5, <1>6, <1>7, <1>8, <1>9, <1>10 DEF PoolStep

LEMMA InitSlotsInv == Init => SlotsInv
<1> SUFFICES ASSUME Init PROVE SlotsInv
  OBVIOUS
<1>1. Slots(connections) = {}
  BY DEF Init, Slots
<1>2. IsFiniteSet(Slots(connections)) /\ Cardinality(Slots(connections)) = 0
  BY <1>1, FS_EmptySet
<1>3. SlotsUsed(connections) <= MaxConnections
  BY <1>2, BoundsAssumption DEF SlotsUsed, Slots
<1>4. IdleOK(idle, connections)
  BY NoIdleOK DEF Init
<1>5. QED BY <1>2, <1>3, <1>4, SlotsInvParts

LEMMA InvariantSlots == Spec => [](IInv /\ SlotsInv)
<1>1. Init => IInv /\ SlotsInv
  BY InitIInv, InitSlotsInv
<1>2. IInv /\ SlotsInv /\ [Next]_vars => (IInv /\ SlotsInv)'
  BY NextIInv, NextSlotsInv
<1>3. QED BY <1>1, <1>2, PTL DEF Spec

-----------------------------------------------------------------------------
(* The theorems about slots.                                               *)

\* The types of the pool actor's, the connection actors' and the callers' state, the
\* idle list that remove_idle and add_idle rebuild included.
THEOREM TypeCorrect == Spec => []TypeOK
<1>1. IInv /\ SlotsInv => TypeOK
  BY DEF IInv, PoolTypes, ActorsOK, CallersOK, SlotsInv, TypeOK
<1>2. QED BY <1>1, InvariantSlots, PTL

\* The slot table stays within max_connections and the idle list is an exact second
\* index of it, however forwards, evictions, late Idle and Shutdown messages and
\* replaced slots follow each other.
THEOREM SlotsAgree == Spec => []SlotsConsistent
<1>1. SlotsInv => SlotsConsistent
  BY DEF SlotsInv
<1>2. QED BY <1>1, InvariantSlots, PTL

\* A step that takes a slot away from its generation has a reason.
LEMMA LossHasReason ==
  ASSUME IInv, RInv, SlotsInv, [Next]_vars, NEW p \in Peers, NEW g, g = connections[p],
         g # 0, connections'[p] # g, pool' # "draining"
  PROVE  \/ actor[g].conn # "open"
         \/ actor[g].pc \in {"exit", "stopped"}
         \/ /\ \E i \in 1 .. Len(idle) : idle[i] = [id |-> p, generation |-> g]
            /\ nextGen' = nextGen + 1 /\ AtLimit(connections)
<1> DEFINE m == Head(queue)
<1>1. connections \in [Peers -> Nat]
  BY DEF IInv, PoolTypes
<1>2. ASSUME p = m.id, ~SlotOpen(m.id) PROVE actor[g].pc = "stopped"
  BY <1>2 DEF SlotOpen
<1>3. CASE Forward \/ RejectBusy \/ HandleIdle \/ PoolJoined \/ ~PoolStep
  BY <1>3, OnlyPool DEF Forward, RejectBusy, HandleIdle, PoolJoined
<1>4. CASE RejectTooMany
  <2>1. connections' = Pruned(m.id) /\ m.id \in Peers /\ ~SlotOpen(m.id)
    BY <1>4, HandlingOK DEF RejectTooMany
  <2>2. p = m.id
    BY <2>1, PrunedOK
  <2>3. QED BY <1>2, <2>1, <2>2
<1>5. CASE SpawnConnection
  <2>1. connections' = [Pruned(m.id) EXCEPT ![m.id] = nextGen] /\ m.id \in Peers /\ ~SlotOpen(m.id)
    BY <1>5, HandlingOK DEF SpawnConnection, Spawn
  <2>2. p = m.id
    BY <2>1, PrunedOK
  <2>3. QED BY <1>2, <2>1, <2>2
<1>6. CASE EvictAndSpawn
  <2>1. PICK table \in [Peers -> Nat], q \in Seq(IdleEntry), i \in Nat :
           /\ m.id \in Peers /\ ~SlotOpen(m.id)
           /\ table = Pruned(m.id) /\ AtLimit(table)
           /\ IdleOK(q, table) /\ i \in 1 .. Len(q)
           /\ \A j \in 1 .. Len(q) : /\ q[j].id # m.id
                                     /\ \E n \in 1 .. Len(idle) : q[j] = idle[n]
           /\ Spawn(m, [table EXCEPT ![q[i].id] = 0], SubSeq(q, i + 1, Len(q)))
    BY <1>6, EvictFacts
  <2>2. CASE p = m.id
    BY <1>2, <2>1, <2>2
  <2>3. CASE p # m.id
    <3>1. table[p] = g
      BY <2>1, <2>3, PrunedOK
    <3>2. /\ connections' = [[table EXCEPT ![q[i].id] = 0] EXCEPT ![m.id] = nextGen]
          /\ nextGen' = nextGen + 1
      BY <2>1 DEF Spawn
    <3>3. q[i].id = p
      BY <2>3, <3>1, <3>2
    <3>4. q[i] \in IdleEntry /\ q[i].generation = g
      BY <2>1, <3>1, <3>3 DEF IdleOK
    <3>5. q[i] = [id |-> p, generation |-> g]
      BY <3>3, <3>4 DEF IdleEntry
    <3>6. \E n \in 1 .. Len(idle) : idle[n] = [id |-> p, generation |-> g]
      BY <2>1, <3>5
    <3>7. AtLimit(connections)
      <4>1. \A r \in Peers : table[r] = connections[r] \/ table[r] = 0
        BY <2>1, PrunedOK
      <4>2. IsFiniteSet(Slots(connections)) /\ MaxConnections \in Nat
        BY SlotsInvParts, BoundsAssumption
      <4>3. /\ SlotsUsed(table) \in Nat /\ SlotsUsed(connections) \in Nat
            /\ SlotsUsed(table) <= SlotsUsed(connections)
        BY <1>1, <4>1, <4>2, FewerSlots
      <4>4. QED BY <2>1, <4>2, <4>3 DEF AtLimit
    <3>8. QED BY <3>2, <3>6, <3>7
  <2>4. QED BY <2>2, <2>3
<1>7. CASE HandleShutdown
  <2>1. /\ m.id \in Peers /\ RemoveConnectionIfMatch(m.id, m.generation)
        /\ queue # <<>> /\ m.type = "Shutdown" /\ queue \in Seq(Msg)
    BY <1>7, HandlingOK DEF HandleShutdown, Handling, IInv, PoolTypes
  <2>2. p = m.id /\ g = m.generation
    BY <1>1, <2>1 DEF RemoveConnectionIfMatch, MatchesGeneration
  <2>3. m = queue[1] /\ 1 \in 1 .. Len(queue)
    BY <2>1, EmptySeq
  <2>4. Over(actor[m.generation])
    BY <2>1, <2>3 DEF RInv, ShutdownsTrue
  <2>5. QED BY <2>2, <2>4 DEF Over
<1>8. CASE PoolStop
  BY <1>8 DEF PoolStop
<1>9. QED BY <1>3, <1>4, <1>5, <1>6, <1>7, <1>8 DEF PoolStep

\* A live connection that is not idle keeps its slot: a slot is emptied or reused only
\* when its connection is over, or when it was idle and the table was full.  A Shutdown
\* message that arrives late never hits the connection that replaced its own.
THEOREM SlotsLostForAReason == Spec => SlotLossJustified
<1>1. ASSUME IInv, RInv, SlotsInv, [Next]_vars, NEW p \in Peers
      PROVE  LET g == connections[p]
             IN  g # 0 /\ connections'[p] # g /\ pool' # "draining" =>
                   \/ actor[g].conn # "open"
                   \/ actor[g].pc \in {"exit", "stopped"}
                   \/ /\ \E i \in 1 .. Len(idle) : idle[i] = [id |-> p, generation |-> g]
                      /\ nextGen' = nextGen + 1 /\ AtLimit(connections)
  BY <1>1, LossHasReason
<1>2. IInv /\ RInv /\ SlotsInv /\ [Next]_vars =>
        \A p \in Peers :
          LET g == connections[p]
          IN  g # 0 /\ connections'[p] # g /\ pool' # "draining" =>
                \/ actor[g].conn # "open"
                \/ actor[g].pc \in {"exit", "stopped"}
                \/ /\ \E i \in 1 .. Len(idle) : idle[i] = [id |-> p, generation |-> g]
                   /\ nextGen' = nextGen + 1 /\ AtLimit(connections)
  BY <1>1
<1>3. QED BY <1>2, InvariantRInv, InvariantSlots, PTL DEF Spec, SlotLossJustified
=============================================================================
