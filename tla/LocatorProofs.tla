--------------------------- MODULE LocatorProofs ---------------------------
(***************************************************************************)
(* Type correctness, the single attempt per peer, the back-pressure bound, *)
(* the conservation of outcomes and the meaning of an error of first(),    *)
(* for any feeds, peers and limits of the locator.                         *)
(***************************************************************************)
EXTENDS Locator, FiniteSetTheorems, TLAPS

(* The parts of TypeOK, by who owns the state.                             *)
EngineType == /\ feeds \in [Feeds -> Seq(Item)] /\ scope \in [Feeds -> Scopes]
              /\ endless \subseteq Feeds /\ seen \subseteq Peers
AttemptsType == /\ attempts \in Seq(Peers)
                /\ inflight \subseteq 1 .. Len(attempts) /\ reached \subseteq 1 .. Len(attempts)
OutcomesType == /\ task \in {"loop", "sending", "done"}
                /\ sending \in Seq(Outcome) /\ buffer \in Seq(Outcome)
                /\ handle \in {"first", "stream", "ok", "err", "dropped"}
                /\ received \subseteq Outcome
FlagsType == /\ exhausted \in BOOLEAN /\ aborted \in BOOLEAN
             /\ hasTimeout \in BOOLEAN /\ timedOut \in BOOLEAN

\* TypeOK is the conjunction of its parts.
LEMMA TypeParts == TypeOK <=> EngineType /\ AttemptsType /\ OutcomesType /\ FlagsType
  BY ZenonT(30) DEF TypeOK, EngineType, AttemptsType, OutcomesType, FlagsType

\* Every initial state is well typed.
LEMMA TypeInit == Init => TypeOK
  <1> SUFFICES ASSUME Init PROVE TypeOK
    OBVIOUS
  <1>1. EngineType
    BY ItemAssumption DEF Init, EngineInit, EngineType
  <1>2. AttemptsType
    BY DEF Init, AttemptsType
  <1>3. OutcomesType
    BY DEF Init, OutcomesType
  <1>4. FlagsType
    <2>1. hasTimeout \in BOOLEAN
      BY LimitsAssumption, Zenon DEF Init
    <2>2. QED
      BY <2>1, Zenon DEF Init, FlagsType
  <1>5. QED
    BY <1>1, <1>2, <1>3, <1>4, TypeParts

\* Taking an item leaves every feed a sequence of items.
LEMMA TakeType ==
  ASSUME EngineType, NEW f \in Feeds, Take(f)
  PROVE  feeds' \in [Feeds -> Seq(Item)] /\ Head(feeds[f]) \in Item
  <1>1. feeds[f] \in Seq(Item) /\ feeds[f] # <<>>
    BY DEF EngineType, Take
  <1>2. Tail(feeds[f]) \in Seq(Item) /\ Head(feeds[f]) \in Item
    BY <1>1
  <1>3. QED
    BY <1>2 DEF EngineType, Take

\* The engine's part, in the steps that poll it.
LEMMA EngineStep == EngineType /\ [Next]_vars => EngineType'
  <1> SUFFICES ASSUME EngineType, [Next]_vars PROVE EngineType'
    OBVIOUS
  <1>1. ASSUME NEW f \in Feeds, PassOver(f) \/ DiscoverError(f) PROVE EngineType'
    BY <1>1, TakeType DEF PassOver, Skip, DiscoverError, YieldFault, EngineType
  <1>2. ASSUME NEW f \in Feeds, NEW p \in Item, Discover(f, p) PROVE EngineType'
    <2>1. p \in Peers
      BY <1>2 DEF Discover, YieldPeer, Skipped, Item
    <2>2. QED
      BY <1>2, <2>1, TakeType DEF Discover, YieldPeer, EngineType
  <1>3. CASE UNCHANGED engineVars
    BY <1>3 DEF engineVars, EngineType
  <1>4. QED
    BY <1>1, <1>2, <1>3, Zenon
    DEF Next, TaskStep, vars, Complete, DiscoverNone, Send, SendFails, Finish, Timeout,
        AbortTakesEffect, Receive, ReceiveNone, DropHandle

\* The attempts' part: a new attempt is of a remote peer and has a new number.
LEMMA AttemptsStep == EngineType /\ AttemptsType /\ [Next]_vars => AttemptsType'
  <1> SUFFICES ASSUME EngineType, AttemptsType, [Next]_vars PROVE AttemptsType'
    OBVIOUS
  <1>1. ASSUME NEW f \in Feeds, NEW p \in Item, Discover(f, p) PROVE AttemptsType'
    <2>1. p \in Peers
      BY <1>1 DEF Discover, YieldPeer, Skipped, Item
    <2>2. attempts' = Append(attempts, p) /\ inflight' = inflight \cup {Len(attempts) + 1}
          /\ reached' = reached
      BY <1>1 DEF Discover
    <2>3. attempts' \in Seq(Peers) /\ Len(attempts') = Len(attempts) + 1 /\ Len(attempts) \in Nat
      BY <2>1, <2>2 DEF AttemptsType
    <2>4. \A n \in Nat : 1 .. n \subseteq 1 .. (n + 1) /\ n + 1 \in 1 .. (n + 1)
      OBVIOUS
    <2>5. /\ inflight \subseteq 1 .. (Len(attempts) + 1)
          /\ Len(attempts) + 1 \in 1 .. (Len(attempts) + 1)
          /\ reached \subseteq 1 .. (Len(attempts) + 1)
      BY <2>3, <2>4, Zenon DEF AttemptsType
    <2>6. inflight' \subseteq 1 .. Len(attempts') /\ reached' \subseteq 1 .. Len(attempts')
      BY <2>2, <2>3, <2>5, Zenon
    <2>7. QED
      BY <2>3, <2>6, Zenon DEF AttemptsType
  <1>2. ASSUME NEW n \in inflight, NEW ok \in BOOLEAN, Complete(n, ok) PROVE AttemptsType'
    BY <1>2 DEF Complete, AttemptsType
  <1>3. ASSUME attempts' = attempts, reached' = reached, inflight' \subseteq inflight
        PROVE  AttemptsType'
    BY <1>3 DEF AttemptsType
  <1>4. QED
    BY <1>1, <1>2, <1>3, Zenon
    DEF Next, TaskStep, vars, taskVars, PassOver, DiscoverError, DiscoverNone, Send, SendFails,
        Finish, Timeout, AbortTakesEffect, Drop, Receive, ReceiveNone, DropHandle

\* The outcomes' part.
LEMMA OutcomesStep == AttemptsType /\ OutcomesType /\ [Next]_vars => OutcomesType'
  <1> SUFFICES ASSUME AttemptsType, OutcomesType, [Next]_vars PROVE OutcomesType'
    OBVIOUS
  <1>1. ASSUME NEW n \in inflight, NEW ok \in BOOLEAN, Complete(n, ok) PROVE OutcomesType'
    <2>1. n \in Nat
      BY DEF AttemptsType
    <2>2. [attempt |-> n, ok |-> ok] \in Outcome
      BY <2>1, Zenon DEF Outcome
    <2>3. <<[attempt |-> n, ok |-> ok]>> \in Seq(Outcome)
      <3> DEFINE o == [attempt |-> n, ok |-> ok]
      <3>1. o \in Outcome
        BY <2>2
      <3> HIDE DEF o
      <3>2. <<o>> \in Seq(Outcome)
        BY <3>1
      <3>3. QED BY <3>2 DEF o
    <2>4. QED
      BY <1>1, <2>3 DEF Complete, OutcomesType, handleVars
  <1>2. ASSUME NEW f \in Feeds, DiscoverError(f) PROVE OutcomesType'
    <2>1. StreamError \in Outcome
      <3>1. 0 \in Nat /\ FALSE \in BOOLEAN
        OBVIOUS
      <3>2. QED BY <3>1, Zenon DEF StreamError, Outcome
    <2>2. <<StreamError>> \in Seq(Outcome)
      BY <2>1
    <2>3. QED
      BY <1>2, <2>2 DEF DiscoverError, OutcomesType, handleVars
  <1>3. CASE Send
    BY <1>3 DEF Send, OutcomesType, handleVars
  <1>4. CASE SendFails
    <2>1. /\ task' \in {"loop", "done"} /\ sending' = <<>> /\ buffer' = buffer
          /\ handle' = handle /\ received' = received
      BY <1>4, Zenon DEF SendFails, Drop, handleVars
    <2>2. QED
      BY <2>1 DEF OutcomesType
  <1>5. CASE Finish \/ Timeout \/ AbortTakesEffect
    <2>1. /\ task' = "done" /\ sending' = <<>> /\ buffer' = buffer
          /\ handle' = handle /\ received' = received
      BY <1>5, Zenon DEF Finish, Timeout, AbortTakesEffect, Drop, handleVars
    <2>2. QED
      BY <2>1 DEF OutcomesType
  <1>6. CASE Receive
    <2>1. Head(buffer) \in Outcome /\ Tail(buffer) \in Seq(Outcome) /\ <<>> \in Seq(Outcome)
      BY <1>6 DEF Receive, OutcomesType
    <2>2. received' = received \cup {Head(buffer)} /\ handle' \in {"ok", handle}
          /\ buffer' \in {<<>>, Tail(buffer)} /\ task' = task /\ sending' = sending
      BY <1>6, Zenon DEF Receive
    <2>3. QED
      BY <2>1, <2>2 DEF OutcomesType
  <1>7. CASE ReceiveNone \/ DropHandle
    <2>1. ASSUME ReceiveNone PROVE OutcomesType'
      <3>1. /\ task' = task /\ sending' = sending /\ buffer' = buffer
            /\ handle' = "err" /\ received' = received
        BY <2>1 DEF ReceiveNone, taskVars
      <3>2. QED
        BY <3>1 DEF OutcomesType
    <2>2. ASSUME DropHandle PROVE OutcomesType'
      <3>1. /\ task' = task /\ sending' = sending /\ buffer' = <<>>
            /\ handle' = "dropped" /\ received' = received
        BY <2>2, Zenon DEF DropHandle
      <3>2. QED
        BY <3>1 DEF OutcomesType
    <2>3. QED
      BY <1>7, <2>1, <2>2
  <1>8. ASSUME UNCHANGED <<task, sending, buffer, handle, received>> PROVE OutcomesType'
    BY <1>8 DEF OutcomesType
  <1>9. QED
    BY <1>1, <1>2, <1>3, <1>4, <1>5, <1>6, <1>7, <1>8, Zenon
    DEF Next, TaskStep, vars, taskVars, handleVars, PassOver, Discover, DiscoverNone

\* The flags' part.
LEMMA FlagsStep == FlagsType /\ [Next]_vars => FlagsType'
  <1> SUFFICES ASSUME FlagsType, [Next]_vars PROVE FlagsType'
    OBVIOUS
  <1>1. exhausted' \in {exhausted, TRUE} /\ hasTimeout' = hasTimeout
        /\ timedOut' \in {timedOut, TRUE} /\ aborted' \in BOOLEAN
    BY ZenonT(60) DEF FlagsType, Next, TaskStep, vars, taskVars, handleVars, Complete, Discover, PassOver,
       DiscoverError, DiscoverNone, Send, SendFails, Finish, Timeout, AbortTakesEffect,
       Receive, ReceiveNone, DropHandle
  <1>2. QED
    BY <1>1, Zenon DEF FlagsType

\* Every step keeps the types.
LEMMA TypeStep == TypeOK /\ [Next]_vars => TypeOK'
  <1> SUFFICES ASSUME TypeOK, [Next]_vars PROVE TypeOK'
    OBVIOUS
  <1>1. EngineType' /\ AttemptsType' /\ OutcomesType' /\ FlagsType'
    BY TypeParts, EngineStep, AttemptsStep, OutcomesStep, FlagsStep
  <1>2. QED
    BY <1>1, TypeParts, PTL

\* Every state of the locator, its task and its handle is well typed.
THEOREM TypeCorrect == Spec => []TypeOK
  BY TypeInit, TypeStep, PTL DEF Spec

-----------------------------------------------------------------------------
(* One attempt per peer.  EachPeerOnce alone is not inductive: that a new  *)
(* attempt is of a new peer follows from the engine's memory holding every *)
(* peer that has been tried.                                               *)

TriedAreSeen == \A i \in 1 .. Len(attempts) : attempts[i] \in seen

OnceInv == TypeOK /\ TriedAreSeen /\ EachPeerOnce

\* Every step keeps the engine's memory ahead of the attempts.
LEMMA OnceStep == OnceInv /\ [Next]_vars => TriedAreSeen' /\ EachPeerOnce'
  <1> SUFFICES ASSUME OnceInv, [Next]_vars PROVE TriedAreSeen' /\ EachPeerOnce'
    OBVIOUS
  <1>t. EngineType /\ AttemptsType
    BY TypeParts DEF OnceInv
  <1>1. ASSUME NEW f \in Feeds, NEW p \in Item, Discover(f, p)
        PROVE  TriedAreSeen' /\ EachPeerOnce'
    <2>1. attempts' = Append(attempts, p) /\ seen' = seen \cup {p} /\ p \notin seen /\ p # Local
      BY <1>1 DEF Discover, YieldPeer, Skipped
    <2>2. attempts \in Seq(Peers)
      BY <1>t DEF AttemptsType
    <2>3. /\ Len(attempts') = Len(attempts) + 1 /\ Len(attempts) \in Nat
          /\ attempts'[Len(attempts) + 1] = p
          /\ \A i \in 1 .. Len(attempts) : attempts'[i] = attempts[i]
      BY <2>1, <2>2
    <2>4. \A i \in 1 .. Len(attempts') : i \in 1 .. Len(attempts) \/ i = Len(attempts) + 1
      BY <2>3
    <2>5. TriedAreSeen'
      BY <2>1, <2>3, <2>4 DEF OnceInv, TriedAreSeen
    <2>6. EachPeerOnce'
      <3> SUFFICES ASSUME NEW i \in 1 .. Len(attempts'), NEW j \in 1 .. Len(attempts')
                   PROVE  /\ attempts'[i] # Local
                          /\ attempts'[i] = attempts'[j] => i = j
        BY DEF EachPeerOnce
      <3> USE <2>1, <2>3 DEF OnceInv, TriedAreSeen, EachPeerOnce
      <3>1. CASE i \in 1 .. Len(attempts) /\ j \in 1 .. Len(attempts)
        BY <3>1
      <3>2. CASE i \in 1 .. Len(attempts) /\ j = Len(attempts) + 1
        BY <3>2
      <3>3. CASE i = Len(attempts) + 1 /\ j \in 1 .. Len(attempts)
        BY <3>3
      <3>4. CASE i = Len(attempts) + 1 /\ j = Len(attempts) + 1
        BY <3>4
      <3>5. QED
        BY <3>1, <3>2, <3>3, <3>4, <2>4
    <2>7. QED BY <2>5, <2>6
  <1>2. ASSUME attempts' = attempts, seen' = seen PROVE TriedAreSeen' /\ EachPeerOnce'
    BY <1>2 DEF OnceInv, TriedAreSeen, EachPeerOnce
  <1>3. QED
    BY <1>1, <1>2, Zenon
    DEF Next, TaskStep, vars, taskVars, engineVars, Complete, PassOver, Skip, DiscoverError,
        YieldFault, DiscoverNone, Send, SendFails, Finish, Timeout, AbortTakesEffect,
        Receive, ReceiveNone, DropHandle

\* The locator tries a peer at most once and never its own endpoint, for any feeds.
THEOREM PeersTriedOnce == Spec => []EachPeerOnce
  <1>1. Init => OnceInv
    BY TypeInit DEF Init, OnceInv, TriedAreSeen, EachPeerOnce
  <1>2. OnceInv /\ [Next]_vars => OnceInv'
    BY OnceStep, TypeStep DEF OnceInv
  <1>3. OnceInv => EachPeerOnce
    BY DEF OnceInv
  <1>4. QED
    BY <1>1, <1>2, <1>3, PTL DEF Spec

-----------------------------------------------------------------------------
(* Back-pressure.  The bound needs what each place holds: the task holds   *)
(* an outcome only while it sends, and then an attempt's place is free.    *)

InflightBound == Cardinality(inflight) <= MaxInflight
SendingBound == /\ Len(sending) = IF task = "sending" THEN 1 ELSE 0
                /\ task = "sending" => Cardinality(inflight) < MaxInflight
BufferBound == Len(buffer) <= Limit

PressureInv == TypeOK /\ InflightBound /\ SendingBound /\ BufferBound

\* The attempts in flight are finitely many.
LEMMA InflightFinite ==
  ASSUME AttemptsType
  PROVE  IsFiniteSet(inflight) /\ Cardinality(inflight) \in Nat /\ Cardinality({}) = 0
  <1>1. Len(attempts) \in Nat
    BY DEF AttemptsType
  <1>2. IsFiniteSet(1 .. Len(attempts))
    BY <1>1, FS_Interval
  <1>3. IsFiniteSet(inflight)
    BY <1>2, FS_Subset DEF AttemptsType
  <1>4. QED
    BY <1>3, FS_CardinalityType, FS_EmptySet

\* Concatenation adds the lengths.
LEMMA ConcatLength ==
  ASSUME NEW S, NEW s \in Seq(S), NEW t \in Seq(S)
  PROVE  Len(s \o t) = Len(s) + Len(t) /\ Len(s) \in Nat
  OBVIOUS

\* Every step keeps the three bounds.
LEMMA PressureStep == PressureInv /\ [Next]_vars => (InflightBound /\ SendingBound /\ BufferBound)'
  <1> SUFFICES ASSUME PressureInv, [Next]_vars
               PROVE  (InflightBound /\ SendingBound /\ BufferBound)'
    OBVIOUS
  <1>t. AttemptsType /\ OutcomesType
    BY TypeParts DEF PressureInv
  <1>f. IsFiniteSet(inflight) /\ Cardinality(inflight) \in Nat /\ Cardinality({}) = 0
    BY <1>t, InflightFinite
  <1>n. MaxInflight \in Nat \ {0} /\ Limit \in Nat \ {0}
    BY LimitsAssumption
  <1> USE <1>f, <1>n DEF PressureInv, InflightBound, SendingBound, BufferBound
  <1>1. ASSUME NEW n \in inflight, NEW ok \in BOOLEAN, Complete(n, ok)
        PROVE  (InflightBound /\ SendingBound /\ BufferBound)'
    <2>1. Cardinality(inflight \ {n}) = Cardinality(inflight) - 1
      BY FS_RemoveElement
    <2>2. task' = "sending" /\ Len(sending') = 1 /\ inflight' = inflight \ {n} /\ buffer' = buffer
      BY <1>1 DEF Complete
    <2>3. QED
      BY <2>1, <2>2
  <1>2. ASSUME NEW f \in Feeds, NEW p \in Item, Discover(f, p)
        PROVE  (InflightBound /\ SendingBound /\ BufferBound)'
    <2>1. Len(attempts) + 1 \notin inflight
      BY <1>t DEF AttemptsType
    <2>2. Cardinality(inflight \cup {Len(attempts) + 1}) = Cardinality(inflight) + 1
      BY <2>1, FS_AddElement
    <2>3. /\ task' = "loop" /\ task = "loop" /\ sending' = sending /\ buffer' = buffer
          /\ inflight' = inflight \cup {Len(attempts) + 1} /\ Cardinality(inflight) < MaxInflight
      BY <1>2, Zenon DEF Discover, CanDiscover
    <2>4. QED
      BY <2>2, <2>3
  <1>3. ASSUME NEW f \in Feeds, DiscoverError(f)
        PROVE  (InflightBound /\ SendingBound /\ BufferBound)'
    <2>1. /\ task' = "sending" /\ sending' = <<StreamError>> /\ buffer' = buffer
          /\ inflight' = inflight /\ Cardinality(inflight) < MaxInflight
      BY <1>3, Zenon DEF DiscoverError, CanDiscover
    <2>2. QED
      BY <2>1
  <1>4. CASE Send
    <2>1. /\ task' = "loop" /\ task = "sending" /\ sending' = <<>> /\ buffer' = buffer \o sending
          /\ inflight' = inflight /\ Len(buffer) < Limit
      BY <1>4, Zenon DEF Send
    <2>2. buffer \in Seq(Outcome) /\ sending \in Seq(Outcome)
      BY <1>t DEF OutcomesType
    <2>3. Len(buffer \o sending) = Len(buffer) + Len(sending) /\ Len(buffer) \in Nat
      BY <2>2, ConcatLength
    <2>4. Len(sending) = 1 /\ Len(<<>>) = 0
      BY <2>1
    <2>5. QED
      BY <2>1, <2>3, <2>4
  <1>5. CASE SendFails
    <2>1. ASSUME Drop, buffer' = buffer PROVE (InflightBound /\ SendingBound /\ BufferBound)'
      <3>1. task' = "done" /\ sending' = <<>> /\ inflight' = {}
        BY <2>1, Zenon DEF Drop
      <3>2. QED
        BY <2>1, <3>1
    <2>2. ASSUME task' = "loop", sending' = <<>>, inflight' = inflight, buffer' = buffer
          PROVE  (InflightBound /\ SendingBound /\ BufferBound)'
      BY <2>2
    <2>3. QED
      BY <1>5, <2>1, <2>2, Zenon DEF SendFails
  <1>6. CASE Finish \/ Timeout \/ AbortTakesEffect
    <2>1. task' = "done" /\ sending' = <<>> /\ buffer' = buffer /\ inflight' = {}
      BY <1>6, Zenon DEF Finish, Timeout, AbortTakesEffect, Drop
    <2>2. QED
      BY <2>1
  <1>7. CASE Receive
    <2>1. /\ buffer # <<>> /\ buffer' \in {<<>>, Tail(buffer)}
          /\ task' = task /\ sending' = sending /\ inflight' = inflight
      BY <1>7, Zenon DEF Receive
    <2>2. Len(buffer') <= Len(buffer) /\ Len(buffer') \in Nat /\ Len(buffer) \in Nat
      BY <1>t, <2>1 DEF OutcomesType
    <2>3. QED
      BY <2>1, <2>2
  <1>8. CASE DropHandle
    <2>1. task' = task /\ sending' = sending /\ buffer' = <<>> /\ inflight' = inflight
      BY <1>8, Zenon DEF DropHandle
    <2>2. QED
      BY <2>1
  <1>9. ASSUME UNCHANGED <<task, sending, buffer, inflight>>
        PROVE  (InflightBound /\ SendingBound /\ BufferBound)'
    BY <1>9
  <1> HIDE DEF PressureInv, InflightBound, SendingBound, BufferBound
  <1>10. QED
    BY <1>1, <1>2, <1>3, <1>4, <1>5, <1>6, <1>7, <1>8, <1>9, Zenon
    DEF Next, TaskStep, vars, taskVars, PassOver, DiscoverNone, ReceiveNone

\* A slow owner of the handle never makes the locator hold more than max_inflight
\* attempts and max_inflight + limit attempts and outcomes together.
THEOREM PressureBounded == Spec => []BackPressure
  <1>1. Init => PressureInv
    <2> SUFFICES ASSUME Init PROVE PressureInv
      OBVIOUS
    <2>1. task = "loop" /\ inflight = {} /\ sending = <<>> /\ buffer = <<>>
      BY Zenon DEF Init
    <2>2. Cardinality({}) = 0
      BY FS_EmptySet
    <2>3. QED
      BY <2>1, <2>2, TypeInit, LimitsAssumption
      DEF PressureInv, InflightBound, SendingBound, BufferBound
  <1>2. PressureInv /\ [Next]_vars => PressureInv'
    BY PressureStep, TypeStep DEF PressureInv
  <1>3. PressureInv => BackPressure
    <2> SUFFICES ASSUME PressureInv PROVE BackPressure
      OBVIOUS
    <2>1. AttemptsType /\ OutcomesType
      BY TypeParts DEF PressureInv
    <2>2. Cardinality(inflight) \in Nat
      BY <2>1, InflightFinite
    <2>3. Len(buffer) \in Nat
      BY <2>1 DEF OutcomesType
    <2>4. QED
      BY <2>2, <2>3, LimitsAssumption
      DEF PressureInv, InflightBound, SendingBound, BufferBound, BackPressure, Undelivered
  <1>4. QED
    BY <1>1, <1>2, <1>3, PTL DEF Spec

-----------------------------------------------------------------------------
(* Outcomes.  An attempt is in exactly one place: in flight, to be sent,   *)
(* in the channel, or received.  Sets stand for the counts: one of them    *)
(* has one element and the others are empty.                               *)

\* The places in a sequence of outcomes that hold one of attempt n.
Places(q, n) == {i \in 1 .. Len(q) : q[i].attempt = n}

\* The outcomes of attempt n that were received.
Got(n) == {o \in received : o.attempt = n}

Single(S) == \E x : S = {x}

InOnePlace(B, S, R, I) ==
  \/ Single(B) /\ S = {} /\ R = {} /\ I = {}
  \/ B = {} /\ Single(S) /\ R = {} /\ I = {}
  \/ B = {} /\ S = {} /\ Single(R) /\ I = {}
  \/ B = {} /\ S = {} /\ R = {} /\ Single(I)

\* No outcome is of an attempt to come.
OutcomesKnown ==
  /\ \A i \in 1 .. Len(buffer) : buffer[i].attempt <= Len(attempts)
  /\ \A i \in 1 .. Len(sending) : sending[i].attempt <= Len(attempts)
  /\ \A o \in received : o.attempt <= Len(attempts)

\* Only the end of the handle aborts the task.
AbortedIsDropped == aborted => ~HandleLives

\* OutcomesConserved in terms of sets.
OnePlace ==
  HandleLives /\ ~timedOut =>
    \A n \in 1 .. Len(attempts) :
      InOnePlace(Places(buffer, n), Places(sending, n), Got(n), {n} \cap inflight)

\* The task holds one outcome while it sends, and none otherwise.
SendingKnown ==
  (task # "sending" => sending = <<>>) /\ (task = "sending" => Len(sending) = 1)

OutcomesInv ==
  TypeOK /\ SendingKnown /\ OutcomesKnown /\ AbortedIsDropped /\ OnePlace

\* The places of a sequence with one element more.
LEMMA ConcatOne ==
  ASSUME NEW q \in Seq(Outcome), NEW r \in Seq(Outcome), Len(r) = 1
  PROVE  /\ Len(q) \in Nat /\ Len(q \o r) = Len(q) + 1 /\ (q \o r)[Len(q) + 1] = r[1]
         /\ \A i \in 1 .. Len(q) : (q \o r)[i] = q[i]
  <1>1. Len(q) \in Nat /\ Len(q \o r) = Len(q) + 1
    BY ConcatLength
  <1>2. (q \o r)[Len(q) + 1] = r[1]
    BY <1>1
  <1>3. \A i \in 1 .. Len(q) : (q \o r)[i] = q[i]
    BY <1>1
  <1>4. QED BY <1>1, <1>2, <1>3

\* Appending an outcome adds one place.
LEMMA PlacesAppend ==
  ASSUME NEW q \in Seq(Outcome), NEW r \in Seq(Outcome), Len(r) = 1, NEW n
  PROVE  Places(q \o r, n) =
           IF r[1].attempt = n THEN Places(q, n) \cup {Len(q) + 1} ELSE Places(q, n)
  BY ConcatOne DEF Places

\* Taking an outcome moves the places and removes its own.
LEMMA PlacesTail ==
  ASSUME NEW q \in Seq(Outcome), q # <<>>, NEW n, Single(Places(q, n)) \/ Places(q, n) = {}
  PROVE  /\ Head(q).attempt = n => Single(Places(q, n)) /\ Places(Tail(q), n) = {}
         /\ Head(q).attempt # n /\ Single(Places(q, n)) => Single(Places(Tail(q), n))
         /\ Head(q).attempt # n /\ Places(q, n) = {} => Places(Tail(q), n) = {}
  <1>1. /\ Len(q) \in Nat /\ Len(q) >= 1 /\ Head(q) = q[1] /\ Len(Tail(q)) = Len(q) - 1
        /\ \A i \in 1 .. Len(q) - 1 : Tail(q)[i] = q[i + 1]
    OBVIOUS
  <1>2. \A i \in Nat : i \in Places(Tail(q), n) <=> i >= 1 /\ i + 1 \in Places(q, n)
    BY <1>1 DEF Places
  <1>3. Places(Tail(q), n) \subseteq Nat /\ Places(q, n) \subseteq Nat \ {0}
    BY <1>1 DEF Places
  <1>4. 1 \in Places(q, n) <=> Head(q).attempt = n
    BY <1>1 DEF Places
  <1>5. CASE Places(q, n) = {}
    BY <1>2, <1>3, <1>4, <1>5
  <1>6. ASSUME NEW x, Places(q, n) = {x}
        PROVE  /\ x = 1 => Places(Tail(q), n) = {}
               /\ x # 1 => Places(Tail(q), n) = {x - 1}
    <2>1. x \in Nat \ {0}
      BY <1>3, <1>6
    <2>2. \A i \in Nat : i \in Places(Tail(q), n) <=> i >= 1 /\ i + 1 = x
      BY <1>2, <1>6
    <2>3. CASE x = 1
      BY <1>3, <2>2, <2>3
    <2>4. CASE x # 1
      <3>1. x - 1 \in Nat /\ x - 1 >= 1
        BY <2>1, <2>4
      <3>2. QED BY <1>3, <2>1, <2>2, <2>4, <3>1
    <2>5. QED BY <2>3, <2>4
  <1>7. QED
    BY <1>4, <1>5, <1>6 DEF Single

\* Steps that leave the outcomes alone, or give up the handle or the time.
LEMMA OutcomesStay ==
  ASSUME OnePlace, \/ ~HandleLives' \/ timedOut'
                   \/ /\ UNCHANGED <<attempts, inflight, sending, buffer, received>>
                      /\ HandleLives' => HandleLives /\ timedOut' = timedOut
  PROVE  OnePlace'
  <1>1. CASE ~HandleLives' \/ timedOut'
    BY <1>1 DEF OnePlace
  <1>2. CASE /\ UNCHANGED <<attempts, inflight, sending, buffer, received>>
             /\ HandleLives' => HandleLives /\ timedOut' = timedOut
    <2>1. \A n : Got(n)' = Got(n)
      BY <1>2 DEF Got
    <2>2. QED BY <1>2, <2>1 DEF OnePlace
  <1>3. QED BY <1>1, <1>2

\* An attempt that ends moves from the set to the outcome that is to be sent.
LEMMA CompleteMoves ==
  ASSUME OutcomesInv, NEW n \in inflight, NEW ok \in BOOLEAN, Complete(n, ok)
  PROVE  OnePlace'
  <1> SUFFICES ASSUME HandleLives, ~timedOut, NEW k \in 1 .. Len(attempts)
               PROVE  InOnePlace(Places(buffer, k), Places(sending', k), Got(k), {k} \cap inflight')
    BY Zenon DEF Complete, OnePlace, HandleLives, handleVars, Got, Places
  <1>1. InOnePlace(Places(buffer, k), Places(sending, k), Got(k), {k} \cap inflight)
    BY DEF OutcomesInv, OnePlace
  <1>2. /\ inflight' = inflight \ {n} /\ sending = <<>>
        /\ sending' = <<[attempt |-> n, ok |-> ok]>>
    BY DEF Complete, OutcomesInv, SendingKnown
  <1>3. Places(sending', k) = IF k = n THEN {1} ELSE {}
    BY <1>2 DEF Places
  <1>4. Places(sending, k) = {}
    BY <1>2 DEF Places
  <1>5. CASE k = n
    <2>1. Places(buffer, k) = {} /\ Got(k) = {}
      BY <1>1, <1>5 DEF InOnePlace
    <2>2. {k} \cap inflight' = {} /\ Places(sending', k) = {1}
      BY <1>2, <1>3, <1>5
    <2>3. QED BY <2>1, <2>2 DEF InOnePlace, Single
  <1>6. CASE k # n
    <2>1. {k} \cap inflight' = {k} \cap inflight /\ Places(sending', k) = Places(sending, k)
      BY <1>2, <1>3, <1>4, <1>6
    <2>2. QED BY <1>1, <2>1
  <1>7. QED BY <1>5, <1>6

\* A new attempt is in flight and nowhere else.
LEMMA DiscoverAdds ==
  ASSUME OutcomesInv, NEW f \in Feeds, NEW p \in Item, Discover(f, p)
  PROVE  OnePlace'
  <1>t. AttemptsType /\ OutcomesType
    BY TypeParts DEF OutcomesInv
  <1>1. /\ attempts' = Append(attempts, p) /\ inflight' = inflight \cup {Len(attempts) + 1}
        /\ UNCHANGED <<sending, buffer, received, handle, timedOut>>
    BY Zenon DEF Discover, handleVars
  <1>2. /\ Len(attempts) \in Nat /\ Len(attempts') = Len(attempts) + 1
        /\ inflight \subseteq 1 .. Len(attempts)
    BY <1>1, <1>t DEF AttemptsType
  <1> SUFFICES ASSUME HandleLives, ~timedOut, NEW k \in 1 .. Len(attempts')
               PROVE  InOnePlace(Places(buffer, k), Places(sending, k), Got(k), {k} \cap inflight')
    BY <1>1, Zenon DEF OnePlace, HandleLives, Got, Places
  <1>3. CASE k \in 1 .. Len(attempts)
    <2>1. {k} \cap inflight' = {k} \cap inflight
      BY <1>1, <1>2, <1>3
    <2>2. QED BY <1>3, <2>1 DEF OutcomesInv, OnePlace
  <1>4. CASE k = Len(attempts) + 1
    <2>1. {k} \cap inflight' = {k}
      BY <1>1, <1>4
    <2>2. Places(buffer, k) = {} /\ Places(sending, k) = {}
      BY <1>2, <1>4, <1>t DEF OutcomesInv, OutcomesKnown, Places, OutcomesType, Outcome
    <2>3. Got(k) = {}
      BY <1>2, <1>4, <1>t DEF OutcomesInv, OutcomesKnown, Got, OutcomesType, Outcome
    <2>4. QED BY <2>1, <2>2, <2>3 DEF InOnePlace, Single
  <1>5. QED BY <1>2, <1>3, <1>4

\* The outcome that is sent moves to the end of the channel.
LEMMA SendMoves == ASSUME OutcomesInv, Send PROVE OnePlace'
  <1>1. /\ sending' = <<>> /\ buffer' = buffer \o sending /\ task = "sending"
        /\ UNCHANGED <<attempts, inflight, received, handle, timedOut>>
    BY Zenon DEF Send, handleVars
  <1>2. buffer \in Seq(Outcome) /\ sending \in Seq(Outcome) /\ Len(sending) = 1
    BY <1>1, TypeParts DEF OutcomesInv, OutcomesType, SendingKnown
  <1> DEFINE o == sending[1]
  <1> SUFFICES ASSUME HandleLives, ~timedOut, NEW k \in 1 .. Len(attempts)
               PROVE  InOnePlace(Places(buffer', k), Places(<<>>, k), Got(k), {k} \cap inflight)
    BY <1>1, Zenon DEF OnePlace, HandleLives, Got
  <1>3. InOnePlace(Places(buffer, k), Places(sending, k), Got(k), {k} \cap inflight)
    BY DEF OutcomesInv, OnePlace
  <1>4. Places(<<>>, k) = {}
    BY DEF Places
  <1>5. Places(sending, k) = IF o.attempt = k THEN {1} ELSE {}
    BY <1>2 DEF Places
  <1>6. Places(buffer', k) =
          IF o.attempt = k THEN Places(buffer, k) \cup {Len(buffer) + 1} ELSE Places(buffer, k)
    BY <1>1, <1>2, PlacesAppend
  <1> HIDE DEF o
  <1>7. CASE o.attempt = k
    <2>1. Places(buffer, k) = {} /\ Got(k) = {} /\ {k} \cap inflight = {}
      BY <1>3, <1>5, <1>7 DEF InOnePlace
    <2>2. Places(buffer', k) = {Len(buffer) + 1}
      BY <1>6, <1>7, <2>1
    <2>3. QED BY <1>4, <2>1, <2>2 DEF InOnePlace, Single
  <1>8. CASE o.attempt # k
    BY <1>3, <1>4, <1>5, <1>6, <1>8
  <1>9. QED BY <1>7, <1>8

\* The outcome that is received moves out of the channel.
LEMMA ReceiveMoves == ASSUME OutcomesInv, Receive, HandleLives' PROVE OnePlace'
  <1> DEFINE o == Head(buffer)
  <1>1. /\ received' = received \cup {o} /\ buffer' = Tail(buffer) /\ buffer # <<>> /\ HandleLives
        /\ UNCHANGED <<attempts, inflight, sending, timedOut>>
    BY DEF Receive, HandleLives
  <1>2. buffer \in Seq(Outcome)
    BY TypeParts DEF OutcomesInv, OutcomesType
  <1> SUFFICES ASSUME ~timedOut, NEW k \in 1 .. Len(attempts)
               PROVE  InOnePlace(Places(Tail(buffer), k), Places(sending, k), Got(k)', {k} \cap inflight)
    BY <1>1, Zenon DEF OnePlace
  <1>3. InOnePlace(Places(buffer, k), Places(sending, k), Got(k), {k} \cap inflight)
    BY <1>1 DEF OutcomesInv, OnePlace
  <1>4. Got(k)' = IF o.attempt = k THEN Got(k) \cup {o} ELSE Got(k)
    BY <1>1 DEF Got
  <1>5. /\ o.attempt = k => Single(Places(buffer, k)) /\ Places(Tail(buffer), k) = {}
        /\ o.attempt # k /\ Single(Places(buffer, k)) => Single(Places(Tail(buffer), k))
        /\ o.attempt # k /\ Places(buffer, k) = {} => Places(Tail(buffer), k) = {}
    BY <1>1, <1>2, <1>3, PlacesTail DEF InOnePlace
  <1> HIDE DEF o
  <1>6. CASE o.attempt = k
    <2>1. Places(buffer, k) # {}
      BY <1>5, <1>6 DEF Single
    <2>2. Places(sending, k) = {} /\ Got(k) = {} /\ {k} \cap inflight = {}
      BY <1>3, <2>1 DEF InOnePlace
    <2>3. Got(k)' = {o}
      BY <1>4, <1>6, <2>2
    <2>4. QED BY <1>5, <1>6, <2>2, <2>3 DEF InOnePlace, Single
  <1>7. CASE o.attempt # k
    BY <1>3, <1>4, <1>5, <1>7 DEF InOnePlace
  <1>8. QED BY <1>6, <1>7

\* The outcomes are of attempts that were made, and a task that sends has one.
LEMMA KnownStep ==
  ASSUME OutcomesInv, [Next]_vars
  PROVE  SendingKnown' /\ OutcomesKnown' /\ AbortedIsDropped'
  <1>t. AttemptsType /\ OutcomesType
    BY TypeParts DEF OutcomesInv
  <1>0. /\ Len(attempts) \in Nat /\ inflight \subseteq 1 .. Len(attempts)
        /\ buffer \in Seq(Outcome) /\ sending \in Seq(Outcome) /\ received \subseteq Outcome
    BY <1>t DEF AttemptsType, OutcomesType
  <1>a. AbortedIsDropped'
    <2>1. CASE UNCHANGED <<handle, aborted>>
      BY <2>1 DEF OutcomesInv, AbortedIsDropped, HandleLives
    <2>2. CASE Receive \/ ReceiveNone \/ DropHandle
      BY <2>2 DEF Receive, ReceiveNone, DropHandle, OutcomesInv, AbortedIsDropped, HandleLives
    <2>3. QED
      BY <2>1, <2>2, Zenon DEF Next, TaskStep, vars, handleVars, Complete, Discover, PassOver,
         DiscoverError, DiscoverNone, Send, SendFails, Finish, Timeout, AbortTakesEffect
  <1>1. ASSUME NEW n \in inflight, NEW ok \in BOOLEAN, Complete(n, ok) PROVE SendingKnown' /\ OutcomesKnown'
    <2>1. /\ task' = "sending" /\ sending' = <<[attempt |-> n, ok |-> ok]>>
          /\ UNCHANGED <<attempts, buffer, received>>
      BY <1>1, Zenon DEF Complete, handleVars
    <2>2. n <= Len(attempts) /\ Len(sending') = 1 /\ sending'[1].attempt = n
      BY <1>0, <2>1
    <2>3. QED BY <2>1, <2>2 DEF OutcomesInv, SendingKnown, OutcomesKnown
  <1>2. ASSUME NEW f \in Feeds, NEW p \in Item, Discover(f, p) PROVE SendingKnown' /\ OutcomesKnown'
    <2>1. /\ task' = task /\ attempts' = Append(attempts, p)
          /\ UNCHANGED <<sending, buffer, received>>
      BY <1>2, Zenon DEF Discover, handleVars
    <2>2. Len(attempts') = Len(attempts) + 1
      BY <2>1, <1>t DEF AttemptsType
    <2>3. /\ \A i \in 1 .. Len(buffer) : buffer[i].attempt \in Nat
          /\ \A i \in 1 .. Len(sending) : sending[i].attempt \in Nat
          /\ \A o \in received : o.attempt \in Nat
      <3>1. \A o \in Outcome : o.attempt \in Nat
        BY DEF Outcome
      <3>2. /\ \A i \in 1 .. Len(buffer) : buffer[i] \in Outcome
            /\ \A i \in 1 .. Len(sending) : sending[i] \in Outcome
        BY <1>0
      <3>3. QED BY <1>0, <3>1, <3>2
    <2>4. OutcomesKnown'
      <3>1. \A a \in Nat : a <= Len(attempts) => a <= Len(attempts')
        BY <1>0, <2>2
      <3>2. \A i \in 1 .. Len(buffer) : buffer[i].attempt <= Len(attempts')
        BY <2>3, <3>1 DEF OutcomesInv, OutcomesKnown
      <3>3. \A i \in 1 .. Len(sending) : sending[i].attempt <= Len(attempts')
        BY <2>3, <3>1 DEF OutcomesInv, OutcomesKnown
      <3>4. \A o \in received : o.attempt <= Len(attempts')
        BY <2>3, <3>1 DEF OutcomesInv, OutcomesKnown
      <3>5. QED BY <2>1, <3>2, <3>3, <3>4 DEF OutcomesKnown
    <2>5. QED BY <2>1, <2>4 DEF OutcomesInv, SendingKnown
  <1>3. ASSUME NEW f \in Feeds, DiscoverError(f) PROVE SendingKnown' /\ OutcomesKnown'
    <2>1. /\ task' = "sending" /\ sending' = <<StreamError>>
          /\ UNCHANGED <<attempts, buffer, received>>
      BY <1>3, Zenon DEF DiscoverError, handleVars
    <2>2. Len(sending') = 1 /\ sending'[1].attempt = 0
      BY <2>1 DEF StreamError
    <2>3. QED BY <1>0, <2>1, <2>2 DEF OutcomesInv, SendingKnown, OutcomesKnown
  <1>4. CASE Send
    <2>1. /\ task' = "loop" /\ task = "sending" /\ sending' = <<>> /\ buffer' = buffer \o sending
          /\ UNCHANGED <<attempts, received>>
      BY <1>4, Zenon DEF Send, handleVars
    <2>2. \A i \in 1 .. Len(buffer') : buffer'[i].attempt <= Len(attempts)
      <3>1. Len(sending) = 1 /\ sending[1].attempt <= Len(attempts)
        BY <2>1 DEF OutcomesInv, SendingKnown, OutcomesKnown
      <3>2. /\ Len(buffer') = Len(buffer) + 1 /\ buffer'[Len(buffer) + 1] = sending[1]
            /\ \A i \in 1 .. Len(buffer) : buffer'[i] = buffer[i]
        BY <1>0, <2>1, <3>1, ConcatOne
      <3>3. Len(buffer) \in Nat
        BY <1>0
      <3>4. QED BY <3>1, <3>2, <3>3 DEF OutcomesInv, SendingKnown, OutcomesKnown
    <2>3. Len(<<>>) = 0 /\ sending' = <<>> /\ Len(sending') = 0
      BY <2>1
    <2>4. OutcomesKnown'
      BY <2>1, <2>2, <2>3 DEF OutcomesInv, OutcomesKnown
    <2>5. QED BY <1>a, <2>1, <2>3, <2>4 DEF SendingKnown
  <1>5. CASE Receive
    <2>1. /\ buffer' \in {<<>>, Tail(buffer)} /\ buffer # <<>> /\ received' = received \cup {Head(buffer)}
          /\ UNCHANGED <<task, sending, attempts>>
      BY <1>5, Zenon DEF Receive
    <2>2. /\ Head(buffer) = buffer[1] /\ 1 \in 1 .. Len(buffer) /\ Len(buffer) \in Nat
          /\ Len(Tail(buffer)) = Len(buffer) - 1
          /\ \A i \in 1 .. Len(buffer) - 1 : Tail(buffer)[i] = buffer[i + 1]
      BY <1>0, <2>1
    <2>3. Head(buffer).attempt <= Len(attempts)
      BY <2>2 DEF OutcomesInv, SendingKnown, OutcomesKnown
    <2>4. \A i \in 1 .. Len(buffer') : buffer'[i].attempt <= Len(attempts)
      BY <2>1, <2>2 DEF OutcomesInv, SendingKnown, OutcomesKnown
    <2>5. OutcomesKnown'
      BY <2>1, <2>3, <2>4 DEF OutcomesInv, OutcomesKnown
    <2>6. QED BY <1>a, <2>1, <2>5 DEF OutcomesInv, SendingKnown
  <1>6. CASE DropHandle
    <2>1. buffer' = <<>> /\ UNCHANGED <<task, sending, attempts, received>>
      BY <1>6, Zenon DEF DropHandle
    <2>2. OutcomesKnown'
      BY <2>1 DEF OutcomesInv, OutcomesKnown
    <2>3. QED BY <1>a, <2>1, <2>2 DEF OutcomesInv, SendingKnown
  <1>7. ASSUME UNCHANGED <<task, sending, buffer, attempts, received>> PROVE SendingKnown' /\ OutcomesKnown'
    BY <1>7 DEF OutcomesInv, SendingKnown, OutcomesKnown
  <1>8. CASE SendFails \/ Finish \/ Timeout \/ AbortTakesEffect
    <2>1. sending' = <<>> /\ task' # "sending" /\ UNCHANGED <<attempts, buffer, received>>
      BY <1>8 DEF SendFails, Finish, Timeout, AbortTakesEffect, Drop, handleVars
    <2>2. OutcomesKnown'
      BY <2>1 DEF OutcomesInv, OutcomesKnown
    <2>3. QED BY <1>a, <2>1, <2>2 DEF SendingKnown
  <1>9. SendingKnown' /\ OutcomesKnown'
    BY <1>1, <1>2, <1>3, <1>4, <1>5, <1>6, <1>7, <1>8, Zenon
    DEF Next, TaskStep, vars, taskVars, handleVars, PassOver, DiscoverNone, ReceiveNone
  <1>10. QED BY <1>a, <1>9

\* No step loses an outcome or doubles it while the handle lives and time is left.
LEMMA OnePlaceStep == ASSUME OutcomesInv, [Next]_vars PROVE OnePlace'
  <1>0. OnePlace
    BY DEF OutcomesInv
  <1>1. ASSUME NEW n \in inflight, NEW ok \in BOOLEAN, Complete(n, ok) PROVE OnePlace'
    BY <1>1, CompleteMoves
  <1>2. ASSUME NEW f \in Feeds, NEW p \in Item, Discover(f, p) PROVE OnePlace'
    BY <1>2, DiscoverAdds
  <1>3. ASSUME NEW f \in Feeds, DiscoverError(f) PROVE OnePlace'
    <2>1. /\ sending' = <<StreamError>> /\ sending = <<>>
          /\ UNCHANGED <<attempts, inflight, buffer, received, handle, timedOut>>
      BY <1>3 DEF DiscoverError, handleVars, OutcomesInv, SendingKnown
    <2>2. \A k \in 1 .. Len(attempts) : Places(sending', k) = Places(sending, k)
      BY <2>1 DEF Places, StreamError
    <2>3. \A k : Got(k)' = Got(k)
      BY <2>1 DEF Got
    <2>4. QED BY <1>0, <2>1, <2>2, <2>3 DEF OnePlace, HandleLives
  <1>4. CASE Send
    BY <1>4, SendMoves
  <1>5. CASE SendFails \/ DropHandle \/ Timeout \/ AbortTakesEffect \/ ReceiveNone
    <2>1. ~HandleLives' \/ timedOut'
      BY <1>5 DEF SendFails, DropHandle, Timeout, AbortTakesEffect, ReceiveNone, handleVars,
         HandleLives, OutcomesInv, AbortedIsDropped
    <2>2. QED BY <1>0, <2>1, OutcomesStay
  <1>6. CASE Finish
    <2>1. UNCHANGED <<attempts, inflight, sending, buffer, received, handle, timedOut>>
      BY <1>6 DEF Finish, Drop, OutcomesInv, SendingKnown, handleVars
    <2>2. QED BY <1>0, <2>1, OutcomesStay DEF HandleLives
  <1>7. CASE Receive
    BY <1>0, <1>7, ReceiveMoves, OutcomesStay
  <1>8. ASSUME UNCHANGED <<attempts, inflight, sending, buffer, received, handle, timedOut>>
        PROVE  OnePlace'
    BY <1>0, <1>8, OutcomesStay DEF HandleLives
  <1>9. QED
    BY <1>1, <1>2, <1>3, <1>4, <1>5, <1>6, <1>7, <1>8, Zenon
    DEF Next, TaskStep, vars, taskVars, handleVars, PassOver, DiscoverNone

\* One element in one of four sets makes the counts add up to one.
LEMMA OnePlaceCounts ==
  ASSUME NEW B, NEW S, NEW R, NEW I, InOnePlace(B, S, R, I)
  PROVE  Cardinality(B) + Cardinality(S) + Cardinality(R) + Cardinality(I) = 1
  <1>1. Cardinality({}) = 0
    BY FS_EmptySet
  <1>2. ASSUME NEW T, Single(T) PROVE Cardinality(T) = 1
    BY <1>2, FS_Singleton DEF Single
  <1>3. /\ (Single(B) => Cardinality(B) = 1) /\ (Single(S) => Cardinality(S) = 1)
        /\ (Single(R) => Cardinality(R) = 1) /\ (Single(I) => Cardinality(I) = 1)
    BY <1>2
  <1>4. QED BY <1>1, <1>3 DEF InOnePlace

\* At first there is no attempt.
LEMMA OutcomesInit == Init => OutcomesInv
  <1> SUFFICES ASSUME Init PROVE OutcomesInv
    OBVIOUS
  <1>1. TypeOK
    BY TypeInit
  <1>2. /\ task = "loop" /\ sending = <<>> /\ buffer = <<>> /\ received = {}
        /\ attempts = <<>> /\ aborted = FALSE
    BY Zenon DEF Init
  <1>3. QED
    BY <1>1, <1>2 DEF OutcomesInv, SendingKnown, OutcomesKnown, AbortedIsDropped, OnePlace

\* Every step keeps each outcome in its place.
LEMMA OutcomesNext == OutcomesInv /\ [Next]_vars => OutcomesInv'
  <1> SUFFICES ASSUME OutcomesInv, [Next]_vars PROVE OutcomesInv'
    OBVIOUS
  <1>1. TypeOK'
    BY TypeStep DEF OutcomesInv
  <1>2. QED BY <1>1, KnownStep, OnePlaceStep DEF OutcomesInv

\* Whatever the feeds, the limits and the pace of the receiver, no outcome of an attempt
\* is lost and none is reported twice.
THEOREM OutcomeOnce == Spec => []OutcomesConserved
  <1>1. OutcomesInv => OutcomesConserved
    <2> SUFFICES ASSUME OutcomesInv, HandleLives, ~timedOut, NEW n \in 1 .. Len(attempts)
                 PROVE  Cardinality(Places(buffer, n)) + Cardinality(Places(sending, n))
                          + Cardinality(Got(n)) + Cardinality({n} \cap inflight) = 1
      BY Zenon DEF OutcomesConserved, Places, Got
    <2>1. InOnePlace(Places(buffer, n), Places(sending, n), Got(n), {n} \cap inflight)
      BY DEF OutcomesInv, OnePlace
    <2>2. QED BY <2>1, OnePlaceCounts
  <1>2. QED
    BY <1>1, OutcomesInit, OutcomesNext, PTL DEF Spec

-----------------------------------------------------------------------------
(* What an error of first() means.  When it returns, the task has found    *)
(* the stream at its end, and by OnePlace every outcome was received.      *)

\* Nothing comes after the end of the stream.
EndIsEnd == exhausted => \A f \in Merged : feeds[f] = <<>>

\* Without abort and timeout the task ends only at the end of the stream.
DoneAtEnd ==
  /\ task = "done" => inflight = {}
  /\ task = "done" /\ HandleLives /\ ~timedOut => exhausted

\* An attempt that made a channel is not reported as failed.
Truthful ==
  HandleLives /\ ~timedOut =>
    /\ reached \cap inflight = {}
    /\ \A i \in 1 .. Len(buffer) : buffer[i].attempt \in reached => buffer[i].ok
    /\ \A i \in 1 .. Len(sending) : sending[i].attempt \in reached => sending[i].ok
    /\ \A o \in received : o.attempt \in reached => o.ok

\* first() goes on after failures only, and fails after the task's end.
FirstGoesOn ==
  /\ handle = "first" => \A o \in received : ~o.ok
  /\ handle = "err" => task = "done"

UnreachedInv ==
  OutcomesInv /\ EndIsEnd /\ DoneAtEnd /\ Truthful /\ FirstGoesOn /\ ErrMeansUnreached

\* Items are taken before the end only.
LEMMA EndStep == ASSUME EndIsEnd, [Next]_vars PROVE EndIsEnd'
  <1>1. ASSUME NEW f \in Feeds, PassOver(f) \/ DiscoverError(f) PROVE EndIsEnd'
    BY <1>1 DEF PassOver, DiscoverError, CanDiscover, taskVars, EndIsEnd
  <1>2. ASSUME NEW f \in Feeds, NEW p \in Item, Discover(f, p) PROVE EndIsEnd'
    BY <1>2 DEF Discover, CanDiscover, EndIsEnd
  <1>3. CASE DiscoverNone
    BY <1>3 DEF DiscoverNone, Exhausted, EndIsEnd, Merged, ScopeMatches, engineVars
  <1>4. ASSUME UNCHANGED <<feeds, scope, exhausted>> PROVE EndIsEnd'
    BY <1>4 DEF EndIsEnd, Merged, ScopeMatches
  <1>5. QED
    BY <1>1, <1>2, <1>3, <1>4, Zenon
    DEF Next, TaskStep, vars, taskVars, engineVars, Complete, Send, SendFails, Finish, Timeout,
        AbortTakesEffect, Receive, ReceiveNone, DropHandle

\* The task drops its attempts when it ends.
LEMMA DoneStep == ASSUME OutcomesInv, DoneAtEnd, [Next]_vars PROVE DoneAtEnd'
  <1>1. ASSUME task' # "done" PROVE DoneAtEnd'
    BY <1>1 DEF DoneAtEnd
  <1>2. CASE Finish
    <2>1. Cardinality({}) = 0
      BY FS_EmptySet
    <2>2. exhausted /\ exhausted' = exhausted /\ inflight' = {}
      BY <1>2, <2>1, LimitsAssumption DEF Finish, CanDiscover, Drop
    <2>3. QED BY <2>2 DEF DoneAtEnd
  <1>3. CASE SendFails \/ Timeout \/ AbortTakesEffect
    BY <1>3 DEF SendFails, Timeout, AbortTakesEffect, Drop, DoneAtEnd, HandleLives, handleVars,
       OutcomesInv, AbortedIsDropped
  <1>4. CASE Receive \/ ReceiveNone \/ DropHandle
    BY <1>4 DEF Receive, ReceiveNone, DropHandle, DoneAtEnd, HandleLives, taskVars
  <1>5. CASE UNCHANGED vars
    BY <1>5 DEF vars, taskVars, handleVars, DoneAtEnd, HandleLives
  <1>6. QED
    BY <1>1, <1>2, <1>3, <1>4, <1>5, Zenon
    DEF Next, TaskStep, taskVars, Complete, Discover, DiscoverError, PassOver, DiscoverNone, Send

\* Truthful when the outcomes stay, or the handle or the time is given up.
LEMMA TruthStays ==
  ASSUME Truthful, \/ ~HandleLives' \/ timedOut'
                   \/ /\ UNCHANGED <<inflight, reached, sending, buffer, received>>
                      /\ HandleLives' => HandleLives /\ timedOut' = timedOut
  PROVE  Truthful'
  <1>1. CASE ~HandleLives' \/ timedOut'
    BY <1>1 DEF Truthful
  <1>2. CASE /\ UNCHANGED <<inflight, reached, sending, buffer, received>>
             /\ HandleLives' => HandleLives /\ timedOut' = timedOut
    BY <1>2 DEF Truthful
  <1>3. QED BY <1>1, <1>2

\* The outcome of an attempt that ends is the first one of it.
LEMMA CompleteTruth ==
  ASSUME OutcomesInv, Truthful, NEW n \in inflight, NEW ok \in BOOLEAN, Complete(n, ok)
  PROVE  Truthful'
  <1>1. /\ sending' = <<[attempt |-> n, ok |-> ok]>> /\ inflight' = inflight \ {n}
        /\ reached' = (IF ok THEN reached \cup {n} ELSE reached)
        /\ UNCHANGED <<buffer, received, handle, timedOut>>
    BY DEF Complete, handleVars
  <1> SUFFICES ASSUME HandleLives, ~timedOut PROVE Truthful'
    BY <1>1 DEF Truthful, HandleLives
  <1>2. n \in 1 .. Len(attempts)
    BY TypeParts DEF OutcomesInv, AttemptsType
  <1>3. Places(buffer, n) = {} /\ Got(n) = {}
    <2>1. InOnePlace(Places(buffer, n), Places(sending, n), Got(n), {n} \cap inflight)
      BY <1>2 DEF OutcomesInv, OnePlace
    <2>2. {n} \cap inflight # {}
      OBVIOUS
    <2>3. QED BY <2>1, <2>2 DEF InOnePlace
  <1>4. n \notin reached
    BY DEF Truthful
  <1>5. reached' \cap inflight' = {}
    BY <1>1 DEF Truthful
  <1>6. \A i \in 1 .. Len(buffer) : buffer[i].attempt \in reached' => buffer[i].ok
    BY <1>1, <1>3 DEF Truthful, Places
  <1>7. \A o \in received : o.attempt \in reached' => o.ok
    BY <1>1, <1>3 DEF Truthful, Got
  <1>8. Len(sending') = 1 /\ sending'[1].attempt = n /\ sending'[1].ok = ok
    BY <1>1
  <1>9. \A i \in 1 .. Len(sending') : sending'[i].attempt \in reached' => sending'[i].ok
    BY <1>1, <1>4, <1>8
  <1>10. QED BY <1>1, <1>5, <1>6, <1>7, <1>9 DEF Truthful

\* No step reports an attempt that made a channel as failed.
LEMMA TruthStep == ASSUME OutcomesInv, Truthful, [Next]_vars PROVE Truthful'
  <1>t. AttemptsType /\ OutcomesType
    BY TypeParts DEF OutcomesInv
  <1>0. /\ reached \subseteq 1 .. Len(attempts) /\ Len(attempts) \in Nat
        /\ buffer \in Seq(Outcome) /\ sending \in Seq(Outcome)
    BY <1>t DEF AttemptsType, OutcomesType
  <1>1. ASSUME NEW n \in inflight, NEW ok \in BOOLEAN, Complete(n, ok) PROVE Truthful'
    BY <1>1, CompleteTruth
  <1>2. ASSUME NEW f \in Feeds, NEW p \in Item, Discover(f, p) PROVE Truthful'
    <2>1. /\ inflight' = inflight \cup {Len(attempts) + 1}
          /\ UNCHANGED <<reached, sending, buffer, received, handle, timedOut>>
      BY <1>2, Zenon DEF Discover, handleVars
    <2>2. Len(attempts) + 1 \notin reached
      BY <1>0
    <2>3. QED BY <2>1, <2>2 DEF Truthful, HandleLives
  <1>3. ASSUME NEW f \in Feeds, DiscoverError(f) PROVE Truthful'
    <2>1. /\ sending' = <<StreamError>>
          /\ UNCHANGED <<inflight, reached, buffer, received, handle, timedOut>>
      BY <1>3, Zenon DEF DiscoverError, handleVars
    <2>2. Len(sending') = 1 /\ sending'[1].attempt = 0 /\ 0 \notin reached
      BY <1>0, <2>1 DEF StreamError
    <2>3. QED BY <2>1, <2>2 DEF Truthful, HandleLives
  <1>4. CASE Send
    <2>1. /\ sending' = <<>> /\ buffer' = buffer \o sending /\ task = "sending"
          /\ UNCHANGED <<inflight, reached, received, handle, timedOut>>
      BY <1>4, Zenon DEF Send, handleVars
    <2>2. Len(sending) = 1
      BY <2>1 DEF OutcomesInv, SendingKnown
    <2>3. /\ Len(buffer') = Len(buffer) + 1 /\ buffer'[Len(buffer) + 1] = sending[1]
          /\ \A i \in 1 .. Len(buffer) : buffer'[i] = buffer[i]
          /\ Len(buffer) \in Nat /\ Len(sending') = 0
      BY <1>0, <2>1, <2>2, ConcatOne
    <2>4. QED BY <2>1, <2>2, <2>3 DEF Truthful, HandleLives
  <1>5. CASE SendFails \/ DropHandle \/ Timeout \/ AbortTakesEffect \/ ReceiveNone
    <2>1. ~HandleLives' \/ timedOut'
      BY <1>5 DEF SendFails, DropHandle, Timeout, AbortTakesEffect, ReceiveNone, handleVars,
         HandleLives, OutcomesInv, AbortedIsDropped
    <2>2. QED BY <2>1, TruthStays
  <1>6. CASE Finish
    <2>1. UNCHANGED <<inflight, reached, sending, buffer, received, handle, timedOut>>
      BY <1>6 DEF Finish, Drop, OutcomesInv, SendingKnown, handleVars
    <2>2. QED BY <2>1, TruthStays DEF HandleLives
  <1>7. CASE Receive
    <2>1. CASE ~HandleLives'
      BY <2>1, TruthStays
    <2>2. CASE HandleLives'
      <3>1. /\ received' = received \cup {Head(buffer)} /\ buffer' = Tail(buffer) /\ buffer # <<>>
            /\ HandleLives /\ UNCHANGED <<inflight, reached, sending, timedOut>>
        BY <1>7, <2>2 DEF Receive, HandleLives
      <3>2. /\ Len(buffer) \in Nat /\ 1 \in 1 .. Len(buffer) /\ Head(buffer) = buffer[1]
            /\ Len(buffer') = Len(buffer) - 1
            /\ \A i \in 1 .. Len(buffer) - 1 : buffer'[i] = buffer[i + 1]
        BY <1>0, <3>1
      <3>3. QED BY <3>1, <3>2 DEF Truthful
    <2>3. QED BY <2>1, <2>2
  <1>8. ASSUME UNCHANGED <<inflight, reached, sending, buffer, received, handle, timedOut>>
        PROVE  Truthful'
    BY <1>8, TruthStays DEF HandleLives
  <1>9. QED
    BY <1>1, <1>2, <1>3, <1>4, <1>5, <1>6, <1>7, <1>8, Zenon
    DEF Next, TaskStep, vars, taskVars, handleVars, PassOver, DiscoverNone

\* first() returns at the first channel, and its error is final.
LEMMA FirstStep == ASSUME FirstGoesOn, [Next]_vars PROVE FirstGoesOn'
  <1>1. ASSUME UNCHANGED <<handle, received>>, task = "done" => task' = "done" PROVE FirstGoesOn'
    BY <1>1 DEF FirstGoesOn
  <1>2. CASE Receive
    <2>1. received' = received \cup {Head(buffer)} /\ task' = task
      BY <1>2, Zenon DEF Receive
    <2>2. handle' = "first" => handle = "first" /\ ~Head(buffer).ok
      BY <1>2 DEF Receive
    <2>3. handle' # "err"
      BY <1>2 DEF Receive, HandleLives
    <2>4. QED BY <2>1, <2>2, <2>3 DEF FirstGoesOn
  <1>3. CASE ReceiveNone \/ DropHandle
    BY <1>3 DEF ReceiveNone, DropHandle, taskVars, FirstGoesOn
  <1>4. QED
    BY <1>1, <1>2, <1>3, Zenon
    DEF Next, TaskStep, vars, taskVars, handleVars, Complete, Discover, DiscoverError, PassOver,
        DiscoverNone, Send, SendFails, Finish, Timeout, AbortTakesEffect, Drop

\* When first() finds the channel empty and closed, every outcome was received and is
\* a failure.
LEMMA NoneMeansUnreached ==
  ASSUME UnreachedInv, ReceiveNone
  PROVE  ErrMeansUnreached'
  <1>1. /\ handle = "first" /\ task = "done" /\ buffer = <<>>
        /\ UNCHANGED <<engineVars, attempts, reached, received, timedOut>>
    BY DEF ReceiveNone, taskVars
  <1> SUFFICES ASSUME ~timedOut PROVE ErrMeansUnreached'
    BY <1>1 DEF ErrMeansUnreached
  <1>2. HandleLives
    BY <1>1 DEF HandleLives
  <1>3. inflight = {} /\ exhausted /\ sending = <<>>
    BY <1>1, <1>2 DEF UnreachedInv, DoneAtEnd, OutcomesInv, SendingKnown
  <1>4. ASSUME NEW n \in 1 .. Len(attempts)
        PROVE  [attempt |-> n, ok |-> FALSE] \in received /\ n \notin reached
    <2>1. InOnePlace(Places(<<>>, n), Places(<<>>, n), Got(n), {n} \cap {})
      BY <1>1, <1>2, <1>3 DEF UnreachedInv, OutcomesInv, OnePlace
    <2>2. Places(<<>>, n) = {}
      BY DEF Places
    <2>3. Got(n) # {}
      BY <2>1, <2>2 DEF InOnePlace, Single
    <2>4. PICK o \in received : o.attempt = n
      BY <2>3 DEF Got
    <2>5. o.ok = FALSE /\ o \in Outcome
      BY <1>1, TypeParts DEF UnreachedInv, FirstGoesOn, OutcomesInv, OutcomesType, Outcome
    <2>6. o = [attempt |-> n, ok |-> FALSE]
      BY <2>4, <2>5 DEF Outcome
    <2>7. n \notin reached
      BY <1>2, <2>4, <2>5 DEF UnreachedInv, Truthful
    <2>8. QED BY <2>4, <2>6, <2>7
  <1>5. reached = {}
    BY <1>4, TypeParts DEF UnreachedInv, OutcomesInv, AttemptsType
  <1>6. Offered = {}
    BY <1>3 DEF UnreachedInv, EndIsEnd, Offered
  <1>7. Offered' = Offered
    BY <1>1 DEF Offered, Merged, ScopeMatches, engineVars
  <1>8. QED BY <1>1, <1>4, <1>5, <1>6, <1>7 DEF ErrMeansUnreached

\* After its error first() is over, and so is the task.
LEMMA ErrStep == ASSUME UnreachedInv, [Next]_vars PROVE ErrMeansUnreached'
  <1>1. CASE ReceiveNone
    BY <1>1, NoneMeansUnreached
  <1>2. ASSUME handle' # "err" PROVE ErrMeansUnreached'
    BY <1>2 DEF ErrMeansUnreached
  <1>3. CASE Receive \/ DropHandle
    BY <1>2, <1>3 DEF Receive, DropHandle, HandleLives
  <1>4. CASE UNCHANGED vars
    BY <1>4 DEF vars, engineVars, taskVars, handleVars, UnreachedInv, ErrMeansUnreached, Offered,
       Merged, ScopeMatches
  <1>5. ASSUME UNCHANGED handle, task # "done" PROVE ErrMeansUnreached'
    BY <1>2, <1>5 DEF UnreachedInv, FirstGoesOn
  <1>6. QED
    BY <1>1, <1>3, <1>4, <1>5
    DEF Next, TaskStep, handleVars, Complete, Discover, DiscoverError, PassOver,
        DiscoverNone, Send, SendFails, Finish, Timeout, AbortTakesEffect

\* Locator::first without an overall timeout fails only when every peer that a feed for the
\* service announced was tried and every attempt failed, for any feeds and limits.
THEOREM ErrIsHonest == Spec => []ErrMeansUnreached
  <1>1. Init => UnreachedInv
    <2> SUFFICES ASSUME Init PROVE UnreachedInv
      OBVIOUS
    <2>1. OutcomesInv
      BY OutcomesInit
    <2>2. /\ task = "loop" /\ sending = <<>> /\ buffer = <<>> /\ received = {} /\ inflight = {}
          /\ reached = {} /\ exhausted = FALSE /\ handle # "err"
      BY DEF Init
    <2>3. QED
      BY <2>1, <2>2 DEF UnreachedInv, EndIsEnd, DoneAtEnd, Truthful, FirstGoesOn, ErrMeansUnreached
  <1>2. UnreachedInv /\ [Next]_vars => UnreachedInv'
    <2> SUFFICES ASSUME UnreachedInv, [Next]_vars PROVE UnreachedInv'
      OBVIOUS
    <2>1. OutcomesInv'
      BY OutcomesNext DEF UnreachedInv
    <2>2. QED
      BY <2>1, EndStep, DoneStep, TruthStep, FirstStep, ErrStep DEF UnreachedInv
  <1>3. UnreachedInv => ErrMeansUnreached
    BY DEF UnreachedInv
  <1>4. QED
    BY <1>1, <1>2, <1>3, PTL DEF Spec
=============================================================================
