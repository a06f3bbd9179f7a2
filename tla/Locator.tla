------------------------------ MODULE Locator ------------------------------
(***************************************************************************)
(* The locator of src/swarm/locator.rs: a task that takes peers from the   *)
(* engine's stream, races pool.channel(..) for up to max_inflight of them, *)
(* and sends every outcome through a bounded channel to its handle, which  *)
(* is either used as a stream or consumed by first().                      *)
(*                                                                         *)
(* The attempts are futures inside the task, in a FuturesUnordered: they   *)
(* make no progress while the task awaits room in the channel.             *)
(***************************************************************************)
EXTENDS SwarmEngine

CONSTANTS
  MaxInflight,  \* LocatorConfig::max_inflight
  Limit,        \* LocatorConfig::limit, the channel's capacity
  Timeouts      \* whether LocatorConfig::timeout is Some: a set of BOOLEANs

\* mpsc::channel(0) panics; with max_inflight = 0 the task ends at once.
ASSUME LimitsAssumption ==
  /\ MaxInflight \in Nat \ {0} /\ Limit \in Nat \ {0} /\ Timeouts \subseteq BOOLEAN

VARIABLES
  task,       \* "loop", "sending", "done"
  attempts,   \* the peers push_attempt was called for, in order
  inflight,   \* the attempts in the FuturesUnordered, by number
  exhausted,  \* stream_exhausted
  reached,    \* the attempts that have made a channel (history)
  sending,    \* the outcome the task awaits to send: <<>> or <<outcome>>
  buffer,     \* the channel
  handle,     \* the Locator: "first", "stream", "ok", "err", "dropped"
  received,   \* the outcomes the handle's owner has got
  aborted,    \* task.abort() was called
  hasTimeout, \* opts.timeout is Some
  timedOut    \* it has elapsed

taskVars == <<task, attempts, inflight, exhausted, reached, sending, buffer>>
handleVars == <<handle, received, aborted>>
vars == <<engineVars, taskVars, handleVars, hasTimeout, timedOut>>

\* An outcome of attempt n, or of the stream itself (n = 0).
Outcome == [attempt : Nat, ok : BOOLEAN]
StreamError == [attempt |-> 0, ok |-> FALSE]

Init ==
  /\ EngineInit
  /\ task = "loop" /\ attempts = <<>> /\ inflight = {} /\ exhausted = FALSE
  /\ reached = {} /\ sending = <<>> /\ buffer = <<>>
  /\ handle \in {"first", "stream"} /\ received = {} /\ aborted = FALSE
  /\ hasTimeout \in Timeouts /\ timedOut = FALSE

HandleLives == handle \in {"first", "stream"}

-----------------------------------------------------------------------------
(* The task: LocatorState::run.                                            *)

\* Mutant of CanDiscover: one attempt too many.
CanDiscoverLate == ~exhausted /\ Cardinality(inflight) <= MaxInflight

CanDiscover == ~exhausted /\ Cardinality(inflight) < MaxInflight

\* Branch 1 of the select!: an attempt ends, well or not (its own timeout_each,
\* the pool's errors, the handshake).  Its outcome is to be sent.
Complete(n, ok) ==
  /\ task = "loop" /\ n \in inflight
  /\ task' = "sending" /\ sending' = <<[attempt |-> n, ok |-> ok]>>
  /\ inflight' = inflight \ {n}
  /\ reached' = IF ok THEN reached \cup {n} ELSE reached
  /\ UNCHANGED <<engineVars, attempts, exhausted, buffer, handleVars,
                 hasTimeout, timedOut>>

\* Branch 2, Some(Ok(peer)): push_attempt.
Discover(f, p) ==
  /\ task = "loop" /\ CanDiscover
  /\ YieldPeer(f, p)
  /\ attempts' = Append(attempts, p)
  /\ inflight' = inflight \cup {Len(attempts) + 1}
  /\ UNCHANGED <<task, exhausted, reached, sending, buffer, handleVars,
                 hasTimeout, timedOut>>

\* Branch 2, the stream passes over an item.
PassOver(f) ==
  /\ task = "loop" /\ CanDiscover /\ Skip(f)
  /\ UNCHANGED <<taskVars, handleVars, hasTimeout, timedOut>>

\* Mutant of DiscoverError: an error ends the stream.
DiscoverErrorEnds(f) ==
  /\ task = "loop" /\ CanDiscover /\ YieldFault(f)
  /\ task' = "sending" /\ sending' = <<StreamError>> /\ exhausted' = TRUE
  /\ UNCHANGED <<attempts, inflight, reached, buffer, handleVars, hasTimeout, timedOut>>

\* Branch 2, Some(Err(err)): the error is to be sent.
DiscoverError(f) ==
  /\ task = "loop" /\ CanDiscover /\ YieldFault(f)
  /\ task' = "sending" /\ sending' = <<StreamError>>
  /\ UNCHANGED <<attempts, inflight, exhausted, reached, buffer, handleVars,
                 hasTimeout, timedOut>>

\* Mutant of DiscoverNone: the end of the stream is not remembered.
DiscoverNoneForgotten ==
  /\ task = "loop" /\ CanDiscover /\ Exhausted
  /\ UNCHANGED vars

\* Branch 2, None.
DiscoverNone ==
  /\ task = "loop" /\ CanDiscover /\ Exhausted
  /\ exhausted' = TRUE
  /\ UNCHANGED <<engineVars, task, attempts, inflight, reached, sending, buffer, handleVars,
                 hasTimeout, timedOut>>

\* Mutant of Send: try_send, whose failure is ignored.
SendOrDiscard ==
  /\ task = "sending" /\ HandleLives
  /\ task' = "loop" /\ sending' = <<>>
  /\ buffer' = IF Len(buffer) < Limit THEN buffer \o sending ELSE buffer
  /\ UNCHANGED <<engineVars, attempts, inflight, exhausted, reached, handleVars,
                 hasTimeout, timedOut>>

\* tx.send completes: there is room.
Send ==
  /\ task = "sending" /\ HandleLives /\ Len(buffer) < Limit
  /\ task' = "loop" /\ sending' = <<>> /\ buffer' = buffer \o sending
  /\ UNCHANGED <<engineVars, attempts, inflight, exhausted, reached, handleVars,
                 hasTimeout, timedOut>>

\* The task's future is dropped, with its attempts and the outcome it was to send.
Drop == task' = "done" /\ inflight' = {} /\ sending' = <<>>

\* tx.send fails because the receiver is gone: the loop ends after an attempt's
\* outcome and goes on after an error of the stream.
SendFails ==
  /\ task = "sending" /\ ~HandleLives
  /\ \/ sending # <<StreamError>> /\ Drop
     \/ sending = <<StreamError>> /\ task' = "loop" /\ sending' = <<>> /\ UNCHANGED inflight
  /\ UNCHANGED <<engineVars, attempts, exhausted, reached, buffer, handleVars,
                 hasTimeout, timedOut>>

\* Nothing to discover and nothing in flight.
Finish ==
  /\ task = "loop" /\ ~CanDiscover /\ inflight = {} /\ Drop
  /\ UNCHANGED <<engineVars, attempts, exhausted, reached, buffer, handleVars,
                 hasTimeout, timedOut>>

\* The overall timeout elapses while the task waits: in its select, or for room.
Timeout ==
  /\ hasTimeout /\ ~timedOut
  /\ task = "loop" \/ (task = "sending" /\ Len(buffer) = Limit)
  /\ timedOut' = TRUE /\ Drop
  /\ UNCHANGED <<engineVars, attempts, exhausted, reached, buffer, handleVars,
                 hasTimeout>>

\* The runtime drops an aborted task the next time it would run.
AbortTakesEffect ==
  /\ aborted /\ task # "done" /\ Drop
  /\ UNCHANGED <<engineVars, attempts, exhausted, reached, buffer, handleVars,
                 hasTimeout, timedOut>>

TaskStep ==
  \/ \E n \in inflight, ok \in BOOLEAN : Complete(n, ok)
  \/ \E f \in Feeds : \/ PassOver(f) \/ DiscoverError(f)
                      \/ \E p \in Item : Discover(f, p)
  \/ DiscoverNone \/ Send \/ SendFails \/ Finish \/ AbortTakesEffect

-----------------------------------------------------------------------------
(* The handle.                                                             *)

\* An outcome is received; first() stops at the first channel, and dropping the
\* handle aborts the task and closes the channel.
Receive ==
  LET o == Head(buffer)
      over == handle = "first" /\ o.ok
  IN  /\ HandleLives /\ buffer # <<>>
      /\ received' = received \cup {o}
      /\ handle' = IF over THEN "ok" ELSE handle
      /\ aborted' = (aborted \/ over)
      /\ buffer' = IF over THEN <<>> ELSE Tail(buffer)
      /\ UNCHANGED <<engineVars, task, attempts, inflight, exhausted, reached, sending,
                     hasTimeout, timedOut>>

\* recv() returns None: the task is over and the channel is empty.  first() then
\* returns its last error, or "no peers reachable".
ReceiveNone ==
  /\ handle = "first" /\ task = "done" /\ buffer = <<>>
  /\ handle' = "err" /\ aborted' = TRUE
  /\ UNCHANGED <<engineVars, taskVars, received, hasTimeout, timedOut>>

\* Mutant of DropHandle: no abort.
DropHandleOnly ==
  /\ HandleLives /\ handle' = "dropped" /\ buffer' = <<>>
  /\ UNCHANGED <<engineVars, task, attempts, inflight, exhausted, reached, sending, received,
                 aborted, hasTimeout, timedOut>>

\* Locator::drop, also of a first() that is cancelled.
DropHandle ==
  /\ HandleLives /\ handle' = "dropped" /\ aborted' = TRUE /\ buffer' = <<>>
  /\ UNCHANGED <<engineVars, task, attempts, inflight, exhausted, reached, sending, received,
                 hasTimeout, timedOut>>

Next == TaskStep \/ Timeout \/ Receive \/ ReceiveNone \/ DropHandle

Spec == Init /\ [][Next]_vars

-----------------------------------------------------------------------------
(* Invariants.                                                             *)

\* Every variable has its type.
TypeOK ==
  /\ feeds \in [Feeds -> Seq(Item)] /\ scope \in [Feeds -> Scopes]
  /\ endless \subseteq Feeds /\ seen \subseteq Peers
  /\ task \in {"loop", "sending", "done"} /\ attempts \in Seq(Peers)
  /\ inflight \subseteq 1 .. Len(attempts) /\ exhausted \in BOOLEAN
  /\ sending \in Seq(Outcome) /\ buffer \in Seq(Outcome)
  /\ reached \subseteq 1 .. Len(attempts)
  /\ handle \in {"first", "stream", "ok", "err", "dropped"} /\ received \subseteq Outcome
  /\ aborted \in BOOLEAN /\ hasTimeout \in BOOLEAN /\ timedOut \in BOOLEAN

\* A peer is tried at most once and the local endpoint never, however often and
\* through however many feeds it is announced.
EachPeerOnce ==
  \A i, j \in 1 .. Len(attempts) : /\ attempts[i] # Local
                                   /\ attempts[i] = attempts[j] => i = j

\* However slowly the handle's owner receives, the attempts under way and the
\* outcomes not yet received together stay within max_inflight + limit: the outcome
\* that waits for room takes the place of an attempt.
Undelivered == Cardinality(inflight) + Len(sending) + Len(buffer)

BackPressure == Cardinality(inflight) <= MaxInflight /\ Undelivered <= MaxInflight + Limit

\* As long as the handle lives and the timeout has not fired, every attempt is
\* under way or its outcome is on its way or received, each once: none is lost and
\* none is reported twice.
OutcomesConserved ==
  HandleLives /\ ~timedOut =>
    \A n \in 1 .. Len(attempts) :
      Cardinality({i \in 1 .. Len(buffer) : buffer[i].attempt = n})
        + Cardinality({i \in 1 .. Len(sending) : sending[i].attempt = n})
        + Cardinality({o \in received : o.attempt = n})
        + Cardinality({n} \cap inflight) = 1

\* first() fails only if no peer could be reached: without an overall timeout,
\* every peer that any feed for this service announced has been tried, and every
\* attempt has failed.
ErrMeansUnreached ==
  handle = "err" /\ ~timedOut =>
    /\ Offered = {} /\ reached = {}
    /\ \A n \in 1 .. Len(attempts) : [attempt |-> n, ok |-> FALSE] \in received

-----------------------------------------------------------------------------
(* Liveness.  The runtime polls a task that is ready, an attempt ends      *)
(* because timeout_each bounds it, first() receives in a loop, and a timer *)
(* that is set fires.  The owner of a stream need not receive.             *)

Fairness ==
  /\ WF_vars(TaskStep) /\ WF_vars(Timeout)
  /\ WF_vars(handle = "first" /\ Receive) /\ WF_vars(ReceiveNone)

FairSpec == Spec /\ Fairness

\* first() returns when every feed ends or an overall timeout is set.
FirstReturns ==
  handle = "first" /\ (hasTimeout \/ endless \cap Merged = {}) ~> handle # "first"

\* Once the handle is dropped, or first() has returned, the task ends and no
\* attempt goes on in the background, also if the feeds never end.
DropStopsTask == ~HandleLives ~> (task = "done" /\ inflight = {})
=============================================================================
