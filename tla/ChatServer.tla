----------------------------- MODULE ChatServer -----------------------------
(***************************************************************************)
(* The chat node of examples/chat: the RPC handlers over the shared        *)
(* ChatState, the forwarder task of each subscriber, main's wait for the   *)
(* shutdown signal, and its clients: the benchmark, which keeps            *)
(* max_concurrent calls of send_message going, chat streams and            *)
(* subscribers.                                                            *)
(*                                                                         *)
(* The subscribers' RwLock is tokio's: waiters are served first come first *)
(* served, so that a waiting writer holds up the readers behind it.        *)
(* add_message keeps it for reading while it awaits room in each           *)
(* subscriber's channel; writers keep it for one step.  The list of all    *)
(* messages is only appended to here, under a lock that is never held      *)
(* across an await, and is left out.  tonic drops the future of a handler  *)
(* whose client is gone (external).                                        *)
(*                                                                         *)
(* Calls, messages and subscribers keep coming: a message's number is used *)
(* again when the message has been read by all, and a subscriber that has  *)
(* been removed stands for the next one.                                   *)
(***************************************************************************)
EXTENDS Naturals, Sequences, FiniteSets, SequencesExt

CONSTANTS
  Calls,          \* the benchmark's concurrent calls of send_message
  Streams,        \* clients of chat_stream
  Subs,           \* clients of subscribe_messages
  Crowds,         \* which of these clients occur together
  Capacity,       \* mpsc::channel(100), of messages and of results
  MaxRequests,    \* --max-requests, 0 if not given
  MaxMessages     \* bound on the environment: messages on their way at once

Tasks == Calls \cup Streams

ASSUME ChatAssumption ==
  /\ Calls \cap Streams = {} /\ Tasks \cap Subs = {}
  /\ Crowds \subseteq SUBSET (Tasks \cup Subs)
  /\ Capacity \in Nat \ {0} /\ MaxRequests \in Nat
  /\ MaxMessages \in Nat

VARIABLES
  table,      \* ChatState.subscribers: those that have a sender in the map
  readers,    \* who holds the map's lock for reading
  waiting,    \* who waits for it, and for what
  task,       \* the handlers of send_message and chat_stream
  sub,        \* the subscribers: handler, forwarder, channels and client
  count,      \* ChatState.request_count, as far as MaxRequests
  main,       \* main: "running" (its select!), "draining" or "stopped"
  signal,     \* a message in the shutdown broadcast channel
  owed        \* history: the messages each subscriber was in the map for and has
              \* not read, but for those whose handler was dropped on the way

vars == <<table, readers, waiting, task, sub, count, main, signal, owed>>

IdleTask == [pc |-> "idle", msg |-> 0, todo |-> {}, echoes |-> 0, client |-> TRUE]

\* The forwarder of a subscriber: "recv" and "forward" are the awaits of its loop,
\* "removing" is remove_subscriber.
NoSub == [handler |-> "none", forwarder |-> "none", client |-> FALSE, inbox |-> <<>>,
          hand |-> <<>>, outbox |-> <<>>]

\* Once main has returned the process ends, and with it every task.
Alive == main # "stopped"

\* A client that does not occur is one that is done from the start.
AbsentTask == [IdleTask EXCEPT !.pc = "done", !.client = FALSE]
AbsentSub == [NoSub EXCEPT !.handler = "gone"]

Init ==
  /\ table = {} /\ readers = {} /\ waiting = <<>>
  /\ \E crowd \in Crowds :
       /\ task = [t \in Tasks |-> IF t \in crowd THEN IdleTask ELSE AbsentTask]
       /\ sub = [s \in Subs |-> IF s \in crowd THEN NoSub ELSE AbsentSub]
  /\ count = 0 /\ main = "running" /\ signal = FALSE
  /\ owed = [s \in Subs |-> {}]

-----------------------------------------------------------------------------
(* The lock of the subscriber map.                                         *)

Want(mode, who) == [mode |-> mode, who |-> who]

\* A writer gets the lock when it is first in line and nobody reads.
CanWrite(mode, who) == waiting # <<>> /\ Head(waiting) = Want(mode, who) /\ readers = {}

\* A future that is dropped leaves the line.
Unqueue(who) == LET Other(w) == w.who # who IN SelectSeq(waiting, Other)

-----------------------------------------------------------------------------
(* add_message, send_message and chat_stream.                              *)

OnlyTask == Alive /\ UNCHANGED <<table, sub, main>>

\* The numbers that no message on its way has.
Unused == {m \in 1 .. MaxMessages : /\ \A t \in Tasks : task[t].msg # m
                                   /\ \A s \in Subs : m \notin owed[s]}

\* A call or a message arrives: add_message appends it to the list of messages and
\* joins the line for subscribers.read().await.
Push(t) ==
  /\ task[t].pc = "idle" /\ Unused # {}
  /\ task' = [task EXCEPT ![t].pc = "lock", ![t].msg = CHOOSE m \in Unused : TRUE]
  /\ waiting' = Append(waiting, Want("read", t))

\* Mutant of LockRead: a reader does not wait for the writers in front of it, as with
\* a lock that prefers readers.
LockReadOvertakes(t) ==
  /\ task[t].pc = "lock"
  /\ waiting' = Unqueue(t) /\ readers' = readers \cup {t}
  /\ task' = [task EXCEPT ![t].pc = "sending", ![t].todo = table]
  /\ owed' = [s \in Subs |-> IF s \in table /\ sub[s].client
                          THEN owed[s] \cup {task[t].msg} ELSE owed[s]]
  /\ OnlyTask /\ UNCHANGED <<count, signal>>

LockRead(t) ==
  /\ task[t].pc = "lock" /\ Head(waiting) = Want("read", t)
  /\ waiting' = Tail(waiting) /\ readers' = readers \cup {t}
  /\ task' = [task EXCEPT ![t].pc = "sending", ![t].todo = table]
  /\ owed' = [s \in Subs |-> IF s \in table /\ sub[s].client
                          THEN owed[s] \cup {task[t].msg} ELSE owed[s]]
  /\ OnlyTask /\ UNCHANGED <<count, signal>>

\* Mutant of Fanout: a full channel is passed over (try_send).
FanoutTry(t) ==
  /\ Alive /\ task[t].pc = "sending"
  /\ \E s \in task[t].todo :
       /\ sub' = [sub EXCEPT ![s].inbox =
                    IF Len(@) < Capacity THEN Append(@, task[t].msg) ELSE @]
       /\ task' = [task EXCEPT ![t].todo = @ \ {s}]
  /\ UNCHANGED <<table, readers, waiting, count, main, signal, owed>>

\* sender.send(..).await for the next subscriber, in the order of the map (any).
Fanout(t) ==
  /\ Alive /\ task[t].pc = "sending"
  /\ \E s \in task[t].todo :
       /\ Len(sub[s].inbox) < Capacity
       /\ sub' = [sub EXCEPT ![s].inbox = Append(@, task[t].msg)]
       /\ task' = [task EXCEPT ![t].todo = @ \ {s}]
  /\ UNCHANGED <<table, readers, waiting, count, main, signal, owed>>

\* The loop is over and the guard is dropped.
AddMessageDone(t) ==
  /\ task[t].pc = "sending" /\ task[t].todo = {}
  /\ readers' = readers \ {t}
  /\ task' = [task EXCEPT ![t].pc = IF t \in Calls THEN "count" ELSE "echoing",
                          ![t].msg = 0]
  /\ OnlyTask /\ UNCHANGED <<waiting, count, signal, owed>>

\* Mutant of CountRequest: fetch_add's result is taken for the new count.
CountRequestLate(t) ==
  /\ task[t].pc = "count"
  /\ count' = IF count < MaxRequests THEN count + 1 ELSE count
  /\ signal' = (signal \/ (MaxRequests # 0 /\ count >= MaxRequests))
  /\ task' = [task EXCEPT ![t] = [IdleTask EXCEPT !.pc = "returned"]]
  /\ OnlyTask /\ UNCHANGED <<readers, waiting, owed>>

\* fetch_add, the shutdown signal from max_requests on, and the response.
CountRequest(t) ==
  /\ task[t].pc = "count"
  /\ count' = IF count < MaxRequests THEN count + 1 ELSE count
  /\ signal' = (signal \/ (MaxRequests # 0 /\ count + 1 >= MaxRequests))
  /\ task' = [task EXCEPT ![t] = [IdleTask EXCEPT !.pc = "returned"]]
  /\ OnlyTask /\ UNCHANGED <<readers, waiting, owed>>

InHandler(t) == task[t].pc \in {"lock", "sending", "count"}

\* add_message waits for the lock or for room in a channel.
Awaiting(t) == task[t].pc = "lock" \/ task[t].todo # {}

\* A call of send_message fails on the way: its handler is dropped at an await, with
\* its place in the line or its guard, and the client gets an error.
CallFails(t) ==
  /\ t \in Calls /\ Awaiting(t)
  /\ waiting' = Unqueue(t) /\ readers' = readers \ {t}
  /\ owed' = [s \in Subs |-> IF s \in task[t].todo THEN owed[s] \ {task[t].msg} ELSE owed[s]]
  /\ task' = [task EXCEPT ![t] = [IdleTask EXCEPT !.pc = "returned"]]
  /\ OnlyTask /\ UNCHANGED <<count, signal>>

\* chat_stream's task: the next request is there.
StreamReceive(t) ==
  /\ t \in Streams /\ main = "running" /\ Push(t) /\ task[t].client
  /\ OnlyTask /\ UNCHANGED <<readers, count, signal, owed>>

\* tx.send(Ok(response)).await: room, or an error that ends the loop.
StreamEcho(t) ==
  /\ t \in Streams /\ task[t].pc = "echoing"
  /\ \/ task[t].client /\ task[t].echoes < Capacity
        /\ task' = [task EXCEPT ![t].pc = "idle", ![t].echoes = @ + 1]
     \/ ~task[t].client /\ task' = [task EXCEPT ![t].pc = "done"]
  /\ OnlyTask /\ UNCHANGED <<readers, waiting, count, signal, owed>>

\* The request stream ends or fails.
StreamEnd(t) ==
  /\ t \in Streams /\ task[t].pc = "idle"
  /\ task' = [task EXCEPT ![t].pc = "done"]
  /\ OnlyTask /\ UNCHANGED <<readers, waiting, count, signal, owed>>

\* The client of a chat stream takes a response, or goes away (external: a gRPC client
\* of the service; interactive_chat of the same file does not get that far, see
\* EveryCallReturns of module Channel).
StreamClient(t) ==
  /\ t \in Streams /\ task[t].client
  /\ \/ task[t].echoes > 0 /\ task' = [task EXCEPT ![t].echoes = @ - 1]
     \/ task' = [task EXCEPT ![t].client = FALSE, ![t].echoes = 0]
  /\ OnlyTask /\ UNCHANGED <<readers, waiting, count, signal, owed>>

TaskStep(t) ==
  \/ LockRead(t) \/ Fanout(t) \/ AddMessageDone(t) \/ CountRequest(t)
  \/ StreamEcho(t)

-----------------------------------------------------------------------------
(* subscribe_messages and its forwarder.                                   *)

OnlySub ==
  Alive /\ UNCHANGED <<readers, task, count, main, signal>>

\* The handler spawns the forwarder and waits for the lock to add the sender.
Subscribe(s) ==
  /\ sub[s].handler = "none" /\ main = "running"
  /\ sub' = [sub EXCEPT ![s].handler = "adding", ![s].forwarder = "recv", ![s].client = TRUE]
  /\ waiting' = Append(waiting, Want("add", s))
  /\ OnlySub /\ UNCHANGED <<table, owed>>

AddSubscriber(s) ==
  /\ sub[s].handler = "adding" /\ CanWrite("add", s)
  /\ waiting' = Tail(waiting) /\ table' = table \cup {s}
  /\ sub' = [sub EXCEPT ![s].handler = "open"]
  /\ OnlySub /\ UNCHANGED owed

\* The client goes away: tonic drops the response stream, or the handler that still
\* waits, and with it the only sender of the forwarder's channel.
Leave(s) ==
  /\ sub[s].client
  /\ sub' = [sub EXCEPT ![s].client = FALSE, ![s].handler = "gone", ![s].outbox = <<>>]
  /\ waiting' = Unqueue(s) /\ owed' = [owed EXCEPT ![s] = {}]
  /\ OnlySub /\ UNCHANGED table

Recv(s) ==
  /\ sub[s].forwarder = "recv" /\ sub[s].inbox # <<>>
  /\ sub' = [sub EXCEPT ![s].forwarder = "forward", ![s].hand = <<Head(sub[s].inbox)>>,
                        ![s].inbox = Tail(@)]
  /\ OnlySub /\ UNCHANGED <<table, waiting, owed>>

Forward(s) ==
  /\ sub[s].forwarder = "forward" /\ sub[s].client /\ Len(sub[s].outbox) < Capacity
  /\ sub' = [sub EXCEPT ![s].forwarder = "recv", ![s].outbox = @ \o sub[s].hand,
                        ![s].hand = <<>>]
  /\ OnlySub /\ UNCHANGED <<table, waiting, owed>>

\* The loop ends: the results have no receiver any more, or the channel no sender.
\* The receiver of the messages lives on while remove_subscriber waits for the lock.
Disconnect(s) ==
  /\ ~sub[s].client
  /\ \/ sub[s].forwarder = "forward"
     \/ sub[s].forwarder = "recv" /\ sub[s].inbox = <<>> /\ s \notin table
  /\ sub' = [sub EXCEPT ![s].forwarder = "removing", ![s].hand = <<>>]
  /\ waiting' = Append(waiting, Want("remove", s))
  /\ OnlySub /\ UNCHANGED <<table, owed>>

RemoveSubscriber(s) ==
  /\ sub[s].forwarder = "removing" /\ CanWrite("remove", s)
  /\ waiting' = Tail(waiting) /\ table' = table \ {s}
  /\ sub' = [sub EXCEPT ![s] = NoSub]
  /\ OnlySub /\ UNCHANGED owed

\* The client of subscribe_messages takes a message.
ReadMessage(s) ==
  /\ sub[s].client /\ sub[s].outbox # <<>>
  /\ sub' = [sub EXCEPT ![s].outbox = Tail(@)]
  /\ owed' = [owed EXCEPT ![s] = @ \ {Head(sub[s].outbox)}]
  /\ OnlySub /\ UNCHANGED <<table, waiting>>

SubStep(s) ==
  \/ AddSubscriber(s) \/ Recv(s) \/ Forward(s) \/ Disconnect(s) \/ RemoveSubscriber(s)

-----------------------------------------------------------------------------
(* The shutdown of the node, and the benchmark.                            *)

\* shutdown_rx.recv in main's select!, then transport_guard.shutdown().
SeeSignal ==
  /\ main = "running" /\ signal /\ main' = "draining"
  /\ UNCHANGED <<table, readers, waiting, task, sub, count, signal, owed>>

\* NodeService::shutdown, or Ctrl-C.
AskShutdown ==
  /\ Alive /\ ~signal /\ signal' = TRUE
  /\ UNCHANGED <<table, readers, waiting, task, sub, count, main, owed>>

\* What the transport's shutdown waits for: calls and response streams in service.
InService ==
  \/ \E t \in Calls : InHandler(t)
  \/ \E t \in Streams : task[t].client /\ task[t].pc # "done"
  \/ \E s \in Subs : sub[s].client

Stopped ==
  /\ main = "draining" /\ ~InService /\ main' = "stopped"
  /\ UNCHANGED <<table, readers, waiting, task, sub, count, signal, owed>>

\* benchmark_messages: a call is spawned while there is time (which may end at any
\* moment, so that nothing obliges it to spawn); a node that shuts down
\* refuses it.
BenchSpawn(t) ==
  /\ t \in Calls /\ task[t].pc = "idle"
  /\ \/ main = "running" /\ Push(t)
     \/ main # "running" /\ task' = [task EXCEPT ![t].pc = "returned"] /\ UNCHANGED waiting
  /\ OnlyTask /\ UNCHANGED <<readers, count, signal, owed>>

\* join_next, in the loop and after it.
BenchJoin(t) ==
  /\ t \in Calls /\ task[t].pc = "returned"
  /\ task' = [task EXCEPT ![t] = IdleTask]
  /\ OnlyTask /\ UNCHANGED <<readers, waiting, count, signal, owed>>

Next ==
  \/ \E t \in Tasks : \/ TaskStep(t) \/ CallFails(t) \/ StreamReceive(t) \/ StreamEnd(t)
                      \/ StreamClient(t) \/ BenchSpawn(t) \/ BenchJoin(t)
  \/ \E s \in Subs : SubStep(s) \/ Subscribe(s) \/ Leave(s) \/ ReadMessage(s)
  \/ SeeSignal \/ AskShutdown \/ Stopped

Spec == Init /\ [][Next]_vars

-----------------------------------------------------------------------------
(* Properties.                                                             *)

Pipeline(s) == sub[s].outbox \o sub[s].hand \o sub[s].inbox

\* A subscriber that stays gets every message that was sent while it was in the map,
\* once, whoever else subscribes, leaves or is slow in the meantime.  The one
\* exception are messages whose send_message was dropped while it was sending: those
\* have reached some subscribers only.
EveryoneHears ==
  \A s \in Subs : sub[s].client =>
    LET given == ToSet(Pipeline(s))
        coming == {task[t].msg : t \in {u \in Tasks : s \in task[u].todo}}
    IN  /\ given \cup coming = owed[s] /\ given \cap coming = {}
        /\ Len(Pipeline(s)) = Cardinality(given)

-----------------------------------------------------------------------------
(* Liveness.  The handlers, the forwarders and main run when they can      *)
(* (weak fairness); a send that waits for room gets it in its turn, since  *)
(* tokio's mpsc hands out permits in the order they were asked for (strong *)
(* fairness of the sends); subscribers that stay read what they get, and   *)
(* the clients of chat streams their echoes.  Nobody has to leave, nothing *)
(* has to fail.                                                            *)

Fairness ==
  /\ \A t \in Tasks : /\ WF_vars(TaskStep(t)) /\ WF_vars(BenchJoin(t)) /\ SF_vars(Fanout(t))
                      /\ WF_vars(StreamClient(t) /\ task'[t].client)
  /\ \A s \in Subs : WF_vars(SubStep(s)) /\ WF_vars(ReadMessage(s))
  /\ WF_vars(SeeSignal) /\ WF_vars(Stopped)

FairSpec == Spec /\ Fairness

\* add_message holds the lock for reading and waits for room in the channel of a
\* subscriber that has left, whose forwarder waits for the same lock to remove it.
Wedged ==
  \E t \in readers : \E s \in task[t].todo :
    sub[s].forwarder = "removing" /\ Len(sub[s].inbox) = Capacity

Adding(t) == task[t].pc \in {"lock", "sending"}

\* Nobody is locked out: every message gets through to the subscribers' channels,
\* however slow they are, and a new subscriber is added in the end, however many
\* messages come.  The exception: a subscriber leaves with its channel full, and its
\* removal comes before the room that add_message waits for, which wedges the lock.
LockPassesOn ==
  /\ \A t \in Tasks : Adding(t) ~> (~Adding(t) \/ Wedged \/ ~Alive)
  /\ \A s \in Subs : sub[s].handler = "adding"
                        ~> (sub[s].handler # "adding" \/ Wedged \/ ~Alive)

\* max_requests, the shutdown RPC and Ctrl-C stop the node once its clients have left
\* or ended their streams and the lock is not wedged; a subscriber or a chat stream
\* that stays keeps it from stopping.
Staying == \/ \E s \in Subs : sub[s].client
           \/ \E t \in Streams : task[t].client /\ task[t].pc # "done"

SignalStops ==
  <>[]~Staying =>
    ((signal \/ (MaxRequests # 0 /\ count >= MaxRequests)) ~> (main = "stopped" \/ Wedged))
=============================================================================
