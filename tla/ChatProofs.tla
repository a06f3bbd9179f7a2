----------------------------- MODULE ChatProofs -----------------------------
(***************************************************************************)
(* Proofs about ChatServer for any calls, streams and subscribers and any  *)
(* capacity of the channels: what a subscriber that stays is owed is on    *)
(* its way to it, once.                                                    *)
(***************************************************************************)
EXTENDS ChatServer, FiniteSetTheorems, SequenceTheorems, TLAPS

TaskRec ==
  [pc : {"idle", "lock", "sending", "count", "echoing", "returned", "done"},
   msg : Nat, todo : SUBSET Subs, echoes : Nat, client : BOOLEAN]

SubRec ==
  [handler : {"none", "adding", "open", "gone"},
   forwarder : {"none", "recv", "forward", "removing"}, client : BOOLEAN,
   inbox : Seq(Nat), hand : Seq(Nat), outbox : Seq(Nat)]

\* The types of what EveryoneHears is about.
ChatTypes ==
  /\ table \in SUBSET Subs
  /\ task \in [Tasks -> TaskRec] /\ sub \in [Subs -> SubRec]
  /\ owed \in [Subs -> SUBSET Nat]

\* A task that has pushed its message and not yet passed it on to everyone.
AddingRec(r) == r.pc \in {"lock", "sending"}

\* add_message: only the loop has subscribers left to send to, it holds the lock, and
\* no two tasks have the same message.
TasksOK ==
  /\ \A t \in Tasks : task[t].todo # {} => task[t].pc = "sending"
  /\ \A t \in Tasks : task[t].pc = "sending" => t \in readers
  /\ \A t, u \in Tasks :
       t # u /\ AddingRec(task[t]) /\ AddingRec(task[u]) => task[t].msg # task[u].msg

\* A subscriber's forwarder ends its loop after its client has left only, and holds a
\* message only between its two awaits.
SubRecOK(r) ==
  /\ r.client => r.handler # "none"
  /\ r.forwarder = "removing" => ~r.client
  /\ r.forwarder \in {"none", "recv"} => r.hand = <<>>
  /\ r.handler = "none" => r = NoSub

\* A subscriber that has left is owed nothing, and nothing is sent to one that has not
\* subscribed or has been removed.
SubsOK ==
  \A s \in Subs :
    /\ SubRecOK(sub[s])
    /\ ~sub[s].client => owed[s] = {}
    /\ sub[s].handler = "none" => s \notin table /\ \A t \in Tasks : s \notin task[t].todo

\* Nobody is owed a message that waits for the lock.
OwedOK ==
  \A s \in Subs, t \in Tasks : task[t].pc = "lock" => task[t].msg \notin owed[s]

\* No message is twice in a channel.
OnceEach(q) == \A i, j \in 1 .. Len(q) : q[i] = q[j] => i = j

\* The messages that are being sent to a subscriber.
Coming(s) == {task[t].msg : t \in {u \in Tasks : s \in task[u].todo}}

\* EveryoneHears for one subscriber, without cardinalities.
Hears(s) ==
  /\ ToSet(Pipeline(s)) \cup Coming(s) = owed[s]
  /\ ToSet(Pipeline(s)) \cap Coming(s) = {}
  /\ OnceEach(Pipeline(s))

ChatInv ==
  /\ ChatTypes /\ TasksOK /\ SubsOK /\ OwedOK
  /\ \A s \in Subs : sub[s].client => Hears(s)

-----------------------------------------------------------------------------
(* Sequences of messages.                                                  *)

\* A message at the end.
LEMMA AppendOnce ==
  ASSUME NEW q \in Seq(Nat), OnceEach(q), NEW m \in Nat, m \notin ToSet(q)
  PROVE  Append(q, m) \in Seq(Nat) /\ ToSet(Append(q, m)) = ToSet(q) \cup {m}
         /\ OnceEach(Append(q, m))
<1>1. PICK n \in Nat : n = Len(q) /\ DOMAIN q = 1 .. n
  OBVIOUS
<1>2. PICK z \in Seq(Nat) : z = Append(q, m)
  <2>1. Append(q, m) \in Seq(Nat)
    OBVIOUS
  <2>2. QED
    BY <2>1, Zenon
<1>3. Len(z) = n + 1 /\ z[n + 1] = m /\ \A i \in 1 .. n : z[i] = q[i]
  BY <1>1, <1>2
<1>4. ToSet(q) = {q[i] : i \in 1 .. n} /\ ToSet(z) = {z[i] : i \in 1 .. n + 1}
  BY <1>1, <1>2, <1>3 DEF ToSet
<1>5. 1 .. n + 1 = (1 .. n) \cup {n + 1}
  BY <1>1
<1>6. ToSet(z) = ToSet(q) \cup {m}
  BY <1>3, <1>4, <1>5, SMTT(30)
<1>7. \A i \in 1 .. n : q[i] # m
  BY <1>4
<1>8. OnceEach(z)
  <2>1. SUFFICES ASSUME NEW i \in 1 .. n + 1, NEW j \in 1 .. n + 1, z[i] = z[j] PROVE i = j
    BY <1>3 DEF OnceEach
  <2>2. CASE i \in 1 .. n /\ j \in 1 .. n
    BY <1>1, <1>3, <2>1, <2>2 DEF OnceEach
  <2>3. CASE i = n + 1 \/ j = n + 1
    BY <1>3, <1>5, <1>7, <2>1, <2>3
  <2>4. QED
    BY <1>5, <2>2, <2>3
<1>9. QED
  BY <1>2, <1>6, <1>8

\* The first message is taken.
LEMMA TailOnce ==
  ASSUME NEW q \in Seq(Nat), OnceEach(q), q # <<>>
  PROVE  Head(q) \in ToSet(q) /\ ToSet(Tail(q)) = ToSet(q) \ {Head(q)} /\ OnceEach(Tail(q))
<1>1. PICK n \in Nat : n = Len(q) /\ DOMAIN q = 1 .. n
  OBVIOUS
<1>2. PICK z \in Seq(Nat) : z = Tail(q)
  <2>1. Tail(q) \in Seq(Nat)
    OBVIOUS
  <2>2. QED
    BY <2>1, Zenon
<1>3. n >= 1 /\ Len(z) = n - 1 /\ Head(q) = q[1] /\ \A i \in 1 .. n - 1 : z[i] = q[i + 1]
  BY <1>1, <1>2
<1>4. ToSet(q) = {q[i] : i \in 1 .. n} /\ ToSet(z) = {z[i] : i \in 1 .. n - 1}
  <2>1. DOMAIN z = 1 .. Len(z)
    OBVIOUS
  <2>2. DOMAIN z = 1 .. n - 1
    BY <1>3, <2>1
  <2>3. QED
    BY <1>1, <2>2, Zenon DEF ToSet
<1>5. \A i \in 1 .. n - 1 : i + 1 \in 1 .. n /\ i + 1 # 1
  BY <1>1
<1>6. \A i, j \in 1 .. n : q[i] = q[j] => i = j
  BY <1>1 DEF OnceEach
<1>7. 1 \in 1 .. n /\ Head(q) \in ToSet(q)
  BY <1>1, <1>3, <1>4
<1>8. ASSUME NEW x \in ToSet(z) PROVE x \in ToSet(q) \ {Head(q)}
  <2>1. PICK i \in 1 .. n - 1 : x = z[i]
    BY <1>4
  <2>2. x = q[i + 1] /\ i + 1 \in 1 .. n /\ i + 1 # 1
    BY <1>3, <1>5, <2>1
  <2>3. x # q[1]
    BY <1>6, <1>7, <2>2
  <2>4. QED
    BY <1>3, <1>4, <2>2, <2>3
<1>9. ASSUME NEW x \in ToSet(q), x # Head(q) PROVE x \in ToSet(z)
  <2>1. PICK i \in 1 .. n : x = q[i]
    BY <1>4
  <2>2. i # 1
    BY <1>3, <1>9, <2>1
  <2>3. i - 1 \in 1 .. n - 1 /\ (i - 1) + 1 = i
    BY <1>1, <2>2
  <2>4. QED
    BY <1>3, <1>4, <2>1, <2>3
<1>10. OnceEach(z)
  <2>1. SUFFICES ASSUME NEW i \in 1 .. n - 1, NEW j \in 1 .. n - 1, z[i] = z[j] PROVE i = j
    BY <1>3 DEF OnceEach
  <2>2. i + 1 = j + 1
    BY <1>3, <1>5, <1>6, <2>1
  <2>3. QED
    BY <2>2
<1>11. QED
  BY <1>2, <1>7, <1>8, <1>9, <1>10

\* A sequence without repetition is as long as its set is large.
LEMMA OnceCount ==
  ASSUME NEW q \in Seq(Nat), OnceEach(q)
  PROVE  Len(q) = Cardinality(ToSet(q))
<1>1. PICK n \in Nat : n = Len(q) /\ DOMAIN q = 1 .. n
  OBVIOUS
<1>2. PICK S : S = ToSet(q)
  OBVIOUS
<1>3. S = {q[i] : i \in 1 .. n}
  BY <1>1, <1>2 DEF ToSet
<1>4. q \in [1 .. n -> S]
  BY <1>1, <1>3
<1>5. q \in Bijection(1 .. n, S)
  <2>1. \A i, j \in 1 .. n : q[i] = q[j] => i = j
    BY <1>1 DEF OnceEach
  <2>2. \A x \in S : \E i \in 1 .. n : q[i] = x
    BY <1>3
  <2>3. QED
    BY <1>4, <2>1, <2>2 DEF Bijection, Injection, Surjection, IsInjective
<1>6. ExistsBijection(1 .. n, S)
  BY <1>5 DEF ExistsBijection
<1>7. Cardinality(S) = n
  BY <1>1, <1>6, FS_CountingElements
<1>8. QED
  BY <1>1, <1>2, <1>7

\* Concatenation is associative.
LEMMA Associative ==
  ASSUME NEW a \in Seq(Nat), NEW b \in Seq(Nat), NEW c \in Seq(Nat)
  PROVE  (a \o b) \o c = a \o (b \o c)
BY ConcatAssociative, SMTT(30)

\* A message enters the pipeline.
LEMMA PipeAppend ==
  ASSUME NEW a \in Seq(Nat), NEW h \in Seq(Nat), NEW c \in Seq(Nat), NEW m \in Nat
  PROVE  a \o h \o Append(c, m) = Append(a \o h \o c, m)
<1>1. PICK one \in Seq(Nat) : one = <<m>>
  <2>1. <<m>> \in Seq(Nat)
    OBVIOUS
  <2>2. QED
    BY <2>1, Zenon
<1>2. \A q \in Seq(Nat) : Append(q, m) = q \o one
  BY <1>1
<1>3. PICK b \in Seq(Nat) : b = a \o h
  <2>1. a \o h \in Seq(Nat)
    OBVIOUS
  <2>2. QED
    BY <2>1, Zenon
<1>4. b \o c \in Seq(Nat)
  OBVIOUS
<1>5. b \o (c \o one) = (b \o c) \o one
  BY Associative
<1>6. QED
  BY <1>2, <1>3, <1>4, <1>5, Zenon

\* The forwarder takes a message out of its channel.
LEMMA PipeRecv ==
  ASSUME NEW a \in Seq(Nat), NEW c \in Seq(Nat), c # <<>>
  PROVE  a \o <<Head(c)>> \o Tail(c) = a \o <<>> \o c
<1>1. PICK one \in Seq(Nat) : one = <<Head(c)>>
  <2>1. <<Head(c)>> \in Seq(Nat)
    OBVIOUS
  <2>2. QED
    BY <2>1, Zenon
<1>2. PICK z \in Seq(Nat) : z = Tail(c)
  <2>1. Tail(c) \in Seq(Nat)
    OBVIOUS
  <2>2. QED
    BY <2>1, Zenon
<1>3. one \o z = c
  BY <1>1, <1>2
<1>4. (a \o one) \o z = a \o (one \o z)
  BY Associative
<1>5. a \o <<>> = a
  OBVIOUS
<1>6. QED
  BY <1>1, <1>2, <1>3, <1>4, <1>5

\* The forwarder passes it on.
LEMMA PipeForward ==
  ASSUME NEW a \in Seq(Nat), NEW h \in Seq(Nat), NEW c \in Seq(Nat)
  PROVE  (a \o h) \o <<>> \o c = a \o h \o c
OBVIOUS

\* The first of two channels gives a message away.
LEMMA TailConcat ==
  ASSUME NEW a \in Seq(Nat), NEW b \in Seq(Nat), a # <<>>
  PROVE  a \o b # <<>> /\ Head(a \o b) = Head(a) /\ Tail(a) \o b = Tail(a \o b)
<1>1. PICK z \in Seq(Nat) : z = Tail(a)
  <2>1. Tail(a) \in Seq(Nat)
    OBVIOUS
  <2>2. QED
    BY <2>1, Zenon
<1>2. PICK q \in Seq(Nat) : q = a \o b
  <2>1. a \o b \in Seq(Nat)
    OBVIOUS
  <2>2. QED
    BY <2>1, Zenon
<1>3. Len(a) \in Nat /\ Len(a) >= 1 /\ Len(b) \in Nat /\ Len(z) = Len(a) - 1
      /\ Len(q) = Len(a) + Len(b)
  BY <1>1, <1>2
<1>4. q # <<>> /\ Head(q) = Head(a)
  BY <1>2, <1>3
<1>5. PICK y \in Seq(Nat) : y = Tail(q)
  <2>1. Tail(q) \in Seq(Nat)
    BY <1>4
  <2>2. QED
    BY <2>1, Zenon
<1>6. PICK w \in Seq(Nat) : w = z \o b
  <2>1. z \o b \in Seq(Nat)
    OBVIOUS
  <2>2. QED
    BY <2>1, Zenon
<1>7. Len(w) = Len(y) /\ Len(y) = Len(a) + Len(b) - 1
  <2>1. Len(w) = Len(z) + Len(b)
    BY <1>6, ConcatProperties
  <2>2. Len(y) = Len(q) - 1
    BY <1>4, <1>5, HeadTailProperties
  <2>3. QED
    BY <1>3, <2>1, <2>2
<1>8. \A i \in 1 .. Len(w) : w[i] = y[i]
  <2>1. SUFFICES ASSUME NEW i \in 1 .. Len(w) PROVE w[i] = y[i]
    OBVIOUS
  <2>2. i \in Nat /\ i >= 1 /\ i <= Len(a) + Len(b) - 1
    BY <1>3, <1>7
  <2>3. y[i] = q[i + 1]
    BY <1>3, <1>4, <1>5, <2>2
  <2>4. q[i + 1] = IF i + 1 <= Len(a) THEN a[i + 1] ELSE b[i + 1 - Len(a)]
    BY <1>2, <1>3, <2>2
  <2>5. w[i] = IF i <= Len(z) THEN z[i] ELSE b[i - Len(z)]
    <3>1. i \in 1 .. Len(z) + Len(b)
      BY <1>3, <2>2
    <3>2. QED
      BY <1>6, <3>1, ConcatProperties
  <2>6. i <= Len(z) => z[i] = a[i + 1]
    BY <1>1, <1>3, <2>2
  <2>7. i - Len(z) = i + 1 - Len(a)
    BY <1>3, <2>2
  <2>8. QED
    BY <1>3, <2>2, <2>3, <2>4, <2>5, <2>6, <2>7
<1>9. w = y
  BY <1>7, <1>8, SeqEqual
<1>10. QED
  BY <1>1, <1>2, <1>4, <1>5, <1>6, <1>9

\* The client takes a message.
LEMMA PipeRead ==
  ASSUME NEW a \in Seq(Nat), NEW h \in Seq(Nat), NEW c \in Seq(Nat), a # <<>>
  PROVE  /\ a \o h \o c # <<>> /\ Head(a \o h \o c) = Head(a)
         /\ Tail(a) \o h \o c = Tail(a \o h \o c)
<1>1. PICK b \in Seq(Nat) : b = a \o h
  <2>1. a \o h \in Seq(Nat)
    OBVIOUS
  <2>2. QED
    BY <2>1, Zenon
<1>2. b # <<>> /\ Head(b) = Head(a) /\ Tail(a) \o h = Tail(b)
  BY <1>1, TailConcat
<1>3. b \o c # <<>> /\ Head(b \o c) = Head(b) /\ Tail(b) \o c = Tail(b \o c)
  BY <1>2, TailConcat
<1>4. QED
  BY <1>1, <1>2, <1>3, Zenon

-----------------------------------------------------------------------------
(* Steps that move no message to or from a subscriber.                     *)

\* The types of one task.
LEMMA TaskTypes ==
  ASSUME ChatTypes, NEW t \in Tasks
  PROVE  /\ task[t] \in TaskRec /\ task[t].msg \in Nat /\ task[t].todo \in SUBSET Subs
         /\ task[t].echoes \in Nat /\ task[t].client \in BOOLEAN /\ DOMAIN task = Tasks
         /\ \A r : [task EXCEPT ![t] = r][t] = r
         /\ \A r : \A u \in Tasks \ {t} : [task EXCEPT ![t] = r][u] = task[u]
BY DEF ChatTypes, TaskRec

\* The types of one subscriber.
LEMMA SubTypes ==
  ASSUME ChatTypes, NEW s \in Subs
  PROVE  /\ sub[s] \in SubRec /\ sub[s].client \in BOOLEAN
         /\ sub[s].inbox \in Seq(Nat) /\ sub[s].hand \in Seq(Nat) /\ sub[s].outbox \in Seq(Nat)
         /\ \A r : [sub EXCEPT ![s] = r][s] = r
         /\ \A r : \A u \in Subs \ {s} : [sub EXCEPT ![s] = r][u] = sub[u]
BY DEF ChatTypes, SubRec

\* A subscriber whose messages stay where they are still hears everything.
LEMMA HearsFrame ==
  ASSUME NEW s \in Subs, Hears(s), Pipeline(s)' = Pipeline(s), Coming(s)' = Coming(s),
         owed'[s] = owed[s]
  PROVE  Hears(s)'
<1>1. ToSet(Pipeline(s))' = ToSet(Pipeline(s)) /\ OnceEach(Pipeline(s))' = OnceEach(Pipeline(s))
  BY DEF ToSet, OnceEach
<1>2. QED
  BY <1>1 DEF Hears

\* A step of one task that does not send.
LEMMA QuietTask ==
  ASSUME ChatInv, NEW t \in Tasks, NEW r \in TaskRec, task' = [task EXCEPT ![t] = r],
         UNCHANGED <<table, sub, owed>>, \A u \in readers : u # t => u \in readers',
         r.pc = "sending" => t \in readers', r.todo = task[t].todo,
         r.todo # {} => r.pc = "sending" /\ r.msg = task[t].msg,
         AddingRec(r) =>
           \/ /\ AddingRec(task[t]) /\ r.msg = task[t].msg
              /\ task[t].pc = "sending" => r.pc = "sending"
           \/ r.msg \in Unused
  PROVE  ChatInv'
<1> USE DEF ChatInv
<1>1. task'[t] = r /\ \A u \in Tasks \ {t} : task'[u] = task[u]
  BY TaskTypes
<1>2. ChatTypes'
  BY DEF ChatTypes
<1>3. r.msg \in Unused => /\ \A u \in Tasks : task[u].msg # r.msg
                          /\ \A s \in Subs : r.msg \notin owed[s]
  BY DEF Unused
<1>4. TasksOK'
  <2>1. \A u \in Tasks : task'[u].todo # {} => task'[u].pc = "sending"
    BY <1>1 DEF TasksOK
  <2>2. \A u \in Tasks : task'[u].pc = "sending" => u \in readers'
    BY <1>1 DEF TasksOK
  <2>3. ASSUME AddingRec(r), NEW u \in Tasks \ {t}, AddingRec(task[u])
        PROVE  r.msg # task[u].msg
    BY <1>3, <2>3 DEF TasksOK
  <2>4. ASSUME NEW v \in Tasks, NEW u \in Tasks, v # u, AddingRec(task'[v]), AddingRec(task'[u])
        PROVE  task'[v].msg # task'[u].msg
    <3>1. CASE v = t
      BY <1>1, <2>3, <2>4, <3>1
    <3>2. CASE u = t
      BY <1>1, <2>3, <2>4, <3>2
    <3>3. CASE v # t /\ u # t
      BY <1>1, <2>4, <3>3 DEF TasksOK
    <3>4. QED
      BY <3>1, <3>2, <3>3
  <2>5. QED
    BY <2>1, <2>2, <2>4 DEF TasksOK, AddingRec
<1>5. SubsOK'
  <2>1. \A u \in Tasks : task'[u].todo = task[u].todo
    BY <1>1
  <2>2. QED
    BY <2>1 DEF SubsOK, SubRecOK
<1>6. OwedOK'
  <2>1. SUFFICES ASSUME NEW s \in Subs, NEW u \in Tasks, task'[u].pc = "lock"
                 PROVE  task'[u].msg \notin owed[s]
    BY DEF OwedOK
  <2>2. CASE u = t
    BY <1>1, <1>3, <2>1, <2>2 DEF OwedOK, AddingRec
  <2>3. CASE u # t
    BY <1>1, <2>1, <2>3 DEF OwedOK
  <2>4. QED
    BY <2>2, <2>3
<1>7. ASSUME NEW s \in Subs PROVE Coming(s)' = Coming(s)
  <2>1. \A u \in Tasks : task'[u].todo = task[u].todo /\ (s \in task[u].todo => task'[u].msg = task[u].msg)
    BY <1>1
  <2>2. QED
    BY <2>1 DEF Coming
<1>8. ASSUME NEW s \in Subs, sub'[s].client PROVE Hears(s)'
  <2>1. Hears(s) /\ Pipeline(s)' = Pipeline(s)
    BY <1>8 DEF Pipeline
  <2>2. QED
    BY <1>7, <2>1, HearsFrame
<1>9. QED
  BY <1>2, <1>4, <1>5, <1>6, <1>8

\* A step of one subscriber that leaves its messages where they are.
LEMMA QuietSub ==
  ASSUME ChatInv, NEW s \in Subs, NEW r \in SubRec, sub' = [sub EXCEPT ![s] = r],
         UNCHANGED <<readers, task, owed>>, table' \in SUBSET Subs, SubRecOK(r),
         r.handler = "none" => s \notin table' /\ \A t \in Tasks : s \notin task[t].todo,
         \A u \in Subs \ {s} : u \in table' => u \in table, r.client = sub[s].client,
         r.client => r.outbox \o r.hand \o r.inbox = Pipeline(s)
  PROVE  ChatInv'
<1> USE DEF ChatInv
<1>1. sub'[s] = r /\ \A u \in Subs \ {s} : sub'[u] = sub[u]
  <2>1. sub \in [Subs -> SubRec]
    BY DEF ChatTypes
  <2>2. QED
    BY <2>1
<1>2. ChatTypes'
  BY DEF ChatTypes
<1>3. TasksOK' /\ OwedOK'
  BY DEF TasksOK, OwedOK, AddingRec
<1>4. SubsOK'
  <2>1. \A u \in Subs : SubRecOK(sub'[u])
    BY <1>1 DEF SubsOK
  <2>2. \A u \in Subs : sub'[u].handler = "none" =>
          u \notin table' /\ \A t \in Tasks : u \notin task'[t].todo
    BY <1>1 DEF SubsOK
  <2>3. \A u \in Subs : ~sub'[u].client => owed'[u] = {}
    BY <1>1 DEF SubsOK
  <2>4. QED
    BY <2>1, <2>2, <2>3 DEF SubsOK, SubRecOK
<1>5. ASSUME NEW u \in Subs, sub'[u].client PROVE Hears(u)'
  <2>1. Hears(u) /\ Pipeline(u)' = Pipeline(u)
    <3>1. CASE u = s
      BY <1>1, <1>5, <3>1 DEF Pipeline
    <3>2. CASE u # s
      BY <1>1, <1>5, <3>2 DEF Pipeline
    <3>3. QED
      BY <3>1, <3>2
  <2>2. Coming(u)' = Coming(u)
    BY DEF Coming
  <2>3. QED
    BY <2>1, <2>2, HearsFrame
<1>6. QED
  BY <1>2, <1>3, <1>4, <1>5

-----------------------------------------------------------------------------
(* The actions of the tasks.                                               *)

\* The type of a subscriber that has not subscribed.
LEMMA InitNoSub == NoSub \in SubRec
<1>1. <<>> \in Seq(Nat)
  OBVIOUS
<1>2. QED
  BY <1>1, Zenon DEF NoSub, SubRec

\* The initial state satisfies the invariant.
LEMMA InitChatInv == Init => ChatInv
<1> SUFFICES ASSUME Init PROVE ChatInv
  OBVIOUS
<1>1. <<>> \in Seq(Nat) /\ Len(<<>>) = 0
  OBVIOUS
<1>2. /\ NoSub \in SubRec /\ SubRecOK(NoSub) /\ ~NoSub.client
      /\ AbsentSub \in SubRec /\ SubRecOK(AbsentSub) /\ ~AbsentSub.client
  <2>1. NoSub \in SubRec /\ AbsentSub \in SubRec
    BY InitNoSub DEF AbsentSub, SubRec
  <2>2. QED
    BY <2>1 DEF NoSub, AbsentSub, SubRecOK
<1>3. /\ IdleTask \in TaskRec /\ IdleTask.todo = {} /\ IdleTask.pc = "idle"
      /\ AbsentTask \in TaskRec /\ AbsentTask.todo = {} /\ AbsentTask.pc = "done"
  BY DEF IdleTask, AbsentTask, TaskRec
<1>4. /\ \A t \in Tasks : task[t] \in {IdleTask, AbsentTask}
      /\ \A s \in Subs : sub[s] \in {NoSub, AbsentSub} /\ owed[s] = {}
      /\ task \in [Tasks -> TaskRec] /\ sub \in [Subs -> SubRec] /\ owed \in [Subs -> SUBSET Nat]
      /\ table = {}
  BY <1>2, <1>3 DEF Init
<1>5. ChatTypes
  BY <1>1, <1>4, Zenon DEF ChatTypes
<1>6. TasksOK
  BY <1>3, <1>4 DEF TasksOK, AddingRec
<1>7. SubsOK
  BY <1>2, <1>3, <1>4 DEF SubsOK
<1>8. OwedOK
  BY <1>3, <1>4 DEF OwedOK
<1>9. \A s \in Subs : ~sub[s].client
  BY <1>2, <1>4
<1>10. QED
  BY <1>5, <1>6, <1>7, <1>8, <1>9 DEF ChatInv

\* add_message pushes: no message on its way has the number.
LEMMA PushStep ==
  ASSUME ChatInv, NEW t \in Tasks, Push(t), UNCHANGED <<readers, table, sub, owed>>
  PROVE  ChatInv'
<1> USE DEF ChatInv
<1>1. PICK n : n \in Unused /\ n = CHOOSE m \in Unused : TRUE
  BY DEF Push
<1>2. n \in Nat
  BY <1>1, ChatAssumption DEF Unused
<1>3. PICK z \in TaskRec : z = task[t]
  BY TaskTypes
<1>4. z.todo = {} /\ z.pc = "idle"
  BY <1>3 DEF Push, TasksOK
<1>5. PICK r \in TaskRec : r = [z EXCEPT !.pc = "lock", !.msg = n]
  BY <1>2, <1>3 DEF TaskRec
<1>6. r.todo = {} /\ r.pc = "lock" /\ r.msg = n
  BY <1>4, <1>5 DEF TaskRec
<1>7. task' = [task EXCEPT ![t] = r]
  BY <1>1, <1>3, <1>5 DEF Push, ChatTypes
<1>8. r.todo = task[t].todo
  BY <1>3, <1>4, <1>6
<1>9. QED
  BY <1>1, <1>6, <1>7, <1>8, QuietTask

\* A task that has nobody to send to goes on, and is not adding a message any more.
LEMMA QuietOwn ==
  ASSUME ChatInv, NEW t \in Tasks, NEW r \in TaskRec, task' = [task EXCEPT ![t] = r],
         UNCHANGED <<table, sub, owed>>, \A u \in readers : u # t => u \in readers',
         r.todo = {}, task[t].todo = {}, ~AddingRec(r)
  PROVE  ChatInv'
BY QuietTask DEF AddingRec

\* The states of a task in which it sends to nobody.
LEMMA NobodyLeft ==
  ASSUME ChatInv, NEW t \in Tasks, task[t].pc # "sending"
  PROVE  task[t].todo = {}
BY DEF ChatInv, TasksOK

\* The loop of add_message is over.
LEMMA AddMessageDoneStep == ASSUME ChatInv, NEW t \in Tasks, AddMessageDone(t) PROVE ChatInv'
<1>1. PICK z \in TaskRec : z = task[t]
  BY TaskTypes DEF ChatInv
<1>2. z.todo = {}
  BY <1>1 DEF AddMessageDone
<1>3. PICK p \in {"count", "echoing"} : p = IF t \in Calls THEN "count" ELSE "echoing"
  OBVIOUS
<1>4. PICK r \in TaskRec : r = [z EXCEPT !.pc = p, !.msg = 0]
  BY <1>1 DEF TaskRec
<1>5. r.pc = p /\ r.todo = {}
  BY <1>2, <1>4 DEF TaskRec
<1>6. /\ task' = [task EXCEPT ![t] = r] /\ UNCHANGED <<table, sub, owed>>
      /\ readers' = readers \ {t}
  BY <1>1, <1>3, <1>4 DEF AddMessageDone, OnlyTask, ChatInv, ChatTypes
<1>7. QED
  BY <1>1, <1>2, <1>5, <1>6, QuietOwn DEF AddingRec

\* A task starts afresh.
LEMMA ResetStep ==
  ASSUME ChatInv, NEW t \in Tasks, task[t].todo = {}, NEW p \in {"idle", "returned"},
         task' = [task EXCEPT ![t] = [IdleTask EXCEPT !.pc = p]],
         UNCHANGED <<readers, table, sub, owed>>
  PROVE  ChatInv'
<1>1. PICK r \in TaskRec : r = [IdleTask EXCEPT !.pc = p]
  BY DEF TaskRec, IdleTask
<1>2. r.pc = p /\ r.todo = {}
  BY <1>1 DEF IdleTask
<1>3. QED
  BY <1>1, <1>2, QuietOwn DEF AddingRec

\* send_message counts and responds.
LEMMA CountRequestStep == ASSUME ChatInv, NEW t \in Tasks, CountRequest(t) PROVE ChatInv'
BY NobodyLeft, ResetStep DEF CountRequest, OnlyTask

\* The benchmark takes a result.
LEMMA BenchJoinStep == ASSUME ChatInv, NEW t \in Tasks, BenchJoin(t) PROVE ChatInv'
<1>1. IdleTask = [IdleTask EXCEPT !.pc = "idle"]
  BY DEF IdleTask
<1>2. task[t].todo = {}
  BY NobodyLeft DEF BenchJoin
<1>3. QED
  BY <1>1, <1>2, ResetStep DEF BenchJoin, OnlyTask

\* A chat stream responds, or ends because nobody listens.
LEMMA StreamEchoStep == ASSUME ChatInv, NEW t \in Tasks, StreamEcho(t) PROVE ChatInv'
<1>1. PICK z \in TaskRec : z = task[t]
  BY TaskTypes DEF ChatInv
<1>2. z.todo = {} /\ z.echoes \in Nat /\ z.msg \in Nat
  BY <1>1, NobodyLeft DEF StreamEcho, TaskRec
<1>3. PICK r \in TaskRec :
        \/ r = [z EXCEPT !.pc = "idle", !.echoes = z.echoes + 1]
           /\ task' = [task EXCEPT ![t].pc = "idle", ![t].echoes = @ + 1]
        \/ r = [z EXCEPT !.pc = "done"]
           /\ task' = [task EXCEPT ![t].pc = "done"]
  <2>1. CASE task' = [task EXCEPT ![t].pc = "idle", ![t].echoes = @ + 1]
    <3>1. z.echoes + 1 \in Nat
      BY <1>2
    <3>2. [z EXCEPT !.pc = "idle", !.echoes = z.echoes + 1] \in TaskRec
      BY <1>1, <3>1 DEF TaskRec
    <3>3. QED
      BY <2>1, <3>2
  <2>2. CASE task' = [task EXCEPT ![t].pc = "done"]
    <3>1. [z EXCEPT !.pc = "done"] \in TaskRec
      BY <1>1 DEF TaskRec
    <3>2. QED
      BY <2>2, <3>1
  <2>3. QED
    BY <2>1, <2>2 DEF StreamEcho
<1>4. r.pc \in {"idle", "done"} /\ r.todo = {}
  BY <1>1, <1>2, <1>3 DEF TaskRec
<1>5. task' = [task EXCEPT ![t] = r] /\ UNCHANGED <<readers, table, sub, owed>>
  BY <1>1, <1>3 DEF StreamEcho, OnlyTask, ChatInv, ChatTypes
<1>6. QED
  BY <1>1, <1>2, <1>4, <1>5, QuietOwn DEF AddingRec

\* A chat stream ends.
LEMMA StreamEndStep == ASSUME ChatInv, NEW t \in Tasks, StreamEnd(t) PROVE ChatInv'
<1>1. PICK z \in TaskRec : z = task[t]
  BY TaskTypes DEF ChatInv
<1>2. z.todo = {}
  BY <1>1, NobodyLeft DEF StreamEnd
<1>3. PICK r \in TaskRec : r = [z EXCEPT !.pc = "done"]
  BY <1>1 DEF TaskRec
<1>4. r.pc = "done" /\ r.todo = {}
  BY <1>2, <1>3 DEF TaskRec
<1>5. task' = [task EXCEPT ![t] = r] /\ UNCHANGED <<readers, table, sub, owed>>
  BY <1>1, <1>3 DEF StreamEnd, OnlyTask, ChatInv, ChatTypes
<1>6. QED
  BY <1>1, <1>2, <1>4, <1>5, QuietOwn DEF AddingRec

\* The benchmark makes a call, which the node takes or refuses.
LEMMA BenchSpawnStep == ASSUME ChatInv, NEW t \in Tasks, BenchSpawn(t) PROVE ChatInv'
<1>1. CASE Push(t)
  BY <1>1, PushStep DEF BenchSpawn, OnlyTask
<1>2. CASE task' = [task EXCEPT ![t].pc = "returned"]
  <2>1. PICK z \in TaskRec : z = task[t]
    BY TaskTypes DEF ChatInv
  <2>2. z.todo = {}
    BY <2>1, NobodyLeft DEF BenchSpawn
  <2>3. PICK r \in TaskRec : r = [z EXCEPT !.pc = "returned"]
    BY <2>1 DEF TaskRec
  <2>4. r.pc = "returned" /\ r.todo = {}
    BY <2>2, <2>3 DEF TaskRec
  <2>5. task' = [task EXCEPT ![t] = r] /\ UNCHANGED <<readers, table, sub, owed>>
    BY <1>2, <2>1, <2>3 DEF BenchSpawn, OnlyTask, ChatInv, ChatTypes
  <2>6. QED
    BY <2>1, <2>2, <2>4, <2>5, QuietOwn DEF AddingRec
<1>3. QED
  BY <1>1, <1>2 DEF BenchSpawn

\* The client of a chat stream changes nothing that add_message uses.
LEMMA StreamClientStep == ASSUME ChatInv, NEW t \in Tasks, StreamClient(t) PROVE ChatInv'
<1>1. PICK z \in TaskRec : z = task[t]
  BY TaskTypes DEF ChatInv
<1>2. z.echoes \in Nat
  BY <1>1 DEF TaskRec
<1>3. PICK r \in TaskRec :
        \/ r = [z EXCEPT !.echoes = z.echoes - 1]
           /\ task' = [task EXCEPT ![t].echoes = @ - 1]
        \/ r = [z EXCEPT !.client = FALSE, !.echoes = 0]
           /\ task' = [task EXCEPT ![t].client = FALSE, ![t].echoes = 0]
  <2>1. CASE z.echoes > 0 /\ task' = [task EXCEPT ![t].echoes = @ - 1]
    <3>1. z.echoes - 1 \in Nat
      BY <1>2, <2>1
    <3>2. [z EXCEPT !.echoes = z.echoes - 1] \in TaskRec
      BY <1>1, <3>1 DEF TaskRec
    <3>3. QED
      BY <2>1, <3>2
  <2>2. CASE task' = [task EXCEPT ![t].client = FALSE, ![t].echoes = 0]
    <3>1. [z EXCEPT !.client = FALSE, !.echoes = 0] \in TaskRec
      BY <1>1 DEF TaskRec
    <3>2. QED
      BY <2>2, <3>1
  <2>3. QED
    BY <1>1, <2>1, <2>2 DEF StreamClient
<1>4. r.pc = z.pc /\ r.todo = z.todo /\ r.msg = z.msg
  BY <1>1, <1>3 DEF TaskRec
<1>5. task' = [task EXCEPT ![t] = r] /\ UNCHANGED <<readers, table, sub, owed>>
  BY <1>1, <1>3 DEF StreamClient, OnlyTask, ChatInv, ChatTypes
<1>6. (r.todo # {} => r.pc = "sending") /\ (r.pc = "sending" => t \in readers)
  BY <1>1, <1>4 DEF ChatInv, TasksOK
<1>7. AddingRec(r) <=> AddingRec(task[t])
  BY <1>1, <1>4 DEF AddingRec
<1>8. QED
  BY <1>1, <1>4, <1>5, <1>6, <1>7, QuietTask

\* A message arrives on a chat stream.
LEMMA StreamReceiveStep == ASSUME ChatInv, NEW t \in Tasks, StreamReceive(t) PROVE ChatInv'
BY PushStep DEF StreamReceive, OnlyTask

-----------------------------------------------------------------------------
(* The steps that send.                                                    *)

\* add_message gets the lock: the message is owed to everyone in the map.
LEMMA LockReadStep == ASSUME ChatInv, NEW t \in Tasks, LockRead(t) PROVE ChatInv'
<1> USE DEF ChatInv
<1>1. PICK z \in TaskRec : z = task[t]
  BY TaskTypes
<1>2. z.pc = "lock" /\ z.todo = {} /\ z.msg \in Nat
  BY <1>1, NobodyLeft DEF LockRead, TaskRec
<1>3. PICK r \in TaskRec : r = [z EXCEPT !.pc = "sending", !.todo = table]
  BY <1>1 DEF TaskRec, ChatTypes
<1>4. r.pc = "sending" /\ r.todo = table /\ r.msg = z.msg
  BY <1>3 DEF TaskRec
<1>5. /\ task' = [task EXCEPT ![t] = r] /\ UNCHANGED <<table, sub>>
      /\ owed' = [s \in Subs |-> IF s \in table /\ sub[s].client
                                 THEN owed[s] \cup {z.msg} ELSE owed[s]]
      /\ readers' = readers \cup {t}
  BY <1>1, <1>3 DEF LockRead, OnlyTask, ChatTypes
<1>6. task'[t] = r /\ \A u \in Tasks \ {t} : task'[u] = task[u]
  BY <1>5, TaskTypes
<1>7. \A s \in Subs : owed'[s] = IF s \in table /\ sub[s].client
                                 THEN owed[s] \cup {z.msg} ELSE owed[s]
  BY <1>5
<1>8. ChatTypes'
  BY <1>2, <1>5 DEF ChatTypes
<1>9. TasksOK'
  <2>1. \A u \in Tasks : /\ task'[u].todo # {} => task'[u].pc = "sending"
                         /\ task'[u].pc = "sending" => u \in readers'
    BY <1>4, <1>5, <1>6 DEF TasksOK
  <2>2. \A u \in Tasks : AddingRec(task'[u]) => AddingRec(task[u]) /\ task'[u].msg = task[u].msg
    BY <1>1, <1>2, <1>4, <1>6 DEF AddingRec
  <2>3. QED
    BY <2>1, <2>2 DEF TasksOK, AddingRec
<1>10. SubsOK'
  BY <1>4, <1>5, <1>6, <1>7 DEF SubsOK, SubRecOK
<1>11. \A s \in Subs : z.msg \notin owed[s]
  BY <1>1, <1>2 DEF OwedOK
<1>12. OwedOK'
  <2>1. SUFFICES ASSUME NEW s \in Subs, NEW u \in Tasks, task'[u].pc = "lock"
                 PROVE  task'[u].msg \notin owed'[s]
    BY DEF OwedOK
  <2>2. u # t /\ task'[u] = task[u]
    BY <1>4, <1>6, <2>1
  <2>3. task[u].msg \notin owed[s] /\ task[u].msg # z.msg
    BY <1>1, <1>2, <2>1, <2>2 DEF OwedOK, TasksOK, AddingRec
  <2>4. QED
    BY <1>7, <2>2, <2>3
<1>13. ASSUME NEW s \in Subs, sub'[s].client PROVE Hears(s)'
  <2>1. Hears(s) /\ Pipeline(s)' = Pipeline(s) /\ sub[s].client
    BY <1>5, <1>13 DEF Pipeline
  <2>2. CASE s \notin table
    <3>1. \A u \in Tasks : s \in task'[u].todo <=> s \in task[u].todo
      BY <1>1, <1>2, <1>4, <1>6, <2>2
    <3>2. \A u \in Tasks : task'[u].msg = task[u].msg
      BY <1>1, <1>4, <1>6
    <3>3. Coming(s)' = Coming(s)
      BY <3>1, <3>2 DEF Coming
    <3>4. QED
      BY <1>7, <2>1, <2>2, <3>3, HearsFrame
  <2>3. CASE s \in table
    <3>1. owed'[s] = owed[s] \cup {z.msg}
      BY <1>7, <2>1, <2>3
    <3>2. Coming(s)' = Coming(s) \cup {z.msg}
      <4>1. \A u \in Tasks : s \in task'[u].todo <=> s \in task[u].todo \/ u = t
        BY <1>4, <1>6, <2>3
      <4>2. \A u \in Tasks : task'[u].msg = task[u].msg
        BY <1>1, <1>4, <1>6
      <4>3. QED
        BY <1>1, <4>1, <4>2 DEF Coming
    <3>3. ToSet(Pipeline(s))' = ToSet(Pipeline(s)) /\ OnceEach(Pipeline(s))' = OnceEach(Pipeline(s))
      BY <2>1 DEF ToSet, OnceEach
    <3>4. z.msg \notin ToSet(Pipeline(s))
      BY <1>11, <2>1 DEF Hears
    <3>5. QED
      BY <2>1, <3>1, <3>2, <3>3, <3>4 DEF Hears
  <2>4. QED
    BY <2>2, <2>3
<1>14. QED
  BY <1>8, <1>9, <1>10, <1>12, <1>13

\* The message goes into a subscriber's channel: it was coming and is given.
LEMMA FanoutStep == ASSUME ChatInv, NEW t \in Tasks, Fanout(t) PROVE ChatInv'
<1> USE DEF ChatInv
<1>1. PICK z \in TaskRec : z = task[t]
  BY TaskTypes
<1>2. PICK s \in Subs : /\ s \in z.todo
                        /\ sub' = [sub EXCEPT ![s].inbox = Append(sub[s].inbox, z.msg)]
                        /\ task' = [task EXCEPT ![t].todo = z.todo \ {s}]
  <2>1. PICK s \in task[t].todo : /\ sub' = [sub EXCEPT ![s].inbox = Append(@, task[t].msg)]
                                  /\ task' = [task EXCEPT ![t].todo = @ \ {s}]
    BY DEF Fanout
  <2>2. s \in Subs /\ s \in z.todo
    BY <1>1, <2>1, TaskTypes
  <2>3. QED
    BY <1>1, <2>1, <2>2
<1>3. z.pc = "sending" /\ z.msg \in Nat /\ UNCHANGED <<readers, table, owed>>
  BY <1>1 DEF Fanout, TaskRec
<1>4. PICK r \in TaskRec : r = [z EXCEPT !.todo = z.todo \ {s}]
  BY <1>1 DEF TaskRec
<1>5. r.pc = "sending" /\ r.todo = z.todo \ {s} /\ r.msg = z.msg
  BY <1>3, <1>4 DEF TaskRec
<1>6. task' = [task EXCEPT ![t] = r]
  BY <1>1, <1>2, <1>4 DEF ChatTypes
<1>7. task'[t] = r /\ \A u \in Tasks \ {t} : task'[u] = task[u]
  BY <1>6, TaskTypes
<1>8. PICK y \in SubRec : y = sub[s]
  BY SubTypes
<1>9. PICK c \in Seq(Nat) : c = Append(y.inbox, z.msg)
  <2>1. Append(y.inbox, z.msg) \in Seq(Nat)
    BY <1>3, <1>8 DEF SubRec
  <2>2. QED
    BY <2>1, Zenon
<1>10. PICK x \in SubRec : x = [y EXCEPT !.inbox = c]
  BY <1>8, <1>9 DEF SubRec
<1>11. /\ x.handler = y.handler /\ x.forwarder = y.forwarder /\ x.client = y.client
       /\ x.hand = y.hand /\ x.outbox = y.outbox /\ x.inbox = c
  BY <1>10 DEF SubRec
<1>12. sub' = [sub EXCEPT ![s] = x]
  BY <1>2, <1>8, <1>9, <1>10 DEF ChatTypes
<1>13. sub'[s] = x /\ \A u \in Subs \ {s} : sub'[u] = sub[u]
  <2>1. sub \in [Subs -> SubRec]
    BY DEF ChatTypes
  <2>2. QED
    BY <1>12, <2>1
<1>14. ChatTypes'
  BY <1>3, <1>6, <1>12 DEF ChatTypes
<1>15. TasksOK'
  <2>1. \A u \in Tasks : task'[u].todo # {} => task'[u].pc = "sending"
    BY <1>5, <1>7 DEF TasksOK
  <2>2. \A u \in Tasks : task'[u].pc = task[u].pc /\ task'[u].msg = task[u].msg
    BY <1>1, <1>3, <1>5, <1>7
  <2>3. QED
    BY <1>3, <2>1, <2>2 DEF TasksOK, AddingRec
<1>16. y.handler # "none"
  BY <1>1, <1>2, <1>8 DEF SubsOK
<1>17. SubsOK'
  <2>1. SubRecOK(x)
    BY <1>8, <1>11, <1>16 DEF SubsOK, SubRecOK
  <2>2. \A u \in Subs : SubRecOK(sub'[u])
    BY <1>13, <2>1 DEF SubsOK
  <2>3. \A u \in Subs : sub'[u].handler = sub[u].handler /\ sub'[u].client = sub[u].client
    BY <1>8, <1>11, <1>13
  <2>4. \A u \in Tasks : task'[u].todo \subseteq task[u].todo
    BY <1>1, <1>5, <1>7
  <2>5. QED
    BY <1>3, <2>2, <2>3, <2>4 DEF SubsOK, SubRecOK
<1>18. OwedOK'
  BY <1>1, <1>3, <1>5, <1>7 DEF OwedOK
<1>19. ASSUME NEW v \in Subs, sub'[v].client PROVE Hears(v)'
  <2>1. \A u \in Tasks : task'[u].msg = task[u].msg
    BY <1>1, <1>5, <1>7
  <2>2. CASE v # s
    <3>1. \A u \in Tasks : v \in task'[u].todo <=> v \in task[u].todo
      BY <1>1, <1>5, <1>7, <2>2
    <3>2. Coming(v)' = Coming(v)
      BY <2>1, <3>1 DEF Coming
    <3>3. Hears(v) /\ Pipeline(v)' = Pipeline(v)
      BY <1>13, <1>19, <2>2 DEF Pipeline
    <3>4. QED
      BY <1>3, <3>2, <3>3, HearsFrame
  <2>3. CASE v = s
    <3>1. PICK q \in Seq(Nat) : q = y.outbox \o y.hand \o y.inbox
      <4>1. y.outbox \o y.hand \o y.inbox \in Seq(Nat)
        BY <1>8 DEF SubRec
      <4>2. QED
        BY <4>1, Zenon
    <3>2. Pipeline(s) = q /\ Pipeline(s)' = Append(q, z.msg)
      <4>1. y.outbox \o y.hand \o Append(y.inbox, z.msg) = Append(y.outbox \o y.hand \o y.inbox, z.msg)
        <5>1. y.outbox \in Seq(Nat) /\ y.hand \in Seq(Nat) /\ y.inbox \in Seq(Nat)
          BY <1>8 DEF SubRec
        <5>2. z.msg \in Nat
          BY <1>3
        <5>3. PICK a \in Seq(Nat), h \in Seq(Nat), e \in Seq(Nat) :
                a = y.outbox /\ h = y.hand /\ e = y.inbox
          BY <5>1
        <5>4. a \o h \o Append(e, z.msg) = Append(a \o h \o e, z.msg)
          BY <5>2, PipeAppend, ZenonT(60)
        <5>5. QED
          BY <5>3, <5>4, Zenon
      <4>2. QED
        BY <1>8, <1>9, <1>11, <1>13, <3>1, <4>1 DEF Pipeline
    <3>3. Hears(s)
      BY <1>8, <1>11, <1>13, <1>19, <2>3
    <3>4. z.msg \in Coming(s)
      BY <1>1, <1>2 DEF Coming
    <3>5. z.msg \notin ToSet(q) /\ OnceEach(q)
      BY <3>2, <3>3, <3>4 DEF Hears
    <3>6. ToSet(Append(q, z.msg)) = ToSet(q) \cup {z.msg} /\ OnceEach(Append(q, z.msg))
      BY <1>3, <3>5, AppendOnce
    <3>7. Coming(s)' = Coming(s) \ {z.msg}
      <4>1. \A u \in Tasks : s \in task'[u].todo <=> s \in task[u].todo /\ u # t
        BY <1>1, <1>5, <1>7
      <4>2. \A u \in Tasks : s \in task[u].todo /\ u # t => task[u].msg # z.msg
        BY <1>1, <1>3 DEF TasksOK, AddingRec
      <4>3. QED
        BY <1>1, <2>1, <4>1, <4>2 DEF Coming
    <3>8. ToSet(Pipeline(s))' = ToSet(q) \cup {z.msg} /\ OnceEach(Pipeline(s))'
      <4>1. PICK w : w = Append(q, z.msg)
        OBVIOUS
      <4>2. ToSet(Pipeline(s))' = ToSet(w) /\ OnceEach(Pipeline(s))' = OnceEach(w)
        BY <3>2, <4>1 DEF ToSet, OnceEach
      <4>3. QED
        BY <3>6, <4>1, <4>2
    <3>9. QED
      BY <1>3, <2>3, <3>2, <3>3, <3>4, <3>5, <3>7, <3>8 DEF Hears
  <2>4. QED
    BY <2>2, <2>3
<1>20. QED
  BY <1>14, <1>15, <1>17, <1>18, <1>19

\* A call fails on the way: what it still had to send is owed no more.
LEMMA CallFailsStep == ASSUME ChatInv, NEW t \in Tasks, CallFails(t) PROVE ChatInv'
<1> USE DEF ChatInv
<1>1. PICK z \in TaskRec : z = task[t]
  BY TaskTypes
<1>2. PICK r \in TaskRec : r = [IdleTask EXCEPT !.pc = "returned"]
  BY DEF TaskRec, IdleTask
<1>3. r.pc = "returned" /\ r.todo = {}
  BY <1>2 DEF IdleTask
<1>4. /\ task' = [task EXCEPT ![t] = r] /\ UNCHANGED <<table, sub>>
      /\ owed' = [s \in Subs |-> IF s \in z.todo THEN owed[s] \ {z.msg} ELSE owed[s]]
      /\ readers' = readers \ {t}
  BY <1>1, <1>2 DEF CallFails, OnlyTask
<1>5. task'[t] = r /\ \A u \in Tasks \ {t} : task'[u] = task[u]
  BY <1>4, TaskTypes
<1>6. \A s \in Subs : owed'[s] = IF s \in z.todo THEN owed[s] \ {z.msg} ELSE owed[s]
  BY <1>4
<1>7. ChatTypes'
  BY <1>4 DEF ChatTypes
<1>8. TasksOK'
  BY <1>3, <1>4, <1>5 DEF TasksOK, AddingRec
<1>9. SubsOK'
  BY <1>3, <1>4, <1>5, <1>6 DEF SubsOK, SubRecOK
<1>10. OwedOK'
  BY <1>3, <1>4, <1>5, <1>6 DEF OwedOK
<1>11. ASSUME NEW s \in Subs, sub'[s].client PROVE Hears(s)'
  <2>1. Hears(s) /\ Pipeline(s)' = Pipeline(s)
    BY <1>4, <1>11 DEF Pipeline
  <2>2. \A u \in Tasks : s \in task'[u].todo <=> s \in task[u].todo /\ u # t
    BY <1>3, <1>5
  <2>3. CASE s \notin z.todo
    <3>1. Coming(s)' = Coming(s)
      BY <1>1, <1>5, <2>2, <2>3 DEF Coming
    <3>2. QED
      BY <1>6, <2>1, <2>3, <3>1, HearsFrame
  <2>4. CASE s \in z.todo
    <3>1. z.pc = "sending"
      BY <1>1, <2>4 DEF TasksOK
    <3>2. \A u \in Tasks : s \in task[u].todo /\ u # t => task[u].msg # z.msg
      BY <1>1, <3>1 DEF TasksOK, AddingRec
    <3>3. Coming(s)' = Coming(s) \ {z.msg} /\ z.msg \in Coming(s)
      BY <1>1, <1>5, <2>2, <2>4, <3>2 DEF Coming
    <3>4. ToSet(Pipeline(s))' = ToSet(Pipeline(s)) /\ OnceEach(Pipeline(s))' = OnceEach(Pipeline(s))
      BY <2>1 DEF ToSet, OnceEach
    <3>5. owed'[s] = owed[s] \ {z.msg}
      BY <1>6, <2>4
    <3>6. QED
      BY <2>1, <3>3, <3>4, <3>5 DEF Hears
  <2>5. QED
    BY <2>3, <2>4
<1>12. QED
  BY <1>7, <1>8, <1>9, <1>10, <1>11

-----------------------------------------------------------------------------
(* The actions of the subscribers.                                         *)

\* A subscriber begins with nothing owed and nothing on the way.
LEMMA SubscribeStep == ASSUME ChatInv, NEW s \in Subs, Subscribe(s) PROVE ChatInv'
<1> USE DEF ChatInv
<1>1. PICK y \in SubRec : y = sub[s]
  BY SubTypes
<1>2. y = NoSub /\ s \notin table /\ owed[s] = {} /\ \A t \in Tasks : s \notin task[t].todo
  BY <1>1 DEF Subscribe, SubsOK, SubRecOK, NoSub
<1>3. PICK x \in SubRec : x = [y EXCEPT !.handler = "adding", !.forwarder = "recv", !.client = TRUE]
  BY <1>1 DEF SubRec
<1>4. /\ x.handler = "adding" /\ x.forwarder = "recv" /\ x.hand = <<>> /\ x.inbox = <<>>
      /\ x.outbox = <<>> /\ x.client
  BY <1>2, <1>3 DEF NoSub
<1>5. sub' = [sub EXCEPT ![s] = x] /\ UNCHANGED <<readers, task, table, owed>>
  BY <1>1, <1>3 DEF Subscribe, OnlySub, ChatTypes
<1>6. sub'[s] = x /\ \A u \in Subs \ {s} : sub'[u] = sub[u]
  <2>1. sub \in [Subs -> SubRec]
    BY DEF ChatTypes
  <2>2. QED
    BY <1>5, <2>1
<1>7. ChatTypes'
  BY <1>5 DEF ChatTypes
<1>8. TasksOK' /\ OwedOK'
  BY <1>5 DEF TasksOK, OwedOK, AddingRec
<1>9. SubsOK'
  <2>1. SubRecOK(x)
    BY <1>4 DEF SubRecOK
  <2>2. \A u \in Subs : SubRecOK(sub'[u])
    BY <1>6, <2>1 DEF SubsOK
  <2>3. \A u \in Subs : /\ sub'[u].handler = "none" => sub[u].handler = "none"
                        /\ ~sub'[u].client => ~sub[u].client
    BY <1>4, <1>6
  <2>4. QED
    BY <1>5, <2>2, <2>3 DEF SubsOK, SubRecOK
<1>10. ASSUME NEW v \in Subs, sub'[v].client PROVE Hears(v)'
  <2>1. CASE v # s
    <3>1. Hears(v) /\ Pipeline(v)' = Pipeline(v)
      BY <1>6, <1>10, <2>1 DEF Pipeline
    <3>2. Coming(v)' = Coming(v)
      BY <1>5 DEF Coming
    <3>3. QED
      BY <1>5, <3>1, <3>2, HearsFrame
  <2>2. CASE v = s
    <3>1. PICK e \in Seq(Nat) : e = <<>>
      <4>1. <<>> \in Seq(Nat)
        OBVIOUS
      <4>2. QED
        BY <4>1, Zenon
    <3>2. Pipeline(s)' = e
      <4>1. e \o e \o e = e
        BY <3>1
      <4>2. QED
        BY <1>4, <1>6, <3>1, <4>1 DEF Pipeline
    <3>3. ToSet(e) = {} /\ OnceEach(e)
      BY <3>1 DEF ToSet, OnceEach
    <3>4. ToSet(Pipeline(s))' = ToSet(e) /\ OnceEach(Pipeline(s))' = OnceEach(e)
      BY <3>2 DEF ToSet, OnceEach
    <3>5. Coming(s)' = {}
      BY <1>2, <1>5 DEF Coming
    <3>6. QED
      BY <1>2, <1>5, <2>2, <3>3, <3>4, <3>5 DEF Hears
  <2>3. QED
    BY <2>1, <2>2
<1>11. QED
  BY <1>7, <1>8, <1>9, <1>10

\* The client goes away: it is owed nothing more.
LEMMA LeaveStep == ASSUME ChatInv, NEW s \in Subs, Leave(s) PROVE ChatInv'
<1> USE DEF ChatInv
<1>1. PICK y \in SubRec : y = sub[s]
  BY SubTypes
<1>2. PICK e \in Seq(Nat) : e = <<>>
  <2>1. <<>> \in Seq(Nat)
    OBVIOUS
  <2>2. QED
    BY <2>1, Zenon
<1>3. PICK x \in SubRec : x = [y EXCEPT !.client = FALSE, !.handler = "gone", !.outbox = e]
  BY <1>1, <1>2 DEF SubRec
<1>4. x.handler = "gone" /\ x.client = FALSE /\ x.forwarder = y.forwarder /\ x.hand = y.hand
  BY <1>3 DEF SubRec
<1>5. /\ sub' = [sub EXCEPT ![s] = x] /\ UNCHANGED <<readers, task, table>>
      /\ owed' = [owed EXCEPT ![s] = {}]
  BY <1>1, <1>2, <1>3 DEF Leave, OnlySub, ChatTypes
<1>6. sub'[s] = x /\ \A u \in Subs \ {s} : sub'[u] = sub[u]
  <2>1. sub \in [Subs -> SubRec]
    BY DEF ChatTypes
  <2>2. QED
    BY <1>5, <2>1
<1>7. owed'[s] = {} /\ \A u \in Subs \ {s} : owed'[u] = owed[u]
  BY <1>5 DEF ChatTypes
<1>8. ChatTypes'
  BY <1>5 DEF ChatTypes
<1>9. TasksOK'
  BY <1>5 DEF TasksOK, AddingRec
<1>10. OwedOK'
  BY <1>5, <1>7 DEF OwedOK
<1>11. SubsOK'
  <2>1. SubRecOK(x)
    BY <1>1, <1>4 DEF SubsOK, SubRecOK
  <2>2. \A u \in Subs : SubRecOK(sub'[u])
    BY <1>6, <2>1 DEF SubsOK
  <2>3. \A u \in Subs : sub'[u].handler = "none" => u # s /\ sub[u].handler = "none"
    BY <1>4, <1>6
  <2>4. QED
    BY <1>5, <1>7, <2>2, <2>3 DEF SubsOK, SubRecOK
<1>12. ASSUME NEW v \in Subs, sub'[v].client PROVE Hears(v)'
  <2>1. v # s
    BY <1>4, <1>6, <1>12
  <2>2. Hears(v) /\ Pipeline(v)' = Pipeline(v)
    BY <1>6, <1>12, <2>1 DEF Pipeline
  <2>3. Coming(v)' = Coming(v)
    BY <1>5 DEF Coming
  <2>4. QED
    BY <1>7, <2>1, <2>2, <2>3, HearsFrame
<1>13. QED
  BY <1>8, <1>9, <1>10, <1>11, <1>12

\* The client takes the oldest message.
LEMMA ReadMessageStep == ASSUME ChatInv, NEW s \in Subs, ReadMessage(s) PROVE ChatInv'
<1> USE DEF ChatInv
<1>1. PICK y \in SubRec : y = sub[s]
  BY SubTypes
<1>2. /\ y.outbox \in Seq(Nat) /\ y.hand \in Seq(Nat) /\ y.inbox \in Seq(Nat)
      /\ y.outbox # <<>> /\ y.client
  BY <1>1 DEF ReadMessage, SubRec
<1>3. PICK d \in Seq(Nat) : d = Tail(y.outbox)
  <2>1. Tail(y.outbox) \in Seq(Nat)
    BY <1>2
  <2>2. QED
    BY <2>1, Zenon
<1>4. PICK x \in SubRec : x = [y EXCEPT !.outbox = d]
  BY <1>1, <1>3 DEF SubRec
<1>5. /\ x.handler = y.handler /\ x.forwarder = y.forwarder /\ x.client = y.client
      /\ x.hand = y.hand /\ x.inbox = y.inbox /\ x.outbox = d
  BY <1>4 DEF SubRec
<1>6. PICK m : m = Head(y.outbox)
  OBVIOUS
<1>7. /\ sub' = [sub EXCEPT ![s] = x] /\ UNCHANGED <<readers, task, table>>
      /\ owed' = [owed EXCEPT ![s] = owed[s] \ {m}]
  BY <1>1, <1>3, <1>4, <1>6 DEF ReadMessage, OnlySub, ChatTypes
<1>8. sub'[s] = x /\ \A u \in Subs \ {s} : sub'[u] = sub[u]
  <2>1. sub \in [Subs -> SubRec]
    BY DEF ChatTypes
  <2>2. QED
    BY <1>7, <2>1
<1>9. owed'[s] = owed[s] \ {m} /\ \A u \in Subs \ {s} : owed'[u] = owed[u]
  BY <1>7 DEF ChatTypes
<1>10. ChatTypes'
  BY <1>7 DEF ChatTypes
<1>11. TasksOK'
  BY <1>7 DEF TasksOK, AddingRec
<1>12. OwedOK'
  BY <1>7, <1>9 DEF OwedOK
<1>13. SubsOK'
  <2>1. SubRecOK(x)
    BY <1>1, <1>2, <1>5 DEF SubsOK, SubRecOK
  <2>2. \A u \in Subs : SubRecOK(sub'[u])
    BY <1>8, <2>1 DEF SubsOK
  <2>3. \A u \in Subs : /\ sub'[u].handler = sub[u].handler /\ sub'[u].client = sub[u].client
                        /\ owed'[u] \subseteq owed[u]
    BY <1>1, <1>5, <1>8, <1>9
  <2>4. QED
    BY <1>7, <2>2, <2>3 DEF SubsOK, SubRecOK
<1>14. ASSUME NEW v \in Subs, sub'[v].client PROVE Hears(v)'
  <2>1. Coming(v)' = Coming(v)
    BY <1>7 DEF Coming
  <2>2. CASE v # s
    <3>1. Hears(v) /\ Pipeline(v)' = Pipeline(v)
      BY <1>8, <1>14, <2>2 DEF Pipeline
    <3>2. QED
      BY <1>9, <2>1, <2>2, <3>1, HearsFrame
  <2>3. CASE v = s
    <3>1. PICK q \in Seq(Nat) : q = y.outbox \o y.hand \o y.inbox
      <4>1. y.outbox \o y.hand \o y.inbox \in Seq(Nat)
        BY <1>2
      <4>2. QED
        BY <4>1, Zenon
    <3>2. Pipeline(s) = q
      BY <1>1, <3>1 DEF Pipeline
    <3>3. q # <<>> /\ Head(q) = m /\ d \o y.hand \o y.inbox = Tail(q)
      <4>1. PICK a \in Seq(Nat), h \in Seq(Nat), c \in Seq(Nat) :
              a = y.outbox /\ h = y.hand /\ c = y.inbox
        BY <1>2
      <4>2. a # <<>>
        BY <1>2, <4>1
      <4>3. /\ a \o h \o c # <<>> /\ Head(a \o h \o c) = Head(a)
            /\ Tail(a) \o h \o c = Tail(a \o h \o c)
        BY <4>2, PipeRead, ZenonT(60)
      <4>4. q = a \o h \o c /\ d = Tail(a) /\ m = Head(a)
        BY <1>3, <1>6, <3>1, <4>1
      <4>5. QED
        BY <4>1, <4>3, <4>4, Zenon
    <3>4. PICK w : w = Tail(q)
      OBVIOUS
    <3>5. Pipeline(s)' = w
      BY <1>5, <1>8, <3>3, <3>4 DEF Pipeline
    <3>6. Hears(s)
      BY <1>1, <1>2
    <3>7. OnceEach(q)
      BY <3>2, <3>6 DEF Hears
    <3>8. m \in ToSet(q) /\ ToSet(w) = ToSet(q) \ {m} /\ OnceEach(w)
      BY <3>3, <3>4, <3>7, TailOnce
    <3>9. ToSet(Pipeline(s))' = ToSet(w) /\ OnceEach(Pipeline(s))' = OnceEach(w)
      BY <3>5 DEF ToSet, OnceEach
    <3>10. /\ ToSet(q) \cup Coming(s) = owed[s] /\ ToSet(q) \cap Coming(s) = {}
      BY <3>2, <3>6 DEF Hears
    <3>11. QED
      BY <1>9, <2>1, <2>3, <3>8, <3>9, <3>10 DEF Hears
  <2>4. QED
    BY <2>2, <2>3
<1>15. QED
  BY <1>10, <1>11, <1>12, <1>13, <1>14

\* The sender is added to the map.
LEMMA AddSubscriberStep == ASSUME ChatInv, NEW s \in Subs, AddSubscriber(s) PROVE ChatInv'
<1> USE DEF ChatInv
<1>1. PICK y \in SubRec : y = sub[s]
  BY SubTypes
<1>2. y.handler = "adding" /\ SubRecOK(y)
  BY <1>1 DEF AddSubscriber, SubsOK
<1>3. PICK x \in SubRec : x = [y EXCEPT !.handler = "open"]
  BY <1>1 DEF SubRec
<1>4. /\ x.handler = "open" /\ x.forwarder = y.forwarder /\ x.client = y.client
      /\ x.hand = y.hand /\ x.inbox = y.inbox /\ x.outbox = y.outbox
  BY <1>3 DEF SubRec
<1>5. /\ sub' = [sub EXCEPT ![s] = x] /\ UNCHANGED <<readers, task, owed>>
      /\ table' \in SUBSET Subs /\ \A u \in Subs \ {s} : u \in table' => u \in table
  BY <1>1, <1>3 DEF AddSubscriber, OnlySub, ChatTypes
<1>6. SubRecOK(x)
  BY <1>2, <1>4 DEF SubRecOK
<1>7. x.outbox \o x.hand \o x.inbox = Pipeline(s)
  BY <1>1, <1>4 DEF Pipeline
<1>8. QED
  BY <1>1, <1>4, <1>5, <1>6, <1>7, QuietSub

\* The forwarder takes a message into its hand.
LEMMA RecvStep == ASSUME ChatInv, NEW s \in Subs, Recv(s) PROVE ChatInv'
<1> USE DEF ChatInv
<1>1. PICK y \in SubRec : y = sub[s]
  BY SubTypes
<1>2. /\ y.forwarder = "recv" /\ y.inbox # <<>> /\ SubRecOK(y) /\ y.handler # "none"
      /\ y.outbox \in Seq(Nat) /\ y.inbox \in Seq(Nat) /\ y.hand = <<>>
  <2>1. y.forwarder = "recv" /\ y.inbox # <<>> /\ SubRecOK(y)
    BY <1>1 DEF Recv, SubsOK
  <2>2. y.handler # "none"
    BY <2>1 DEF SubRecOK, NoSub
  <2>3. y.hand = <<>>
    BY <2>1 DEF SubRecOK
  <2>4. QED
    BY <1>1, <2>1, <2>2, <2>3 DEF SubRec
<1>3. PICK h \in Seq(Nat) : h = <<Head(y.inbox)>>
  <2>1. <<Head(y.inbox)>> \in Seq(Nat)
    BY <1>2
  <2>2. QED
    BY <2>1, Zenon
<1>4. PICK c \in Seq(Nat) : c = Tail(y.inbox)
  <2>1. Tail(y.inbox) \in Seq(Nat)
    BY <1>2
  <2>2. QED
    BY <2>1, Zenon
<1>5. PICK x \in SubRec : x = [y EXCEPT !.forwarder = "forward", !.hand = h, !.inbox = c]
  BY <1>1, <1>3, <1>4 DEF SubRec
<1>6. /\ x.handler = y.handler /\ x.forwarder = "forward" /\ x.client = y.client
      /\ x.hand = h /\ x.inbox = c /\ x.outbox = y.outbox
  BY <1>5 DEF SubRec
<1>7. sub' = [sub EXCEPT ![s] = x] /\ UNCHANGED <<readers, task, owed, table>>
  BY <1>1, <1>3, <1>4, <1>5 DEF Recv, OnlySub, ChatTypes
<1>8. SubRecOK(x)
  BY <1>2, <1>6 DEF SubRecOK
<1>9. x.outbox \o x.hand \o x.inbox = Pipeline(s)
  <2>1. y.outbox \o h \o c = y.outbox \o <<>> \o y.inbox
    BY <1>2, <1>3, <1>4, PipeRecv
  <2>2. QED
    BY <1>1, <1>2, <1>6, <2>1 DEF Pipeline
<1>10. table' \in SUBSET Subs /\ \A u \in Subs \ {s} : u \in table' => u \in table
  BY <1>7 DEF ChatTypes
<1>11. QED
  BY <1>1, <1>2, <1>6, <1>7, <1>8, <1>9, <1>10, QuietSub

\* It passes the message on.
LEMMA ForwardStep == ASSUME ChatInv, NEW s \in Subs, Forward(s) PROVE ChatInv'
<1> USE DEF ChatInv
<1>1. PICK y \in SubRec : y = sub[s]
  BY SubTypes
<1>2. /\ y.forwarder = "forward" /\ y.client /\ SubRecOK(y) /\ y.handler # "none"
      /\ y.outbox \in Seq(Nat) /\ y.inbox \in Seq(Nat) /\ y.hand \in Seq(Nat)
  <2>1. y.forwarder = "forward" /\ y.client /\ SubRecOK(y)
    BY <1>1 DEF Forward, SubsOK
  <2>2. QED
    BY <1>1, <2>1 DEF SubRec, SubRecOK
<1>3. PICK o \in Seq(Nat) : o = y.outbox \o y.hand
  <2>1. y.outbox \o y.hand \in Seq(Nat)
    BY <1>2
  <2>2. QED
    BY <2>1, Zenon
<1>4. PICK e \in Seq(Nat) : e = <<>>
  <2>1. <<>> \in Seq(Nat)
    OBVIOUS
  <2>2. QED
    BY <2>1, Zenon
<1>5. PICK x \in SubRec : x = [y EXCEPT !.forwarder = "recv", !.outbox = o, !.hand = e]
  BY <1>1, <1>3, <1>4 DEF SubRec
<1>6. /\ x.handler = y.handler /\ x.forwarder = "recv" /\ x.client = y.client
      /\ x.hand = <<>> /\ x.inbox = y.inbox /\ x.outbox = o
  BY <1>4, <1>5 DEF SubRec
<1>7. sub' = [sub EXCEPT ![s] = x] /\ UNCHANGED <<readers, task, owed, table>>
  BY <1>1, <1>3, <1>4, <1>5 DEF Forward, OnlySub, ChatTypes
<1>8. SubRecOK(x)
  BY <1>2, <1>6 DEF SubRecOK
<1>9. x.outbox \o x.hand \o x.inbox = Pipeline(s)
  <2>1. (y.outbox \o y.hand) \o <<>> \o y.inbox = y.outbox \o y.hand \o y.inbox
    BY <1>2, PipeForward
  <2>2. QED
    BY <1>1, <1>3, <1>6, <2>1 DEF Pipeline
<1>10. table' \in SUBSET Subs /\ \A u \in Subs \ {s} : u \in table' => u \in table
  BY <1>7 DEF ChatTypes
<1>11. QED
  BY <1>1, <1>2, <1>6, <1>7, <1>8, <1>9, <1>10, QuietSub

\* The forwarder ends; its client has left.
LEMMA DisconnectStep == ASSUME ChatInv, NEW s \in Subs, Disconnect(s) PROVE ChatInv'
<1> USE DEF ChatInv
<1>1. PICK y \in SubRec : y = sub[s]
  BY SubTypes
<1>2. ~y.client /\ y.forwarder \in {"recv", "forward"} /\ SubRecOK(y)
  BY <1>1 DEF Disconnect, SubsOK
<1>3. PICK e \in Seq(Nat) : e = <<>>
  <2>1. <<>> \in Seq(Nat)
    OBVIOUS
  <2>2. QED
    BY <2>1, Zenon
<1>4. PICK x \in SubRec : x = [y EXCEPT !.forwarder = "removing", !.hand = e]
  BY <1>1, <1>3 DEF SubRec
<1>5. x.handler = y.handler /\ x.forwarder = "removing" /\ x.client = y.client
  BY <1>4 DEF SubRec
<1>6. sub' = [sub EXCEPT ![s] = x] /\ UNCHANGED <<readers, task, owed, table>>
  BY <1>1, <1>3, <1>4 DEF Disconnect, OnlySub, ChatTypes
<1>7. y.handler # "none"
  BY <1>2 DEF SubRecOK, NoSub
<1>8. SubRecOK(x)
  BY <1>2, <1>5, <1>7 DEF SubRecOK
<1>9. table' \in SUBSET Subs /\ \A u \in Subs \ {s} : u \in table' => u \in table
  BY <1>6 DEF ChatTypes
<1>10. QED
  BY <1>1, <1>2, <1>5, <1>6, <1>7, <1>8, <1>9, QuietSub

\* The sender is removed from the map; its client has left.
LEMMA RemoveSubscriberStep == ASSUME ChatInv, NEW s \in Subs, RemoveSubscriber(s) PROVE ChatInv'
<1> USE DEF ChatInv
<1>1. PICK y \in SubRec : y = sub[s]
  BY SubTypes
<1>2. y.forwarder = "removing" /\ SubRecOK(y)
  BY <1>1 DEF RemoveSubscriber, SubsOK
<1>3. PICK x \in SubRec : x = NoSub
  BY InitNoSub
<1>4. x.handler = "none" /\ x.client = FALSE /\ SubRecOK(x)
  BY <1>3 DEF NoSub, SubRecOK
<1>5. /\ sub' = [sub EXCEPT ![s] = x] /\ UNCHANGED <<readers, task, owed>>
      /\ table' \in SUBSET Subs /\ \A u \in Subs \ {s} : u \in table' => u \in table
      /\ s \notin table' /\ readers = {}
  BY <1>3 DEF RemoveSubscriber, CanWrite, OnlySub, ChatTypes
<1>6. y.client = FALSE
  BY <1>1, <1>2 DEF SubRecOK, SubRec
<1>7. \A t \in Tasks : s \notin task[t].todo
  BY <1>5 DEF TasksOK
<1>8. QED
  BY <1>1, <1>4, <1>5, <1>6, <1>7, QuietSub

-----------------------------------------------------------------------------
(* The theorem.                                                            *)

\* main's steps and steps that change nothing.
LEMMA ChatFrame ==
  ASSUME ChatInv, UNCHANGED <<readers, table, task, sub, owed>>
  PROVE  ChatInv'
<1> USE DEF ChatInv
<1>1. ChatTypes' /\ TasksOK' /\ OwedOK'
  BY DEF ChatTypes, TasksOK, OwedOK, AddingRec
<1>2. SubsOK'
  BY DEF SubsOK, SubRecOK
<1>3. ASSUME NEW s \in Subs, sub'[s].client PROVE Hears(s)'
  <2>1. Hears(s) /\ Pipeline(s)' = Pipeline(s) /\ Coming(s)' = Coming(s)
    BY <1>3 DEF Pipeline, Coming
  <2>2. QED
    BY <2>1, HearsFrame
<1>4. QED
  BY <1>1, <1>2, <1>3

\* Every step preserves the invariant.
LEMMA ChatStep == ChatInv /\ [Next]_vars => ChatInv'
<1> SUFFICES ASSUME ChatInv, [Next]_vars PROVE ChatInv'
  OBVIOUS
<1>1. ASSUME NEW t \in Tasks,
             \/ TaskStep(t) \/ CallFails(t) \/ StreamReceive(t) \/ StreamEnd(t)
             \/ StreamClient(t) \/ BenchSpawn(t) \/ BenchJoin(t)
      PROVE  ChatInv'
  BY <1>1, LockReadStep, FanoutStep, AddMessageDoneStep, CountRequestStep,
     StreamEchoStep, CallFailsStep, StreamReceiveStep, StreamEndStep, StreamClientStep,
     BenchSpawnStep, BenchJoinStep DEF TaskStep
<1>2. ASSUME NEW s \in Subs, SubStep(s) \/ Subscribe(s) \/ Leave(s) \/ ReadMessage(s)
      PROVE  ChatInv'
  BY <1>2, AddSubscriberStep, RecvStep, ForwardStep, DisconnectStep, RemoveSubscriberStep,
     SubscribeStep, LeaveStep, ReadMessageStep DEF SubStep
<1>3. ASSUME SeeSignal \/ AskShutdown \/ Stopped \/ UNCHANGED vars
      PROVE  ChatInv'
  BY <1>3, ChatFrame DEF SeeSignal, AskShutdown, Stopped, vars
<1>4. QED
  BY <1>1, <1>2, <1>3 DEF Next

\* What one subscriber hears, with the length of its channels.
LEMMA HearsOnce == ChatInv => EveryoneHears
<1> SUFFICES ASSUME ChatInv, NEW s \in Subs, sub[s].client
             PROVE  /\ ToSet(Pipeline(s)) \cup Coming(s) = owed[s]
                    /\ ToSet(Pipeline(s)) \cap Coming(s) = {}
                    /\ Len(Pipeline(s)) = Cardinality(ToSet(Pipeline(s)))
  BY DEF EveryoneHears, Coming
<1>1. Hears(s)
  BY DEF ChatInv
<1>2. PICK y \in SubRec : y = sub[s]
  BY SubTypes DEF ChatInv
<1>3. y.outbox \in Seq(Nat) /\ y.hand \in Seq(Nat) /\ y.inbox \in Seq(Nat)
  BY <1>2 DEF SubRec
<1>4. y.outbox \o y.hand \o y.inbox \in Seq(Nat)
  BY <1>3
<1>5. Pipeline(s) \in Seq(Nat)
  BY <1>2, <1>4 DEF Pipeline
<1>6. Len(Pipeline(s)) = Cardinality(ToSet(Pipeline(s)))
  BY <1>1, <1>5, OnceCount DEF Hears
<1>7. QED
  BY <1>1, <1>6 DEF Hears

\* The inductive invariant of the chat node.
THEOREM ChatInvariant == Spec => []ChatInv
BY InitChatInv, ChatStep, PTL DEF Spec

\* A subscriber that stays gets every message that was sent while it was in the map,
\* once, for any number of callers, chat streams and subscribers and any capacity of
\* the channels, whatever fails and whoever leaves on the way.
THEOREM StayersHearAll == Spec => []EveryoneHears
BY ChatInvariant, HearsOnce, PTL

-----------------------------------------------------------------------------
(* The wedge.                                                              *)

\* Task t waits for room in the channel of s, whose forwarder waits for the lock
\* that t holds.
WedgedBy(t, s) ==
  /\ t \in readers /\ s \in task[t].todo
  /\ sub[s].forwarder = "removing" /\ Len(sub[s].inbox) = Capacity

\* It takes t or s to end it.
LEMMA WedgeFrame ==
  ASSUME NEW t, NEW s, WedgedBy(t, s), t \in readers', s \in task'[t].todo, sub'[s] = sub[s]
  PROVE  WedgedBy(t, s)'
BY DEF WedgedBy

\* No other step of add_message ends it.
LEMMA WedgeTask ==
  ASSUME ChatInv, NEW t \in Tasks, NEW s \in Subs, WedgedBy(t, s), NEW u \in Tasks,
         \/ TaskStep(u) \/ (CallFails(u) /\ u # t) \/ StreamReceive(u) \/ StreamEnd(u)
         \/ StreamClient(u) \/ BenchSpawn(u) \/ BenchJoin(u)
  PROVE  WedgedBy(t, s)'
<1>1. t \in readers /\ s \in task[t].todo /\ task[t].pc = "sending" /\ task[t].todo # {}
  BY DEF WedgedBy, ChatInv, TasksOK
<1>2. Len(sub[s].inbox) = Capacity /\ Capacity \in Nat
  BY ChatAssumption DEF WedgedBy
<1>3. task \in [Tasks -> TaskRec] /\ sub \in [Subs -> SubRec]
  BY DEF ChatInv, ChatTypes
<1>4. CASE Fanout(u)
  <2>1. PICK v \in task[u].todo :
          /\ Len(sub[v].inbox) < Capacity
          /\ sub' = [sub EXCEPT ![v].inbox = Append(@, task[u].msg)]
          /\ task' = [task EXCEPT ![u].todo = @ \ {v}] /\ readers' = readers
    BY <1>4 DEF Fanout
  <2>2. v # s
    BY <1>2, <2>1
  <2>3. sub'[s] = sub[s]
    BY <1>3, <2>1, <2>2
  <2>4. s \in task'[t].todo
    <3>1. CASE u = t
      <4>1. PICK z \in TaskRec : z = task[t]
        BY <1>3
      <4>2. task'[t] = [z EXCEPT !.todo = z.todo \ {v}]
        BY <1>3, <2>1, <3>1, <4>1
      <4>3. task'[t].todo = z.todo \ {v}
        BY <4>1, <4>2 DEF TaskRec
      <4>4. QED
        BY <1>1, <2>2, <4>1, <4>3
    <3>2. CASE u # t
      BY <1>1, <1>3, <2>1, <3>2
    <3>3. QED
      BY <3>1, <3>2
  <2>5. QED
    BY <1>1, <2>1, <2>3, <2>4, WedgeFrame
<1>5. CASE StreamClient(u)
  <2>1. sub' = sub /\ readers' = readers
    BY <1>5 DEF StreamClient, OnlyTask
  <2>2. task'[t].todo = task[t].todo
    <3>1. CASE u # t
      BY <1>3, <1>5, <3>1 DEF StreamClient
    <3>2. CASE u = t
      <4>1. PICK z \in TaskRec : z = task[t]
        BY <1>3
      <4>2. \/ task'[t] = [z EXCEPT !.echoes = z.echoes - 1]
            \/ task'[t] = [z EXCEPT !.client = FALSE, !.echoes = 0]
        BY <1>3, <1>5, <3>2, <4>1 DEF StreamClient
      <4>3. QED
        BY <4>1, <4>2 DEF TaskRec
    <3>3. QED
      BY <3>1, <3>2
  <2>3. QED
    BY <1>1, <2>1, <2>2, WedgeFrame
<1>6. CASE ~Fanout(u) /\ ~StreamClient(u)
  <2>1. u # t /\ sub' = sub /\ (readers' = readers \/ readers' = readers \cup {u}
                                  \/ readers' = readers \ {u})
        /\ \A v \in Tasks \ {u} : task'[v] = task[v]
    <3>1. CASE LockRead(u)
      BY <1>1, <1>3, <3>1 DEF LockRead, OnlyTask
    <3>2. CASE AddMessageDone(u)
      BY <1>1, <1>3, <3>2 DEF AddMessageDone, OnlyTask
    <3>3. CASE CountRequest(u)
      BY <1>1, <1>3, <3>3 DEF CountRequest, OnlyTask
    <3>4. CASE StreamEcho(u)
      BY <1>1, <1>3, <3>4 DEF StreamEcho, OnlyTask
    <3>5. CASE CallFails(u) /\ u # t
      BY <1>1, <1>3, <3>5 DEF CallFails, OnlyTask
    <3>6. CASE StreamReceive(u)
      BY <1>1, <1>3, <3>6 DEF StreamReceive, Push, OnlyTask
    <3>7. CASE StreamEnd(u)
      BY <1>1, <1>3, <3>7 DEF StreamEnd, OnlyTask
    <3>8. CASE BenchSpawn(u)
      BY <1>1, <1>3, <3>8 DEF BenchSpawn, Push, OnlyTask
    <3>9. CASE BenchJoin(u)
      BY <1>1, <1>3, <3>9 DEF BenchJoin, OnlyTask
    <3>10. QED
      BY <1>6, <3>1, <3>2, <3>3, <3>4, <3>5, <3>6, <3>7, <3>8, <3>9 DEF TaskStep
  <2>2. t \in readers' /\ task'[t] = task[t]
    BY <1>1, <2>1
  <2>3. QED
    BY <1>1, <2>1, <2>2, WedgeFrame
<1>7. QED
  BY <1>4, <1>5, <1>6

\* No step of a subscriber ends it: its client is gone, its forwarder waits for the
\* lock, and nobody writes to the map.
LEMMA WedgeSub ==
  ASSUME ChatInv, NEW t \in Tasks, NEW s \in Subs, WedgedBy(t, s), NEW v \in Subs,
         SubStep(v) \/ Subscribe(v) \/ Leave(v) \/ ReadMessage(v)
  PROVE  WedgedBy(t, s)'
<1>1. /\ t \in readers /\ s \in task[t].todo /\ readers # {}
      /\ sub[s].forwarder = "removing"
  BY DEF WedgedBy
<1>2. ~sub[s].client /\ sub[s].handler # "none"
  BY <1>1 DEF ChatInv, SubsOK, SubRecOK, NoSub
<1>3. sub \in [Subs -> SubRec]
  BY DEF ChatInv, ChatTypes
<1>4. v # s /\ task' = task /\ readers' = readers /\ sub'[s] = sub[s]
  <2>1. CASE AddSubscriber(v)
    BY <1>1, <2>1 DEF AddSubscriber, CanWrite
  <2>2. CASE RemoveSubscriber(v)
    BY <1>1, <2>2 DEF RemoveSubscriber, CanWrite
  <2>3. CASE Recv(v)
    BY <1>1, <1>3, <2>3 DEF Recv, OnlySub
  <2>4. CASE Forward(v)
    BY <1>1, <1>3, <2>4 DEF Forward, OnlySub
  <2>5. CASE Disconnect(v)
    BY <1>1, <1>3, <2>5 DEF Disconnect, OnlySub
  <2>6. CASE Subscribe(v)
    BY <1>2, <1>3, <2>6 DEF Subscribe, OnlySub
  <2>7. CASE Leave(v)
    BY <1>2, <1>3, <2>7 DEF Leave, OnlySub
  <2>8. CASE ReadMessage(v)
    BY <1>2, <1>3, <2>8 DEF ReadMessage, OnlySub
  <2>9. QED
    BY <2>1, <2>2, <2>3, <2>4, <2>5, <2>6, <2>7, <2>8 DEF SubStep
<1>5. QED
  BY <1>1, <1>4, WedgeFrame

\* One step of the node.
LEMMA WedgeStep ==
  ASSUME ChatInv, [Next]_vars, NEW t \in Tasks, NEW s \in Subs, WedgedBy(t, s), ~CallFails(t)
  PROVE  WedgedBy(t, s)'
<1>1. ASSUME NEW u \in Tasks,
             \/ TaskStep(u) \/ CallFails(u) \/ StreamReceive(u) \/ StreamEnd(u)
             \/ StreamClient(u) \/ BenchSpawn(u) \/ BenchJoin(u)
      PROVE  WedgedBy(t, s)'
  <2>1. CallFails(u) => u # t
    OBVIOUS
  <2>2. QED
    BY <1>1, <2>1, WedgeTask
<1>2. ASSUME NEW v \in Subs, SubStep(v) \/ Subscribe(v) \/ Leave(v) \/ ReadMessage(v)
      PROVE  WedgedBy(t, s)'
  BY <1>2, WedgeSub
<1>3. ASSUME SeeSignal \/ AskShutdown \/ Stopped \/ UNCHANGED vars
      PROVE  WedgedBy(t, s)'
  BY <1>3 DEF SeeSignal, AskShutdown, Stopped, vars, WedgedBy
<1>4. QED
  BY <1>1, <1>2, <1>3 DEF Next

\* The deadlock between add_message and remove_subscriber, the exception that
\* LockPassesOn makes, is no delay: it ends only if the very call that holds the lock
\* fails, whatever the other calls, streams, subscribers and main do.  When it is a chat
\* stream that holds the lock, only the end of the process ends it.
THEOREM WedgeStays ==
  Spec => [][\A t \in Tasks, s \in Subs :
               WedgedBy(t, s) => WedgedBy(t, s)' \/ (t \in Calls /\ CallFails(t))]_vars
<1>1. ChatInv /\ [Next]_vars
        => [\A t \in Tasks, s \in Subs :
              WedgedBy(t, s) => WedgedBy(t, s)' \/ (t \in Calls /\ CallFails(t))]_vars
  BY WedgeStep DEF CallFails
<1>2. QED
  BY ChatInvariant, <1>1, PTL DEF Spec
=============================================================================
