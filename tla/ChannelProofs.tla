--------------------------- MODULE ChannelProofs ---------------------------
(***************************************************************************)
(* Proofs about Channel for any windows, request bodies and handlers: a    *)
(* failed connect leaves no connection, back-pressure bounds what h2       *)
(* buffers, and a request or a response that ends well is a whole one.     *)
(***************************************************************************)
EXTENDS Channel, WellFoundedInduction, TLAPS

\* Who owns a handle of the connection, by the await that connect_inner is at.
Owned(pc) ==
  CASE pc = "opening" -> {"connection"}
    [] pc = "handshaking" -> {"connection", "stream"}
    [] OTHER -> {}

\* The types of connect; while it is under way it owns the handles of the connection,
\* and nobody else does; afterwards the driver task may, if there is a channel.
ConnectOK ==
  /\ builder \in [timeout : BOOLEAN, config : BOOLEAN]
  /\ connect \in [pc : {"connecting", "finishing", "opening", "handshaking", "channel", "error",
                        "cancelled"}, error : Kinds \cup {"none"}]
  /\ link \in {"none", "up", "closed", "lost"}
  /\ connect.pc # "channel" => owners = Owned(connect.pc)
  /\ connect.pc = "channel" => owners \in SUBSET {"driver"}
  /\ connect.pc \in {"error", "cancelled"} => link # "up"

\* The request half of an h2 stream.
Request == [window : Nat, buffered : Nat, end : {"open", "end", "reset"}, peerReset : BOOLEAN]

\* The types of the request half, and the frame that waits for capacity.
RequestOK ==
  /\ body \in Bodies
  /\ call \in [pc : {"idle", "pumping", "capacity", "response", "ok", "err", "cancelled"},
               next : Nat \ {0}]
  /\ call.pc = "capacity" => call.next <= Len(body.frames)
  /\ call.next <= Len(body.frames) + 1
  /\ req \in Request

\* What arrives on the response half.
Items == {"headers", "data", "trailers", "end", "error"}

\* The remote handler and the body that polls its answer.
Server == [pc : {"serving", "done", "reset", "lost"}, style : Styles, replies : Nat,
           got : Nat, read : Nat, saw : {"open", "end", "reset"}, headers : BOOLEAN,
           owed : Nat, sent : Nat]

Response == [state : {"none", "Data", "Trailers", "Done"}, delivered : Nat,
             result : {"none", "complete", "error", "dropped"}]

\* The types of the response half.
ResponseOK ==
  server \in Server /\ rbuf \in Seq(Items) /\ rwindow \in Nat /\ resp \in Response

\* Headers that were sent and that call has not taken.
Pending == IF server.headers /\ resp.state = "none" THEN 1 ELSE 0

\* What was sent and is not delivered.
Undelivered == server.sent - resp.delivered

\* Headers, data and end follow each other in the buffer: h headers, the k units that
\* are not delivered, and then the end, which only a handler that is done has sent;
\* while the handler serves there is nothing else.
Shape(buf, h, k, pc) ==
  /\ buf \in Seq(Items) /\ h + k <= Len(buf)
  /\ pc = "serving" => h + k = Len(buf)
  /\ \A i \in 1 .. Len(buf) :
       /\ buf[i] = "data" <=> h < i /\ i <= h + k
       /\ buf[i] = "headers" <=> i = 1 /\ h = 1
       /\ buf[i] \in {"trailers", "end"} => i = h + k + 1 /\ pc = "done"

\* The buffer of the response half has that shape.
InOrder == resp.delivered <= server.sent /\ Shape(rbuf, Pending, Undelivered, server.pc)

\* The response body begins with the headers, and is whole when it ends well.
WholeOK ==
  /\ server.headers \/ (resp.state = "none" /\ server.sent = 0)
  /\ resp.state = "none" => resp.delivered = 0
  /\ resp.result = "complete" => resp.state = "Done"
  /\ NoTruncatedResponse

-----------------------------------------------------------------------------
(* The connect.                                                            *)

\* Every error of a QUIC connection has a kind.
LEMMA KindOfError ==
  /\ \A e \in ConnectionError : IoKind(e) \in Kinds
  /\ \A e \in ConnectionError \cup {"HandshakeFailure"} : ConnectingKind(e) \in Kinds
BY DEF ConnectionError, IoKind, ConnectingKind, Kinds

\* A connect that is under way and is given up drops every handle there is, so that a
\* connection that is up is closed.
LEMMA GiveUp ==
  ASSUME ConnectOK, Connecting, Drop(Locals), UNCHANGED builder, connect'.error \in Kinds \cup {"none"},
         connect' = [pc |-> "error", error |-> connect'.error]
           \/ connect' = [pc |-> "cancelled", error |-> connect'.error]
  PROVE  ConnectOK'
<1>1. owners \subseteq Locals
  BY DEF ConnectOK, Connecting, Owned, Locals
<1>2. owners' = {} /\ link' # "up" /\ link' \in {"none", "up", "closed", "lost"}
  BY <1>1 DEF Drop, ConnectOK
<1>3. connect'.pc \in {"error", "cancelled"} /\ Owned(connect'.pc) = {}
  BY DEF Owned
<1>4. QED BY <1>2, <1>3 DEF ConnectOK

\* An error is such an end.
LEMMA ReturnErrorOK ==
  ASSUME ConnectOK, Connecting, NEW kind \in Kinds, ReturnError(kind), UNCHANGED builder
  PROVE  ConnectOK'
<1>1. connect' = [pc |-> "error", error |-> kind] /\ connect'.error = kind /\ Drop(Locals)
  BY DEF ReturnError
<1>2. QED BY <1>1, GiveUp

\* Only the connect's own steps, losses and the end of the driver touch the connection.
LEMMA ConnectNext == ASSUME ConnectOK, [Next]_vars PROVE ConnectOK'
<1>1. ASSUME ConnectStep \/ ConnectTimeout \/ CancelConnect, UNCHANGED builder
      PROVE  ConnectOK'
  <2>1. CASE EndpointConnectFails
    BY <1>1, <2>1, ReturnErrorOK DEF EndpointConnectFails, Kinds, Connecting, At
  <2>2. CASE FinishConnectingFails
    BY <1>1, <2>2, ReturnErrorOK, KindOfError DEF FinishConnectingFails, Connecting, At
  <2>3. CASE OpenBiFails
    BY <1>1, <2>3, ReturnErrorOK, KindOfError DEF OpenBiFails, Connecting, At
  <2>4. CASE HandshakeFails
    BY <1>1, <2>4, ReturnErrorOK DEF HandshakeFails, Kinds, Connecting, At
  <2>5. CASE ConnectTimeout
    BY <1>1, <2>5, ReturnErrorOK DEF ConnectTimeout, Kinds
  <2>6. CASE CancelConnect
    <3>1. connect' = [pc |-> "cancelled", error |-> connect.error] /\ connect'.error = connect.error
      BY <2>6 DEF CancelConnect, Goto, ConnectOK
    <3>2. Drop(Locals) /\ Connecting /\ connect.error \in Kinds \cup {"none"}
      BY <2>6 DEF CancelConnect, ConnectOK
    <3>3. QED BY <1>1, <3>1, <3>2, GiveUp
  <2>7. CASE EndpointConnect
    BY <1>1, <2>7 DEF EndpointConnect, Connected, Goto, At, ConnectOK, Owned
  <2>8. CASE FinishConnecting
    BY <1>1, <2>8 DEF FinishConnecting, Connected, Goto, At, ConnectOK, Owned
  <2>9. CASE OpenBi
    BY <1>1, <2>9 DEF OpenBi, Goto, At, ConnectOK, Owned
  <2>10. CASE Handshake
    BY <1>1, <2>10 DEF Handshake, Goto, At, ConnectOK, Owned, Locals
  <2>11. QED
    BY <1>1, <2>1, <2>2, <2>3, <2>4, <2>5, <2>6, <2>7, <2>8, <2>9, <2>10 DEF ConnectStep
<1>2. CASE UNCHANGED connectVars
  BY <1>2 DEF connectVars, ConnectOK
<1>3. CASE Lose
  BY <1>3 DEF Lose, ConnectOK
<1>4. CASE DriverEnds
  <2>1. connect.pc = "channel"
    BY <1>4 DEF DriverEnds, ConnectOK, Owned
  <2>2. QED BY <1>4, <2>1 DEF DriverEnds, Drop, ConnectOK
<1>5. CASE CallStep \/ CancelCall
  BY <1>2, <1>5 DEF CallStep, StartCall, PumpFrame, PumpSend, PumpEnd, PumpFails,
     AwaitResponse, CancelCall, OnlyCall
<1>6. CASE RespStep \/ DropBody
  BY <1>2, <1>6 DEF RespStep, PollData, PollDataNone, PollError, PollTrailers, OnlyResp, DropBody
<1>7. CASE Transmit \/ ServerStep \/ ServerFails \/ DropHandle
  BY <1>2, <1>7 DEF Transmit, ServerStep, Read, SendHeaders, Reply, FinishReply, EarlyReset,
     ResetByServer, ServerFails, OnlyServer, DropHandle
<1>8. CASE UNCHANGED vars
  BY <1>2, <1>8 DEF vars
<1>9. QED BY <1>1, <1>2, <1>3, <1>4, <1>5, <1>6, <1>7, <1>8 DEF Next

-----------------------------------------------------------------------------
(* The request half.                                                       *)

\* The frame sent last is positive, so that an empty buffer is within the bound.
LEMMA EmptyBufferFits == ASSUME RequestOK', req'.buffered = 0 PROVE BackPressure'
<1>1. body'.frames \in Seq(Nat \ {0}) /\ call'.next \in Nat \ {0} /\ req'.window \in Nat
  BY BodiesAssumption DEF RequestOK, Request
<1>2. (IF call'.next > 1 THEN body'.frames[call'.next - 1] ELSE 1) \in Nat \ {0}
  BY <1>1 DEF RequestOK, Request
<1>3. QED BY <1>1, <1>2 DEF BackPressure

\* A step that resets the stream.
LEMMA ResetFits ==
  ASSUME RequestOK, NEW pc \in {"err", "cancelled"},
         req' = [req EXCEPT !.end = "reset", !.buffered = 0], UNCHANGED body,
         call' = [call EXCEPT !.pc = pc] \/ UNCHANGED call
  PROVE  (RequestOK /\ BackPressure)'
<1>1. RequestOK' /\ req'.buffered = 0
  BY DEF RequestOK, Request
<1>2. QED BY <1>1, EmptyBufferFits

\* What the invariant of the request half is about.
RequestVars == <<body, call, req>>

\* A step of the request half keeps its types and the bound.
LEMMA RequestNext ==
  ASSUME RequestOK, BackPressure, [Next]_vars
  PROVE  (RequestOK /\ BackPressure)'
<1>0. body.frames \in Seq(Nat \ {0}) /\ body \in Bodies
  BY BodiesAssumption DEF RequestOK, Request
<1>1. CASE UNCHANGED RequestVars
  BY <1>1 DEF RequestVars, RequestOK, BackPressure
<1>2. CASE StartCall \/ PumpFrame \/ PumpEnd \/ AwaitResponse
  BY <1>2 DEF StartCall, PumpFrame, PumpEnd, BodyOver, AwaitResponse, OnlyCall,
     RequestOK, Request, BackPressure
<1>3. CASE PumpSend
  <2> DEFINE f == body.frames[call.next]
  <2>1. f \in Nat \ {0} /\ call.next >= 1 /\ call.next <= Len(body.frames) /\ call.next \in Nat
    BY <1>0, <1>3 DEF PumpSend, RequestOK
  <2>2. /\ call' = [pc |-> "pumping", next |-> call.next + 1] /\ body' = body
        /\ req' = [req EXCEPT !.buffered = @ + f] /\ req.buffered < req.window
    BY <1>3 DEF PumpSend, OnlyCall, RequestOK
  <2>3. RequestOK'
    <3>1. req' \in Request
      BY <2>1, <2>2, SMTT(30) DEF RequestOK, Request
    <3>2. QED BY <1>0, <2>1, <2>2, <3>1, SMTT(30) DEF RequestOK, Request
  <2>4. req'.buffered < req'.window + body'.frames[call'.next - 1]
    BY <2>1, <2>2 DEF RequestOK, Request
  <2>5. QED BY <2>1, <2>2, <2>3, <2>4 DEF BackPressure
<1>4. CASE PumpFails
  BY <1>4, ResetFits DEF PumpFails, OnlyCall
<1>5. CASE CancelCall
  BY <1>5, ResetFits DEF CancelCall, OnlyCall
<1>6. CASE DropBody
  BY <1>6, ResetFits DEF DropBody
<1>7. CASE Transmit \/ Read
  <2>1. UNCHANGED <<body, call>>
    BY <1>7 DEF Transmit, Read, OnlyServer
  <2>2. \/ UNCHANGED req
        \/ /\ req.buffered > 0 /\ req.window > 0
           /\ req' = [req EXCEPT !.buffered = @ - 1, !.window = @ - 1]
        \/ req' = [req EXCEPT !.window = @ + 1]
    BY <1>7 DEF Transmit, Read
  <2>3. (IF call.next > 1 THEN body.frames[call.next - 1] ELSE 1) \in Nat
    BY <1>0 DEF RequestOK, Request
  <2>4. /\ req' \in Request
        /\ \/ req'.buffered = req.buffered /\ req'.window >= req.window
           \/ req'.buffered = req.buffered - 1 /\ req'.window = req.window - 1
    <3>0. req \in Request
      BY DEF RequestOK, Request
    <3>1. CASE UNCHANGED req
      BY <3>0, <3>1 DEF Request
    <3>2. CASE /\ req.buffered > 0 /\ req.window > 0
               /\ req' = [req EXCEPT !.buffered = @ - 1, !.window = @ - 1]
      <4>1. req.buffered - 1 \in Nat /\ req.window - 1 \in Nat
        BY <3>0, <3>2 DEF Request
      <4>2. QED BY <3>0, <3>2, <4>1 DEF Request
    <3>3. CASE req' = [req EXCEPT !.window = @ + 1]
      BY <3>0, <3>3 DEF Request
    <3>4. QED BY <2>2, <3>1, <3>2, <3>3
  <2>5. RequestOK' /\ BackPressure'
    BY <2>1, <2>3, <2>4, SMTT(30) DEF RequestOK, Request, BackPressure
  <2>6. QED BY <2>5
<1>8. CASE EarlyReset \/ ServerFails
  <2>1. req' = [req EXCEPT !.peerReset = TRUE, !.buffered = 0] /\ UNCHANGED <<body, call>>
    BY <1>8 DEF EarlyReset, ServerFails, ResetByServer, OnlyServer
  <2>2. RequestOK' /\ req'.buffered = 0
    BY <2>1 DEF RequestOK, Request
  <2>3. QED BY <2>2, EmptyBufferFits
<1>9. CASE RespStep
  BY <1>1, <1>9 DEF RespStep, PollData, PollDataNone, PollError, PollTrailers, OnlyResp, RequestVars
<1>10. CASE SendHeaders \/ Reply \/ FinishReply
  BY <1>1, <1>10 DEF SendHeaders, Reply, FinishReply, OnlyServer, RequestVars
<1>11. CASE Lose \/ DropHandle \/ DriverEnds
  BY <1>1, <1>11 DEF Lose, DropHandle, DriverEnds, RequestVars
<1>12. CASE UNCHANGED chanVars \/ UNCHANGED vars
  BY <1>1, <1>12 DEF chanVars, vars, RequestVars
<1>13. QED BY <1>1, <1>2, <1>3, <1>4, <1>5, <1>6, <1>7, <1>8, <1>9, <1>10, <1>11, <1>12
          DEF Next, CallStep, ServerStep

-----------------------------------------------------------------------------
(* The response half.                                                      *)

\* An error is appended when the handler serves no longer, or served until now.
LEMMA ShapeError ==
  ASSUME NEW buf, NEW h \in {0, 1}, NEW k \in Nat, NEW pc, NEW qc,
         Shape(buf, h, k, pc), qc # "serving", pc = "done" => qc = "done"
  PROVE  Shape(Append(buf, "error"), h, k, qc)
BY DEF Shape, Items

\* The handler sends the headers first.
LEMMA ShapeHeaders ==
  ASSUME NEW buf, Shape(buf, 0, 0, "serving")
  PROVE  Shape(Append(buf, "headers"), 1, 0, "serving")
BY DEF Shape, Items

\* A unit follows the units before it.
LEMMA ShapeData ==
  ASSUME NEW buf, NEW h \in {0, 1}, NEW k \in Nat, Shape(buf, h, k, "serving")
  PROVE  Shape(Append(buf, "data"), h, k + 1, "serving")
BY DEF Shape, Items

\* The end follows the data.
LEMMA ShapeEnd ==
  ASSUME NEW buf, NEW h \in {0, 1}, NEW k \in Nat, NEW last \in {"trailers", "end"},
         Shape(buf, h, k, "serving")
  PROVE  Shape(Append(buf, last), h, k, "done")
BY DEF Shape, Items

\* The client takes the headers.
LEMMA ShapeTakeHeaders ==
  ASSUME NEW buf, NEW k \in Nat, NEW pc, Shape(buf, 1, k, pc)
  PROVE  Shape(Tail(buf), 0, k, pc)
BY DEF Shape, Items

\* A unit is taken from the front.
LEMMA ShapeTakeData ==
  ASSUME NEW buf, NEW k \in Nat, NEW pc, Shape(buf, 0, k, pc), buf # <<>>, Head(buf) = "data"
  PROVE  k - 1 \in Nat /\ Shape(Tail(buf), 0, k - 1, pc)
BY DEF Shape, Items

\* The end is at the front only if nothing is undelivered.
LEMMA ShapeTakeEnd ==
  ASSUME NEW buf, NEW k \in Nat, NEW pc, Shape(buf, 0, k, pc), buf # <<>>,
         Head(buf) \in {"trailers", "end"}
  PROVE  k = 0 /\ pc = "done" /\ Shape(Tail(buf), 0, 0, pc)
BY DEF Shape, Items

\* The invariant of the response half.
RInv == ResponseOK /\ InOrder /\ WholeOK

\* What RInv says of the buffer, in numbers.
LEMMA Numbers ==
  ASSUME RInv
  PROVE  /\ Pending \in {0, 1} /\ Undelivered \in Nat
         /\ server.sent \in Nat /\ resp.delivered \in Nat
         /\ Shape(rbuf, Pending, Undelivered, server.pc)
BY DEF RInv, ResponseOK, InOrder, Pending, Undelivered, Server, Response

\* What RInv speaks of is unchanged when the handler reads and h2 transmits.
LEMMA RequestUnseen ==
  ASSUME RInv, server' \in Server, UNCHANGED <<rbuf, rwindow, resp>>, server'.pc = server.pc,
         server'.headers = server.headers, server'.sent = server.sent
  PROVE  RInv'
BY DEF RInv, ResponseOK, InOrder, WholeOK, NoTruncatedResponse, Pending, Undelivered, Shape

\* Steps of the request half and of the handler that reads.
LEMMA ReadStep == ASSUME RInv, RequestOK, Transmit \/ Read PROVE RInv'
<1>1. server \in Server /\ req \in Request
  BY DEF RInv, ResponseOK, RequestOK
<1>2. UNCHANGED <<rbuf, rwindow, resp>>
  BY DEF Transmit, Read, OnlyServer
<1>3. CASE Transmit
  <2>1. server' \in Server /\ server'.pc = server.pc /\ server'.headers = server.headers
          /\ server'.sent = server.sent
    BY <1>1, <1>3 DEF Transmit, Server, Request
  <2>2. QED BY <1>2, <2>1, RequestUnseen
<1>4. CASE Read
  <2>1. server.got - 1 \in Nat /\ server.read + 1 \in Nat
          /\ (IF server.style = "echo" THEN server.owed + 1 ELSE server.owed) \in Nat
    BY <1>1, <1>4 DEF Read, Server
  <2>2. server' \in Server /\ server'.pc = server.pc /\ server'.headers = server.headers
          /\ server'.sent = server.sent
    BY <1>1, <1>4, <2>1 DEF Read, Server
  <2>3. QED BY <1>2, <2>2, RequestUnseen
<1>5. QED BY <1>3, <1>4

\* The handler's answer.
LEMMA AnswerStep == ASSUME RInv, SendHeaders \/ Reply \/ FinishReply PROVE RInv'
<1>1. server \in Server /\ rbuf \in Seq(Items) /\ rwindow \in Nat /\ resp \in Response
  BY DEF RInv, ResponseOK
<1>2. server.pc = "serving" /\ UNCHANGED resp
  BY DEF SendHeaders, Reply, FinishReply, Serving, OnlyServer
<1>3. CASE SendHeaders
  <2>1. /\ server' \in Server /\ server'.headers /\ server'.pc = "serving"
        /\ server'.sent = server.sent /\ rbuf' = Append(rbuf, "headers")
        /\ rwindow' = rwindow /\ ~server.headers
    BY <1>1, <1>2, <1>3 DEF SendHeaders, Server
  <2>2. resp.state = "none" /\ server.sent = 0 /\ resp.delivered = 0
    BY <2>1 DEF RInv, WholeOK
  <2>3. Shape(rbuf, 0, 0, "serving")
    BY <1>2, <2>1, <2>2 DEF RInv, InOrder, Pending, Undelivered
  <2>4. Pending' = 1 /\ Undelivered' = 0
    BY <1>2, <2>1, <2>2 DEF Pending, Undelivered
  <2>5. Shape(rbuf', 1, 0, "serving")
    BY <2>1, <2>3, ShapeHeaders
  <2>6. ResponseOK'
    BY <1>1, <1>2, <2>1, <2>5 DEF ResponseOK, Shape
  <2>7. InOrder'
    BY <1>2, <2>1, <2>2, <2>4, <2>5 DEF InOrder, Shape
  <2>8. WholeOK'
    BY <1>2, <2>1, <2>2 DEF WholeOK, NoTruncatedResponse, RInv
  <2>9. QED BY <2>6, <2>7, <2>8 DEF RInv
<1>4. CASE Reply
  <2>1. /\ server.owed - 1 \in Nat /\ server.sent + 1 \in Nat
        /\ rwindow - 1 \in Nat
    BY <1>1, <1>4 DEF Reply, Server
  <2>2. /\ server' \in Server /\ server'.headers /\ server'.pc = "serving" /\ server.headers
        /\ server'.sent = server.sent + 1 /\ rbuf' = Append(rbuf, "data") /\ rwindow' \in Nat
    BY <1>1, <1>2, <1>4, <2>1 DEF Reply, Server
  <2>3. Pending' = Pending /\ Undelivered' = Undelivered + 1
    BY <1>1, <1>2, <2>2 DEF Pending, Undelivered, Server, Response
  <2>4. Shape(rbuf', Pending', Undelivered', "serving")
    BY <1>2, <2>2, <2>3, Numbers, ShapeData
  <2>5. ResponseOK' /\ InOrder'
    BY <1>1, <1>2, <2>2, <2>4, SMTT(30) DEF ResponseOK, InOrder, Shape, RInv, Server, Response
  <2>6. WholeOK'
    BY <1>2, <2>2 DEF WholeOK, NoTruncatedResponse, RInv
  <2>7. QED BY <2>5, <2>6 DEF RInv
<1>5. CASE FinishReply
  <2>1. PICK last \in {"trailers", "end"} : rbuf' = Append(rbuf, last)
    BY <1>5 DEF FinishReply
  <2>2. /\ server' \in Server /\ server'.headers /\ server'.pc = "done" /\ server.headers
        /\ server'.sent = server.sent /\ rwindow' = rwindow
    BY <1>1, <1>5 DEF FinishReply, Server
  <2>3. Pending' = Pending /\ Undelivered' = Undelivered
    BY <1>2, <2>2 DEF Pending, Undelivered
  <2>4. Shape(rbuf', Pending', Undelivered', "done")
    BY <1>2, <2>1, <2>3, Numbers, ShapeEnd
  <2>5. ResponseOK' /\ InOrder'
    BY <1>1, <1>2, <2>2, <2>4 DEF ResponseOK, InOrder, Shape, RInv
  <2>6. WholeOK'
    BY <1>2, <2>2 DEF WholeOK, NoTruncatedResponse, RInv
  <2>7. QED BY <2>5, <2>6 DEF RInv
<1>6. QED BY <1>3, <1>4, <1>5

\* A handler that fails, a reset and a lost connection: an error comes last, and a
\* handler that was done stays so.
LEMMA ErrorStep ==
  ASSUME RInv, EarlyReset \/ ServerFails \/ Lose
  PROVE  RInv'
<1>1. server \in Server /\ rbuf \in Seq(Items) /\ rwindow \in Nat /\ resp \in Response
  BY DEF RInv, ResponseOK
<1>2. rbuf' = Append(rbuf, "error") /\ UNCHANGED <<rwindow, resp>>
  BY DEF EarlyReset, ServerFails, ResetByServer, OnlyServer, Lose
<1>3. /\ server' \in Server /\ server'.headers = server.headers /\ server'.sent = server.sent
      /\ server'.pc # "serving" /\ (server.pc = "done" => server'.pc = "done")
  BY <1>1 DEF EarlyReset, ServerFails, Lose, Server
<1>4. Pending' = Pending /\ Undelivered' = Undelivered
  BY <1>2, <1>3 DEF Pending, Undelivered
<1>5. Shape(rbuf', Pending', Undelivered', server'.pc)
  BY <1>2, <1>3, <1>4, Numbers, ShapeError
<1>6. ResponseOK' /\ InOrder'
  BY <1>1, <1>2, <1>3, <1>5 DEF ResponseOK, InOrder, Shape, RInv
<1>7. WholeOK'
  BY <1>2, <1>3 DEF WholeOK, NoTruncatedResponse, RInv
<1>8. QED BY <1>6, <1>7 DEF RInv

\* The driver ends, which the client's half does not see.
LEMMA DriverStep == ASSUME RInv, DriverEnds PROVE RInv'
<1>1. server \in Server /\ UNCHANGED <<rbuf, rwindow, resp>>
  BY DEF RInv, ResponseOK, DriverEnds
<1>2. /\ server' \in Server /\ server'.headers = server.headers /\ server'.sent = server.sent
      /\ server'.pc = server.pc \/ (server.pc = "serving" /\ server'.pc = "lost")
  BY <1>1 DEF DriverEnds, Server
<1>3. Pending' = Pending /\ Undelivered' = Undelivered
  BY <1>1, <1>2 DEF Pending, Undelivered
<1>4. ResponseOK' /\ InOrder'
  BY <1>1, <1>2, <1>3, Numbers DEF ResponseOK, InOrder, Shape, RInv
<1>5. WholeOK'
  BY <1>1, <1>2 DEF WholeOK, NoTruncatedResponse, RInv
<1>6. QED BY <1>4, <1>5 DEF RInv

\* call takes the headers.
LEMMA HeadersStep == ASSUME RInv, AwaitResponse PROVE RInv'
<1>1. server \in Server /\ rbuf \in Seq(Items) /\ rwindow \in Nat /\ resp \in Response
  BY DEF RInv, ResponseOK
<1>2. CASE Head(rbuf) = "headers"
  <2>1. /\ rbuf' = Tail(rbuf) /\ rbuf # <<>> /\ resp' = [resp EXCEPT !.state = "Data"]
        /\ UNCHANGED <<server, rwindow>>
    BY <1>2 DEF AwaitResponse
  <2>2. Pending = 1 /\ Len(rbuf) >= 1 /\ rbuf[1] = "headers"
    BY <1>1, <1>2, <2>1, Numbers DEF Shape
  <2>3. server.headers /\ resp.state = "none"
    BY <2>2 DEF Pending
  <2>4. /\ resp' \in Response /\ resp'.state = "Data" /\ resp'.delivered = resp.delivered
        /\ resp'.result = resp.result /\ resp.result # "complete"
    BY <1>1, <2>1, <2>3 DEF Response, RInv, WholeOK
  <2>5. Pending' = 0 /\ Undelivered' = Undelivered
    BY <2>1, <2>4 DEF Pending, Undelivered
  <2>6. Shape(rbuf', Pending', Undelivered', server'.pc)
    BY <2>1, <2>2, <2>5, Numbers, ShapeTakeHeaders
  <2>7. ResponseOK' /\ InOrder'
    BY <1>1, <2>1, <2>4, <2>6 DEF ResponseOK, InOrder, Shape, RInv
  <2>8. WholeOK'
    BY <2>1, <2>3, <2>4 DEF WholeOK, NoTruncatedResponse
  <2>9. QED BY <2>7, <2>8 DEF RInv
<1>3. CASE Head(rbuf) # "headers"
  <2>1. UNCHANGED <<server, rbuf, rwindow, resp>>
    BY <1>3 DEF AwaitResponse
  <2>2. QED BY <1>1, <2>1, RequestUnseen
<1>4. QED BY <1>2, <1>3

\* poll_frame: a unit, the end of the data, an error, the trailers.
LEMMA BodyStep == ASSUME RInv, RespStep \/ DropBody PROVE RInv'
<1>1. server \in Server /\ rbuf \in Seq(Items) /\ rwindow \in Nat /\ resp \in Response
  BY DEF RInv, ResponseOK
<1>2. /\ resp.state \in {"Data", "Trailers"} /\ UNCHANGED server
  BY DEF RespStep, PollData, PollDataNone, PollError, PollTrailers, DropBody, OnlyResp
<1>3. /\ Pending = 0 /\ server.headers /\ resp.result # "complete"
      /\ Shape(rbuf, 0, Undelivered, server.pc)
  BY <1>2, Numbers DEF Pending, RInv, WholeOK
<1>4. CASE PollData
  <2>1. rbuf # <<>> /\ Head(rbuf) = "data"
    BY <1>4 DEF PollData, Ending
  <2>2. /\ resp' \in Response /\ resp'.state = "Data" /\ resp'.delivered = resp.delivered + 1
        /\ resp'.result = resp.result /\ rbuf' = Tail(rbuf) /\ rwindow' \in Nat
    BY <1>1, <1>4 DEF PollData, Response
  <2>3. Undelivered - 1 \in Nat /\ Shape(rbuf', 0, Undelivered - 1, server.pc)
    BY <1>3, <2>1, <2>2, Numbers, ShapeTakeData
  <2>4. Pending' = 0 /\ Undelivered' = Undelivered - 1 /\ resp'.delivered <= server.sent
    BY <1>2, <2>2, <2>3, Numbers DEF Pending, Undelivered
  <2>5. ResponseOK' /\ InOrder'
    BY <1>1, <1>2, <2>2, <2>3, <2>4 DEF ResponseOK, InOrder, Shape
  <2>6. WholeOK'
    BY <1>2, <1>3, <2>2 DEF WholeOK, NoTruncatedResponse
  <2>7. QED BY <2>5, <2>6 DEF RInv
<1>5. CASE PollDataNone \/ PollError \/ DropBody
  <2>1. /\ resp' \in Response /\ resp'.state \in {"Trailers", "Done"}
        /\ resp'.delivered = resp.delivered /\ resp'.result # "complete"
        /\ UNCHANGED <<rbuf, rwindow>>
    BY <1>1, <1>3, <1>5 DEF PollDataNone, PollError, DropBody, Response
  <2>2. Pending' = 0 /\ Undelivered' = Undelivered
    BY <1>2, <2>1 DEF Pending, Undelivered
  <2>3. ResponseOK' /\ InOrder'
    BY <1>1, <1>2, <1>3, <2>1, <2>2 DEF ResponseOK, InOrder, Shape, RInv
  <2>4. WholeOK'
    BY <1>2, <1>3, <2>1 DEF WholeOK, NoTruncatedResponse
  <2>5. QED BY <2>3, <2>4 DEF RInv
<1>6. CASE PollTrailers
  <2>1. rbuf # <<>> /\ Head(rbuf) \in {"trailers", "end"}
    BY <1>6 DEF PollTrailers, Ending
  <2>2. /\ resp' \in Response /\ resp'.state = "Done" /\ resp'.delivered = resp.delivered
        /\ resp'.result = "complete" /\ rbuf' = Tail(rbuf) /\ rwindow' = rwindow
    BY <1>1, <1>6 DEF PollTrailers, Response
  <2>3. Undelivered = 0 /\ server.pc = "done" /\ Shape(rbuf', 0, 0, server.pc)
    BY <1>3, <2>1, <2>2, Numbers, ShapeTakeEnd
  <2>4. Pending' = 0 /\ Undelivered' = 0 /\ resp'.delivered = server.sent
    BY <1>2, <2>2, <2>3, Numbers DEF Pending, Undelivered
  <2>5. ResponseOK' /\ InOrder'
    BY <1>1, <1>2, <2>2, <2>3, <2>4 DEF ResponseOK, InOrder, Shape, Server
  <2>6. WholeOK'
    BY <1>2, <1>3, <2>2, <2>3, <2>4 DEF WholeOK, NoTruncatedResponse
  <2>7. QED BY <2>5, <2>6 DEF RInv
<1>7. QED BY <1>4, <1>5, <1>6 DEF RespStep

\* What the invariant of the response half is about.
ResponseVars == <<server, rbuf, rwindow, resp>>

\* Every step keeps the response whole.
LEMMA ResponseNext == ASSUME RInv, RequestOK, [Next]_vars PROVE RInv'
<1>1. CASE UNCHANGED ResponseVars
  BY <1>1, RequestUnseen DEF ResponseVars, RInv, ResponseOK
<1>2. CASE StartCall \/ PumpFrame \/ PumpSend \/ PumpEnd \/ PumpFails \/ CancelCall \/ DropHandle
  BY <1>1, <1>2 DEF StartCall, PumpFrame, PumpSend, PumpEnd, PumpFails, CancelCall, OnlyCall,
     DropHandle, ResponseVars
<1>3. CASE UNCHANGED chanVars \/ UNCHANGED vars
  BY <1>1, <1>3 DEF chanVars, vars, ResponseVars
<1>4. QED BY <1>1, <1>2, <1>3, HeadersStep, BodyStep, ReadStep, AnswerStep, ErrorStep, DriverStep
          DEF Next, CallStep, ServerStep

-----------------------------------------------------------------------------
(* The units of the request.                                               *)

\* A set of numbers has a least element.
LEMMA LeastNat ==
  ASSUME NEW T \in SUBSET Nat, T # {}
  PROVE  \E m \in T : \A k \in T : m <= k
<1> DEFINE R == OpToRel(<, Nat)
<1>1. IsWellFoundedOn(R, Nat)
  BY NatLessThanWellFounded, Zenon
<1>2. \A x, y \in Nat : y < x => <<y, x>> \in R
  BY DEF OpToRel
<1> HIDE DEF R
<1>3. PICK x \in T : \A y \in T : ~ (<<y, x>> \in R)
  BY <1>1, WFMin
<1>4. \A y \in T : ~ (y < x)
  BY <1>2, <1>3
<1>5. \A y \in T : x <= y
  BY <1>4
<1>6. QED BY <1>5

\* A set that has 0 and every successor of its elements has all numbers.
LEMMA NatSetInduction ==
  ASSUME NEW S, 0 \in S, \A n \in Nat : n \in S => n + 1 \in S
  PROVE  Nat \subseteq S
<1> DEFINE T == Nat \ S
<1> SUFFICES ASSUME T # {} PROVE FALSE
  OBVIOUS
<1>1. PICK m \in T : \A k \in T : m <= k
  <2> HIDE DEF T
  <2>1. T \subseteq Nat
    BY DEF T
  <2>2. QED BY <2>1, LeastNat
<1>2. m - 1 \in Nat /\ m - 1 \in S
  BY <1>1
<1>3. QED BY <1>2

\* g sums up the first n frames of the body: what Units chooses, on a prefix.
Sums(g, n) == g = [m \in 0 .. n |-> IF m = 0 THEN 0 ELSE g[m - 1] + body.frames[m]]

\* The equation of Units has a solution.
LEMMA SumsExist ==
  ASSUME Len(body.frames) \in Nat
  PROVE  \E g : Sums(g, Len(body.frames))
<1> DEFINE T == {n \in Nat : \E g : Sums(g, n)}
<1>1. 0 \in T
  <2>1. Sums([m \in 0 .. 0 |-> 0], 0)
    BY DEF Sums
  <2>2. QED BY <2>1
<1>2. ASSUME NEW n \in Nat, n \in T PROVE n + 1 \in T
  <2>1. PICK g : Sums(g, n)
    BY <1>2
  <2> DEFINE h == [m \in 0 .. n + 1 |-> IF m <= n THEN g[m] ELSE g[m - 1] + body.frames[m]]
  <2>2. \A m \in 0 .. n : g[m] = IF m = 0 THEN 0 ELSE g[m - 1] + body.frames[m]
    BY <2>1 DEF Sums
  <2>3. \A m \in 0 .. n + 1 : h[m] = IF m = 0 THEN 0 ELSE h[m - 1] + body.frames[m]
    <3> TAKE m \in 0 .. n + 1
    <3>1. CASE m <= n
      <4>1. m # 0 => m - 1 \in 0 .. n /\ h[m - 1] = g[m - 1]
        BY <3>1
      <4>2. h[m] = g[m]
        BY <3>1
      <4>3. QED BY <4>1, <4>2, <2>2, <3>1
    <3>2. CASE m = n + 1
      <4>1. h[m - 1] = g[m - 1] /\ m # 0
        BY <3>2
      <4> HIDE DEF h
      <4>2. h[m] = g[m - 1] + body.frames[m]
        BY <3>2 DEF h
      <4>3. QED BY <4>1, <4>2
    <3>3. QED BY <3>1, <3>2
  <2>4. Sums(h, n + 1)
    <3>1. h = [m \in 0 .. n + 1 |-> h[m]]
      OBVIOUS
    <3> HIDE DEF h
    <3>2. QED BY <2>3, <3>1 DEF Sums
  <2>5. QED BY <2>4
<1>3. Nat \subseteq T
  <2> HIDE DEF T
  <2>1. QED BY <1>1, <1>2, NatSetInduction
<1>4. QED BY <1>3

\* The first frame and every further one add their units.
LEMMA UnitsAdd ==
  ASSUME Len(body.frames) \in Nat
  PROVE  /\ Units[0] = 0
         /\ \A n \in 1 .. Len(body.frames) : Units[n] = Units[n - 1] + body.frames[n]
<1>1. PICK g : Sums(g, Len(body.frames))
  BY SumsExist
<1>2. g = [n \in 0 .. Len(body.frames) |-> IF n = 0 THEN 0 ELSE g[n - 1] + body.frames[n]]
  BY <1>1, Zenon DEF Sums
<1>3. Sums(Units, Len(body.frames))
  BY <1>2, Zenon DEF Units, Sums
<1> HIDE DEF Units
<1>4. QED BY <1>3 DEF Sums

\* Before the call the stream is open and there is no response body to drop.
FreshOK == call.pc = "idle" => req.end = "open" /\ resp.state = "none"

\* Every step of the model keeps a stream open until the call uses it.
LEMMA FreshNext == ASSUME FreshOK, RequestOK, ResponseOK, [Next]_vars PROVE FreshOK'
<1>0. req \in Request /\ resp \in Response /\ server \in Server
  BY DEF RequestOK, ResponseOK
<1>1. CASE CallStep \/ CancelCall
  <2>1. call'.pc # "idle"
    BY <1>1 DEF CallStep, CancelCall, StartCall, PumpFrame, PumpSend, PumpEnd, PumpFails,
       AwaitResponse, RequestOK
  <2>2. QED BY <2>1 DEF FreshOK
<1>2. CASE RespStep \/ DropBody
  <2>1. UNCHANGED call /\ resp.state # "none"
    BY <1>2 DEF RespStep, PollData, PollDataNone, PollError, PollTrailers, OnlyResp, DropBody
  <2>2. QED BY <2>1 DEF FreshOK
<1>3. CASE Transmit \/ ServerStep \/ ServerFails
  <2>1. UNCHANGED <<call, resp>> /\ req'.end = req.end
    BY <1>0, <1>3 DEF Transmit, ServerStep, Read, SendHeaders, Reply, FinishReply, EarlyReset,
       ResetByServer, ServerFails, OnlyServer, Request
  <2>2. QED BY <2>1 DEF FreshOK
<1>4. CASE UNCHANGED <<call, req, resp>>
  BY <1>4 DEF FreshOK
<1>5. QED BY <1>1, <1>2, <1>3, <1>4
          DEF Next, Lose, DropHandle, DriverEnds, chanVars, vars

\* No unit is lost between the body and the handler while the stream is not reset; the
\* end is sent after the last frame of a body that did not fail, and seen after the
\* units before it.
UnitsOK ==
  /\ req.end # "reset" /\ ~req.peerReset =>
       server.got + server.read + req.buffered = Units[call.next - 1]
  /\ req.end = "end" => body.end # "error" /\ call.next = Len(body.frames) + 1
  /\ server.saw = "end" => req.end # "open" /\ req.buffered = 0
  /\ NoTruncatedRequest

\* What UnitsOK reads of the handler.
Received == <<server.got, server.read, server.saw>>

LEMMA UnitsUnseen ==
  ASSUME UnitsOK, UNCHANGED <<body, req, call.next, Received>>
  PROVE  UnitsOK'
<1>1. Units' = Units /\ Total' = Total
  BY DEF Units, Total
<1>2. QED BY <1>1 DEF UnitsOK, NoTruncatedRequest, Received

\* A step that resets the stream in one direction or the other.
LEMMA UnitsReset ==
  ASSUME UnitsOK, UNCHANGED <<body, Received>>, call'.next = call.next,
         \/ req' = [req EXCEPT !.end = "reset", !.buffered = 0]
         \/ req' = [req EXCEPT !.peerReset = TRUE, !.buffered = 0],
         req \in Request
  PROVE  UnitsOK'
<1>1. Units' = Units /\ Total' = Total
  BY DEF Units, Total
<1>2. \/ req'.end = "reset" /\ req'.buffered = 0
      \/ req'.end = req.end /\ req'.peerReset /\ req'.buffered = 0
  BY DEF Request
<1>3. QED BY <1>1, <1>2 DEF UnitsOK, NoTruncatedRequest, Received

\* Every step of the call, of h2 and of the handler accounts for every unit.
LEMMA UnitsNext ==
  ASSUME UnitsOK, FreshOK, RequestOK, ResponseOK, [Next]_vars
  PROVE  UnitsOK'
<1>0. /\ body.frames \in Seq(Nat \ {0}) /\ Len(body.frames) \in Nat
      /\ call.next \in Nat \ {0} /\ call.next <= Len(body.frames) + 1
      /\ req \in Request /\ server \in Server
  BY BodiesAssumption DEF RequestOK, ResponseOK
<1>1. UNCHANGED body => Units' = Units /\ Total' = Total
  BY DEF Units, Total
<1>2. CASE StartCall
  <2>1. UNCHANGED <<body, server>> /\ call'.next = call.next
    BY <1>2, <1>0 DEF StartCall, OnlyCall, RequestOK
  <2>2. CASE UNCHANGED req
    BY <2>1, <2>2, UnitsUnseen DEF Received
  <2>3. CASE BodyIsEmpty /\ req' = [req EXCEPT !.end = "end"]
    <3>1. /\ body.frames = <<>> /\ body.end = "none" /\ call.next = Len(body.frames) + 1
          /\ req.end = "open" /\ req'.end = "end" /\ req'.buffered = req.buffered /\ req'.peerReset = req.peerReset
      BY <1>0, <1>2, <2>3 DEF BodyIsEmpty, Request, FreshOK, StartCall
    <3>2. QED BY <1>1, <2>1, <3>1 DEF UnitsOK, NoTruncatedRequest
  <2>4. QED BY <1>2, <2>2, <2>3 DEF StartCall
<1>3. CASE PumpFrame \/ AwaitResponse
  <2>1. UNCHANGED <<body, server, req>> /\ call'.next = call.next
    BY <1>3, <1>0 DEF PumpFrame, AwaitResponse, OnlyCall, RequestOK
  <2>2. QED BY <2>1, UnitsUnseen DEF Received
<1>4. CASE PumpSend
  <2>1. /\ call.next \in 1 .. Len(body.frames) /\ body.frames[call.next] \in Nat
        /\ req.end = "open" /\ ~req.peerReset
    BY <1>0, <1>4 DEF PumpSend, RequestOK, Streaming
  <2>2. /\ UNCHANGED <<body, server>> /\ call'.next = call.next + 1
        /\ req'.end = "open" /\ req'.peerReset = req.peerReset
        /\ req'.buffered = req.buffered + body.frames[call.next]
    BY <1>0, <1>4, <2>1 DEF PumpSend, OnlyCall, Request
  <2>3. Units[call.next] = Units[call.next - 1] + body.frames[call.next]
    BY <1>0, <2>1, UnitsAdd
  <2>4. server.got + server.read + req.buffered = Units[call.next - 1]
    BY <2>1 DEF UnitsOK
  <2>5. /\ server.got \in Nat /\ server.read \in Nat /\ req.buffered \in Nat
        /\ call'.next - 1 = call.next
    BY <1>0, <2>2 DEF Server, Request
  <2>6. server.got + server.read + req'.buffered = Units[call'.next - 1]
    BY <2>1, <2>2, <2>3, <2>4, <2>5, SMTT(30)
  <2>7. server.saw # "end"
    BY <2>1 DEF UnitsOK
  <2>8. QED BY <1>1, <2>2, <2>6, <2>7 DEF UnitsOK, NoTruncatedRequest
<1>5. CASE PumpEnd
  <2>1. /\ UNCHANGED <<body, server>> /\ call'.next = call.next
        /\ req'.end = "end" /\ req'.peerReset = req.peerReset /\ req'.buffered = req.buffered
        /\ body.end # "error" /\ call.next = Len(body.frames) + 1 /\ req.end = "open"
    BY <1>0, <1>5 DEF PumpEnd, BodyOver, Streaming, OnlyCall, Request, RequestOK
  <2>2. QED BY <1>1, <2>1 DEF UnitsOK, NoTruncatedRequest
<1>6. CASE PumpFails \/ CancelCall \/ DropBody
  <2>1. /\ UNCHANGED <<body, server>> /\ call'.next = call.next
        /\ req' = [req EXCEPT !.end = "reset", !.buffered = 0]
    BY <1>6, <1>0 DEF PumpFails, CancelCall, DropBody, OnlyCall, RequestOK
  <2>2. QED BY <1>0, <2>1, UnitsReset DEF Received
<1>7. CASE EarlyReset \/ ServerFails
  <2>1. /\ UNCHANGED <<body, call, Received>>
        /\ req' = [req EXCEPT !.peerReset = TRUE, !.buffered = 0]
    BY <1>7, <1>0 DEF EarlyReset, ServerFails, ResetByServer, OnlyServer, Received, Server
  <2>2. QED BY <1>0, <2>1, UnitsReset
<1>8. CASE Transmit
  <2>0. /\ UNCHANGED <<body, call>> /\ ~req.peerReset
        /\ server.got \in Nat /\ server.read \in Nat /\ req.buffered \in Nat
    BY <1>0, <1>8 DEF Transmit, OnlyServer, Server, Request
  <2>1. CASE /\ req.buffered > 0
             /\ req' = [req EXCEPT !.buffered = @ - 1, !.window = @ - 1]
             /\ server' = [server EXCEPT !.got = @ + 1]
    <3>1. /\ req'.end = req.end /\ req'.peerReset = req.peerReset
          /\ req'.buffered = req.buffered - 1 /\ server'.got = server.got + 1
          /\ server'.read = server.read /\ server'.saw = server.saw
      BY <1>0, <2>1 DEF Request, Server
    <3>2. /\ server.saw # "end"
          /\ server'.got + server'.read + req'.buffered
               = server.got + server.read + req.buffered
      BY <2>0, <2>1, <3>1, SMTT(30) DEF UnitsOK
    <3>3. QED BY <1>1, <2>0, <3>1, <3>2 DEF UnitsOK, NoTruncatedRequest
  <2>2. CASE /\ req.buffered = 0 /\ req.end # "open" /\ UNCHANGED req
             /\ server' = [server EXCEPT !.saw = req.end]
    <3>1. /\ server'.got = server.got /\ server'.read = server.read
          /\ server'.saw = req.end
      BY <1>0, <2>2 DEF Server
    <3>2. req.end = "end" =>
            body.end # "error" /\ server.got + server.read = Total
      <4>1. SUFFICES ASSUME req.end = "end"
                     PROVE  body.end # "error" /\ server.got + server.read = Total
        OBVIOUS
      <4>2. body.end # "error" /\ call.next - 1 = Len(body.frames)
        BY <4>1, <1>0 DEF UnitsOK
      <4>3. server.got + server.read + req.buffered = Units[call.next - 1]
        BY <4>1, <2>0 DEF UnitsOK
      <4>4. QED BY <2>0, <2>2, <4>2, <4>3 DEF Total
    <3>3. QED BY <1>1, <2>0, <2>2, <3>1, <3>2 DEF UnitsOK, NoTruncatedRequest
  <2>3. QED BY <1>8, <2>1, <2>2 DEF Transmit
<1>9. CASE Read
  <2>0. /\ UNCHANGED <<body, call>> /\ server.got > 0
        /\ server.got \in Nat /\ server.read \in Nat /\ req.buffered \in Nat
    BY <1>0, <1>9 DEF Read, OnlyServer, Server, Request
  <2>1. /\ req'.end = req.end /\ req'.peerReset = req.peerReset
        /\ req'.buffered = req.buffered /\ server'.got = server.got - 1
        /\ server'.read = server.read + 1 /\ server'.saw = server.saw
    BY <1>0, <1>9 DEF Read, Request, Server
  <2>2. server'.got + server'.read = server.got + server.read
    BY <2>0, <2>1
  <2>3. QED BY <1>1, <2>0, <2>1, <2>2 DEF UnitsOK, NoTruncatedRequest
<1>10. CASE SendHeaders \/ Reply \/ FinishReply \/ Lose \/ DriverEnds
  <2>1. UNCHANGED <<body, call, req, Received>>
    BY <1>10, <1>0 DEF SendHeaders, Reply, FinishReply, Lose, DriverEnds, OnlyServer, Received, Server
  <2>2. QED BY <2>1, UnitsUnseen
<1>11. CASE RespStep \/ DropHandle
  <2>1. UNCHANGED <<body, call, req, server>>
    BY <1>11 DEF RespStep, PollData, PollDataNone, PollError, PollTrailers, OnlyResp, DropHandle
  <2>2. QED BY <2>1, UnitsUnseen DEF Received
<1>12. CASE UNCHANGED chanVars \/ UNCHANGED vars
  BY <1>12, UnitsUnseen DEF chanVars, vars, Received
<1>13. QED BY <1>2, <1>3, <1>4, <1>5, <1>6, <1>7, <1>8, <1>9, <1>10, <1>11, <1>12
          DEF Next, CallStep, ServerStep

-----------------------------------------------------------------------------
(* The theorems.                                                           *)

\* The inductive invariant: the connection, the types and bound of the request half, the
\* response half, and the account of the request's units, which needs the types of both.
IInv == ConnectOK /\ RequestOK /\ BackPressure /\ RInv /\ FreshOK /\ UnitsOK

\* At first there is no connection, and nothing is buffered in either direction.
LEMMA InitIInv == Init => IInv
<1> SUFFICES ASSUME Init PROVE IInv
  OBVIOUS
<1>1. ConnectOK
  BY BuilderAssumption DEF Init, ConnectInit, ConnectOK, Owned
<1>2. RequestOK
  BY WindowsAssumption, BodiesAssumption DEF Init, RequestOK, Request
<1>3. BackPressure
  BY WindowsAssumption DEF Init, BackPressure
<1>4. PICK s \in Styles, r \in Replies :
        server = [pc |-> "serving", style |-> s, replies |-> r, got |-> 0, read |-> 0,
                  saw |-> "open", headers |-> FALSE, owed |-> 0, sent |-> 0]
  BY DEF Init
<1>5. ResponseOK
  BY <1>4, WindowsAssumption, HandlerAssumption DEF Init, ResponseOK, Server, Response, Items
<1>6. InOrder
  BY <1>4 DEF Init, InOrder, Pending, Undelivered, Shape
<1>7. WholeOK
  BY <1>4 DEF Init, WholeOK, NoTruncatedResponse
<1>8. UnitsOK
  <2>1. Len(body.frames) \in Nat
    BY <1>2, BodiesAssumption DEF RequestOK
  <2>2. Units[0] = 0
    BY <2>1, UnitsAdd
  <2>3. /\ server.got = 0 /\ server.read = 0 /\ server.saw = "open"
        /\ req.buffered = 0 /\ req.end = "open" /\ call.next - 1 = 0
    BY <1>4 DEF Init
  <2>4. QED BY <2>2, <2>3 DEF UnitsOK, NoTruncatedRequest
<1>9. FreshOK
  BY DEF Init, FreshOK
<1>10. QED BY <1>1, <1>2, <1>3, <1>5, <1>6, <1>7, <1>8, <1>9 DEF IInv, RInv

\* The inductive invariant holds throughout.
LEMMA InvariantIInv == Spec => []IInv
<1>1. IInv /\ [Next]_vars => IInv'
  <2> SUFFICES ASSUME IInv, [Next]_vars PROVE IInv'
    OBVIOUS
  <2>1. ConnectOK'
    BY ConnectNext DEF IInv
  <2>2. (RequestOK /\ BackPressure)'
    BY RequestNext DEF IInv
  <2>3. RInv'
    BY ResponseNext DEF IInv
  <2>4. UnitsOK'
    BY UnitsNext DEF IInv, RInv
  <2>5. FreshOK'
    BY FreshNext DEF IInv, RInv
  <2>6. QED BY <2>1, <2>2, <2>3, <2>4, <2>5 DEF IInv
<1>2. QED BY <1>1, InitIInv, PTL DEF Spec

\* connect_impl that fails, times out or is dropped, at whichever await, owns every
\* handle of the connection and drops them all, so that no connection is left behind;
\* one that succeeds leaves the driver task the only owner.
THEOREM ConnectCleans == Spec => []FailedConnectCleans
<1>1. IInv => FailedConnectCleans
  BY DEF IInv, ConnectOK, FailedConnectCleans, At
<1>2. QED BY <1>1, InvariantIInv, PTL

\* For any window and any frames, what pump_body leaves in h2's buffer exceeds the window
\* by less than one frame.
THEOREM PumpBounded == Spec => []BackPressure
<1>1. IInv => BackPressure
  BY DEF IInv
<1>2. QED BY <1>1, InvariantIInv, PTL

\* For any windows and handler, IrohResponseBody ends without an error only if the
\* handler has finished and every unit of its answer was delivered, however resets and
\* losses come between.
THEOREM ResponseWhole == Spec => []NoTruncatedResponse
<1>1. IInv => NoTruncatedResponse
  BY DEF IInv, RInv, WholeOK
<1>2. QED BY <1>1, InvariantIInv, PTL

\* For any windows, frames and handler, a handler that sees the request end has been
\* given every unit of a body that did not fail: no error, reset, dropped call or lost
\* connection makes a request look shorter than it was.
THEOREM RequestWhole == Spec => []NoTruncatedRequest
<1>1. IInv => NoTruncatedRequest
  BY DEF IInv, UnitsOK
<1>2. QED BY <1>1, InvariantIInv, PTL
=============================================================================
